--------------------------- MODULE ActivationProofs ---------------------------
(***************************************************************************)
(* Proofs about Activation, for any customers, requests and bounds, and    *)
(* for every choice of operations that overlap; and about the scenarios of *)
(* MCActivation, for any sets of requests and bounds.                      *)
(***************************************************************************)
EXTENDS MCActivation, SequenceTheorems, FiniteSetTheorems, TLAPS

-----------------------------------------------------------------------------
(* The inductive invariant                                                 *)

\* The steps of each operation.
Steps(op) ==
  CASE op = "register" -> {"saveCustomer", "portal", "link"}
    [] op = "otp" -> {"find", "saveOtp"}
    [] op = "verify" -> {"find", "findOtp", "use", "saveSetup"}
    [] op = "password" ->
         {"find", "findUser", "getUser", "saveUser", "findCustomer",
          "saveLinked", "use", "useParent"}
    [] op = "account" -> {"find", "findUser", "getUser", "saveUser", "use"}
    [] op = "status" -> {"saveStatus", "getUser", "saveUser"}
    [] op = "purchase" -> {"saveTotals"}
    [] op = "none" -> {}

\* A request goes by the steps of its operation, about a challenge that
\* exists or a customer, and while it has saves of the user to make it knows
\* which.
Planned(r) ==
  /\ r.plan \in Seq(Steps(r.op))
  /\ r.edits = <<>> => r.plan \in Seq(Step \ {"getUser", "saveUser"})
  /\ r.op \in Redeeming => r.id \in DOMAIN rows
  /\ r.op \in {"register", "status", "purchase"} => r.customer \in Customers
  /\ r.late => r.id \in answered

PlansKept == \A h \in Requests : Planned(request[h])

\* OTPs and setup tokens belong to a link.
RowsLinked == \A i \in DOMAIN rows : rows[i].kind # "link" => rows[i].parent # 0

\* Whatever an answered request redeemed is used, and stays so.
AnsweredIsUsed == \A i \in answered : rows[i].isUsed

IInv == TypeOK /\ PlansKept /\ RowsLinked /\ AnsweredIsUsed /\ SpentStaysSpent

-----------------------------------------------------------------------------
(* Sequences                                                               *)

\* Rows that are written in place are as many as before.
LEMMA RowsWritten ==
  ASSUME NEW s \in Seq(Challenge), NEW t \in [DOMAIN s -> Challenge]
  PROVE  /\ t \in Seq(Challenge)
         /\ Len(t) = Len(s)
         /\ DOMAIN t = DOMAIN s
<1>1. DOMAIN s = 1 .. Len(s) /\ Len(s) \in Nat
  OBVIOUS
<1>2. t \in Seq(Challenge)
  BY <1>1, SeqDef
<1>3. DOMAIN t = 1 .. Len(t) /\ Len(t) \in Nat
  BY <1>2
<1> QED  BY <1>1, <1>2, <1>3

\* One request changes, the others keep to their plans.
LEMMA RequestStep ==
  ASSUME IInv, NEW h \in Requests, NEW r \in Request,
         Becomes(h, r),
         rows' \in Seq(Challenge), DOMAIN rows \subseteq DOMAIN rows',
         answered \subseteq answered',
         Planned(r)'
  PROVE  request' \in [Requests -> Request] /\ PlansKept'
<1>1. request' = [request EXCEPT ![h] = r] /\ request \in [Requests -> Request]
  BY DEF Becomes, IInv, TypeOK
<1>2. ASSUME NEW g \in Requests, g # h
      PROVE  Planned(request[g])'
  <2>1. request'[g] = request[g]
    BY <1>1, <1>2
  <2>2. Planned(request[g])
    BY <1>2 DEF IInv, PlansKept
  <2> QED  BY <2>1, <2>2 DEF Planned
<1>3. Planned(request[h])'
  <2>1. request'[h] = r
    BY <1>1
  <2> QED  BY <2>1 DEF Planned
<1> QED  BY <1>1, <1>2, <1>3 DEF PlansKept

\* A plan of one step.
LEMMA OneStep ==
  ASSUME NEW S, NEW step \in S
  PROVE  <<step>> \in Seq(S)
OBVIOUS

\* The next step of a request is one of its operation.
LEMMA NextStep ==
  ASSUME IInv, NEW h \in Requests, NEW step \in Step, At(h, step)
  PROVE  /\ request[h] \in Request
         /\ Planned(request[h])
         /\ request[h].op \in Operations
         /\ step \in Steps(request[h].op)
         /\ step \in {"getUser", "saveUser"} => request[h].edits # <<>>
<1>1. request[h] \in Request /\ Planned(request[h])
  BY DEF IInv, TypeOK, PlansKept
<1>2. request[h].plan # <<>> /\ Head(request[h].plan) = step
  BY DEF At
<1>3. request[h].op # "none"
  <2>1. ASSUME request[h].op = "none"  PROVE FALSE
    <3>1. request[h].plan \in Seq({})
      BY <1>1, <2>1 DEF Planned, Steps
    <3> QED  BY <1>2, <3>1
  <2> QED  BY <2>1
<1>4. request[h].op \in Operations
  BY <1>1, <1>3 DEF Request
<1>5. step \in Steps(request[h].op)
  BY <1>1, <1>2 DEF Planned
<1>6. step \in {"getUser", "saveUser"} => request[h].edits # <<>>
  BY <1>1, <1>2 DEF Planned
<1> QED  BY <1>1, <1>4, <1>5, <1>6

LEMMA IdlePlanned == Idle \in Request /\ Planned(Idle)
<1>1. NoCustomer \in Customer /\ NoUser \in User
  BY DEF NoCustomer, Customer, NoUser, User
<1>2. <<>> \in Seq(Step) /\ <<>> \in Seq(Edit)
  OBVIOUS
<1>3. Idle \in Request
  BY <1>1, <1>2 DEF Idle, Request, Channels
<1>4. <<>> \in Seq(Steps("none")) /\ <<>> \in Seq(Step \ {"getUser", "saveUser"})
  OBVIOUS
<1> QED  BY <1>3, <1>4 DEF Idle, Planned, Redeeming

\* A request goes on with the rest of its plan.
LEMMA RestPlanned ==
  ASSUME NEW r \in Request, Planned(r), r.plan # <<>>
  PROVE  Rest(r) \in Request /\ Planned(Rest(r))
<1>1. CASE Len(r.plan) = 1
  <2>1. Rest(r) = Idle
    BY <1>1 DEF Rest
  <2> QED  BY <2>1, IdlePlanned
<1>2. CASE Len(r.plan) # 1
  <2> DEFINE q == [r EXCEPT !.plan = Tail(@)]
  <2>1. Rest(r) = q
    BY <1>2 DEF Rest
  <2>2. r.plan \in Seq(Step)
    BY DEF Request
  <2>3. \A S : r.plan \in Seq(S) => Tail(r.plan) \in Seq(S)
    OBVIOUS
  <2>4. q \in Request /\ q.plan = Tail(r.plan)
    BY <2>2, <2>3 DEF Request
  <2>5. q.plan \in Seq(Steps(r.op))
    BY <2>3, <2>4 DEF Planned
  <2>7. r.edits = <<>> => q.plan \in Seq(Step \ {"getUser", "saveUser"})
    BY <2>3, <2>4 DEF Planned
  <2>6. /\ q.op = r.op /\ q.edits = r.edits /\ q.id = r.id
        /\ q.customer = r.customer /\ q.late = r.late
    BY DEF Request
  <2> QED  BY <2>1, <2>4, <2>5, <2>6, <2>7 DEF Planned
<1> QED  BY <1>1, <1>2

-----------------------------------------------------------------------------
(* What steps write                                                        *)

RowsWhole ==
  /\ rows \in Seq(Challenge)
  /\ \A i \in DOMAIN rows : rows[i].parent \in 0 .. i - 1
  /\ RowsLinked

\* A challenge is created.
LEMMA RowCreated ==
  ASSUME IInv, NEW c \in Challenge,
         c.parent \in 0 .. Len(rows), c.kind # "link" => c.parent # 0,
         rows' = Append(rows, c)
  PROVE  /\ RowsWhole'
         /\ DOMAIN rows \subseteq DOMAIN rows'
         /\ \A i \in DOMAIN rows : rows'[i] = rows[i]
<1>1. rows \in Seq(Challenge)
  BY DEF IInv, TypeOK
<1>2. /\ rows' \in Seq(Challenge)
      /\ DOMAIN rows = 1 .. Len(rows)
      /\ DOMAIN rows' = 1 .. Len(rows) + 1
      /\ Len(rows) \in Nat
      /\ \A i \in DOMAIN rows : rows'[i] = rows[i]
      /\ rows'[Len(rows) + 1] = c
  BY <1>1
<1>3. ASSUME NEW i \in DOMAIN rows'
      PROVE  /\ rows'[i].parent \in 0 .. i - 1
             /\ rows'[i].kind # "link" => rows'[i].parent # 0
  <2>1. CASE i \in DOMAIN rows
    BY <1>2, <2>1 DEF IInv, TypeOK, RowsLinked
  <2>2. CASE i = Len(rows) + 1
    BY <1>2, <2>2
  <2> QED  BY <1>2, <2>1, <2>2
<1> QED  BY <1>2, <1>3 DEF RowsWhole, RowsLinked

\* Challenges are written, but neither their kind nor their link.
LEMMA RowsRewritten ==
  ASSUME IInv, NEW t \in [DOMAIN rows -> Challenge],
         \A i \in DOMAIN rows :
           t[i].kind = rows[i].kind /\ t[i].parent = rows[i].parent,
         rows' = t
  PROVE  RowsWhole' /\ DOMAIN rows' = DOMAIN rows
<1>1. rows \in Seq(Challenge)
  BY DEF IInv, TypeOK
<1>2. rows' \in Seq(Challenge) /\ DOMAIN rows' = DOMAIN rows
  BY <1>1, RowsWritten
<1> QED  BY <1>2 DEF RowsWhole, RowsLinked, IInv, TypeOK

\* Everything the invariant says of rows and requests, together.
LEMMA Together ==
  ASSUME IInv, NEW h \in Requests, NEW r \in Request, Becomes(h, r),
         RowsWhole', DOMAIN rows \subseteq DOMAIN rows',
         answered \subseteq answered', answered' \subseteq DOMAIN rows',
         AnsweredIsUsed', Planned(r)', again' = FALSE,
         customer' \in [Customers -> Customer], user' \in User,
         {changes', faults'} \subseteq Nat,
         bought' \in [Customers -> Nat],
         {setups', passwords'} \subseteq [1 .. MaxRows -> Nat],
         closed' \subseteq Customers
  PROVE  IInv'
<1>1. request' \in [Requests -> Request] /\ PlansKept'
  BY RequestStep DEF RowsWhole
<1> QED  BY <1>1 DEF RowsWhole, IInv, TypeOK, SpentStaysSpent

\* A request goes on, or ends, and changes no row of a challenge.
LEMMA RequestOnly ==
  ASSUME IInv, NEW h \in Requests, NEW r \in Request, Becomes(h, r),
         Planned(r), UNCHANGED <<rows, answered>>, again' = FALSE,
         customer' \in [Customers -> Customer], user' \in User,
         {changes', faults'} \subseteq Nat,
         bought' \in [Customers -> Nat],
         {setups', passwords'} \subseteq [1 .. MaxRows -> Nat],
         closed' \subseteq Customers
  PROVE  IInv'
<1>1. RowsWhole' /\ DOMAIN rows \subseteq DOMAIN rows'
  BY DEF RowsWhole, RowsLinked, IInv, TypeOK
<1>2. answered' \subseteq DOMAIN rows' /\ AnsweredIsUsed'
  BY DEF IInv, TypeOK, AnsweredIsUsed
<1>3. Planned(r)'
  BY DEF Planned
<1> QED  BY <1>1, <1>2, <1>3, Together

-----------------------------------------------------------------------------
(* The beginnings of requests                                              *)

LEMMA RegisterStep ==
  ASSUME IInv, NEW h \in Requests, NEW c \in Customers, Register(h, c)
  PROVE  IInv'
<1> DEFINE plan == <<"saveCustomer", "portal", "link">>
           r == [Idle EXCEPT !.op = "register", !.customer = c, !.plan = plan]
<1>1. plan \in Seq(Step \ {"getUser", "saveUser"}) /\ plan \in Seq(Steps("register"))
  BY DEF Step, Steps
<1>2. plan \in Seq(Step)
  BY DEF Step
<1>3. r \in Request
  BY <1>2, IdlePlanned DEF Request, Operations
<1>4. Planned(r)
  BY <1>1 DEF Planned, Idle, Redeeming
<1>5. Becomes(h, r)
  BY DEF Register
<1> QED  BY <1>3, <1>4, <1>5, RequestOnly
         DEF Register, IInv, TypeOK, SpentStaysSpent, history

LEMMA RedeemStep ==
  ASSUME IInv, NEW h \in Requests,
         NEW op \in {"otp", "verify", "password", "account"},
         NEW i \in DOMAIN rows, NEW via \in Channels, Redeem(h, op, i, via)
  PROVE  IInv'
<1> DEFINE plan == <<"find">>
           late == i \in answered
           r == [Idle EXCEPT !.op = op, !.id = i, !.via = via,
                             !.late = late, !.plan = plan]
<1>0. "find" \in Step \ {"getUser", "saveUser"} /\ "find" \in Steps(op)
  BY DEF Step, Steps
<1>1. plan \in Seq(Step \ {"getUser", "saveUser"}) /\ plan \in Seq(Steps(op))
  BY <1>0, OneStep
<1>2. plan \in Seq(Step) /\ i \in Nat /\ late \in BOOLEAN
  BY DEF Step, IInv, TypeOK
<1>3. r \in Request
  BY <1>2, IdlePlanned DEF Request, Operations
<1>4. Planned(r)
  BY <1>1 DEF Planned, Idle, Redeeming
<1>5. Becomes(h, r)
  BY DEF Redeem
<1> QED  BY <1>3, <1>4, <1>5, RequestOnly
         DEF Redeem, IInv, TypeOK, SpentStaysSpent, history

LEMMA ChangeStatusStep ==
  ASSUME IInv, NEW h \in Requests, NEW c \in Customers,
         NEW status \in {"active", "deactivated"}, ChangeStatus(h, c, status)
  PROVE  IInv'
<1> DEFINE plan == <<"saveStatus">>
           entity == [customer[c] EXCEPT !.status = status]
           r == [Idle EXCEPT !.op = "status", !.customer = c,
                             !.entity = entity, !.plan = plan]
<1>0. "saveStatus" \in Step \ {"getUser", "saveUser"} /\ "saveStatus" \in Steps("status")
  BY DEF Step, Steps
<1>1. plan \in Seq(Step \ {"getUser", "saveUser"}) /\ plan \in Seq(Steps("status"))
  BY <1>0, OneStep
<1>2. plan \in Seq(Step) /\ entity \in Customer
  <2>1. customer[c] \in Customer
    BY DEF IInv, TypeOK
  <2> QED  BY <1>0, <2>1, OneStep DEF Customer
<1>3. r \in Request
  BY <1>2, IdlePlanned DEF Request, Operations
<1>4. Planned(r)
  BY <1>1 DEF Planned, Idle, Redeeming
<1>5. Becomes(h, r)
  BY DEF ChangeStatus
<1>6. changes' \in Nat /\ closed' \subseteq Customers
  BY DEF ChangeStatus, IInv, TypeOK
<1> QED  BY <1>3, <1>4, <1>5, <1>6, RequestOnly
         DEF ChangeStatus, IInv, TypeOK, SpentStaysSpent

LEMMA PurchaseStep ==
  ASSUME IInv, NEW h \in Requests, NEW c \in Customers, Purchase(h, c)
  PROVE  IInv'
<1> DEFINE plan == <<"saveTotals">>
           r == [Idle EXCEPT !.op = "purchase", !.customer = c,
                             !.entity = customer[c], !.plan = plan]
<1>0. "saveTotals" \in Step \ {"getUser", "saveUser"} /\ "saveTotals" \in Steps("purchase")
  BY DEF Step, Steps
<1>1. plan \in Seq(Step \ {"getUser", "saveUser"}) /\ plan \in Seq(Steps("purchase"))
  BY <1>0, OneStep
<1>2. plan \in Seq(Step) /\ customer[c] \in Customer
  BY DEF Step, IInv, TypeOK
<1>3. r \in Request
  BY <1>2, IdlePlanned DEF Request, Operations
<1>4. Planned(r)
  BY <1>1 DEF Planned, Idle, Redeeming
<1>5. Becomes(h, r)
  BY DEF Purchase
<1> QED  BY <1>3, <1>4, <1>5, RequestOnly
         DEF Purchase, IInv, TypeOK, SpentStaysSpent, history

-----------------------------------------------------------------------------
(* Registration                                                            *)

LEMMA SaveCustomerStep ==
  ASSUME IInv, NEW h \in Requests, SaveCustomer(h)
  PROVE  IInv'
<1>1. Rest(request[h]) \in Request /\ Planned(Rest(request[h]))
  BY NextStep, RestPlanned DEF SaveCustomer, At, Step
<1>2. customer' \in [Customers -> Customer]
  BY DEF SaveCustomer, IInv, TypeOK, Customer
<1>3. Becomes(h, Rest(request[h]))
  BY DEF SaveCustomer
<1> QED  BY <1>1, <1>2, <1>3, RequestOnly
         DEF SaveCustomer, IInv, TypeOK, SpentStaysSpent, history

LEMMA PortalUserStep ==
  ASSUME IInv, NEW h \in Requests, PortalUser(h)
  PROVE  IInv'
<1>1. Rest(request[h]) \in Request /\ Planned(Rest(request[h]))
  BY NextStep, RestPlanned DEF PortalUser, At, Step
<1>2. user' \in User
  BY DEF PortalUser, IInv, TypeOK, User
<1>3. Becomes(h, Rest(request[h]))
  BY DEF PortalUser
<1> QED  BY <1>1, <1>2, <1>3, RequestOnly
         DEF PortalUser, IInv, TypeOK, SpentStaysSpent, history

\* A request that goes on after it created a challenge.
LEMMA Creates ==
  ASSUME IInv, NEW h \in Requests, NEW r \in Request, Planned(r),
         NEW kind \in {"link", "otp", "setup"}, NEW via \in Channels,
         NEW parent \in 0 .. Len(rows), kind # "link" => parent # 0,
         rows' = Append(rows, Row(kind, parent, via)),
         Becomes(h, r),
         UNCHANGED <<customer, user, changes, faults, bought, answered, again,
                     passwords, closed>>,
         setups' \in [1 .. MaxRows -> Nat]
  PROVE  IInv'
<1> DEFINE c == Row(kind, parent, via)
<1>1. Len(rows) \in Nat /\ parent \in Nat
  BY DEF IInv, TypeOK
<1>2. c \in Challenge /\ c.parent = parent /\ c.kind = kind
  BY <1>1 DEF Row, Challenge
<1>3. /\ RowsWhole'
      /\ DOMAIN rows \subseteq DOMAIN rows'
      /\ \A i \in DOMAIN rows : rows'[i] = rows[i]
  BY <1>2, RowCreated
<1>4. answered' \subseteq DOMAIN rows' /\ AnsweredIsUsed'
  BY <1>3 DEF IInv, TypeOK, AnsweredIsUsed
<1>5. Planned(r)'
  BY <1>3 DEF Planned
<1> QED  BY <1>3, <1>4, <1>5, Together DEF IInv, TypeOK, SpentStaysSpent

LEMMA SendLinkStep ==
  ASSUME IInv, NEW h \in Requests, SendLink(h)
  PROVE  IInv'
<1>1. Rest(request[h]) \in Request /\ Planned(Rest(request[h]))
  BY NextStep, RestPlanned DEF SendLink, At, Step
<1>2. 0 \in 0 .. Len(rows) /\ "email" \in Channels
  BY DEF IInv, TypeOK, Channels
<1> QED  BY <1>1, <1>2, Creates DEF SendLink, history, IInv, TypeOK

-----------------------------------------------------------------------------
(* Redeeming a challenge                                                   *)

\* A request goes on with other steps of its operation.
LEMMA OtherPlan ==
  ASSUME NEW r \in Request, Planned(r), NEW plan \in Seq(Step),
         plan \in Seq(Steps(r.op)),
         r.edits = <<>> => plan \in Seq(Step \ {"getUser", "saveUser"})
  PROVE  /\ [r EXCEPT !.plan = plan] \in Request
         /\ Planned([r EXCEPT !.plan = plan])
<1>1. [r EXCEPT !.plan = plan] \in Request
  BY DEF Request
<1> QED  BY <1>1 DEF Request, Planned

\* Where an accepted challenge leads are steps of the same operation.
LEMMA AcceptedSteps ==
  ASSUME NEW op \in Redeeming
  PROVE  /\ Accepted(op) \in Seq(Step \ {"getUser", "saveUser"})
         /\ Accepted(op) \in Seq(Step)
         /\ Accepted(op) \in Seq(Steps(op))
<1>1. CASE op = "otp"
  BY <1>1 DEF Accepted, Steps, Step
<1>2. CASE op = "verify"
  BY <1>2 DEF Accepted, Steps, Step
<1>3. CASE op = "password"
  BY <1>3 DEF Accepted, Steps, Step
<1>4. CASE op = "account"
  BY <1>4 DEF Accepted, Steps, Step
<1> QED  BY <1>1, <1>2, <1>3, <1>4 DEF Redeeming

\* The steps that redeem are those of redeeming operations.
LEMMA RedeemingStep ==
  ASSUME NEW op \in Operations, NEW step \in Steps(op),
         step \in {"find", "saveOtp", "findOtp", "use", "saveSetup",
                   "findUser", "findCustomer", "saveLinked", "useParent"}
  PROVE  /\ op \in Redeeming
         /\ step \in {"findOtp", "saveSetup"} => op = "verify"
         /\ step = "saveOtp" => op = "otp"
         /\ step \in {"findCustomer", "saveLinked", "useParent"} =>
              op = "password"
         /\ step = "findUser" => op \in {"password", "account"}
BY DEF Operations, Steps, Redeeming

LEMMA FindStep ==
  ASSUME IInv, NEW h \in Requests, Find(h)
  PROVE  IInv'
<1> DEFINE r == request[h]
           i == IF r.op = "verify" THEN LinkOf(r.id) ELSE r.id
           q == [r EXCEPT !.plan = Accepted(r.op)]
<1>1. /\ r \in Request /\ Planned(r) /\ r.op \in Redeeming
  BY NextStep, RedeemingStep DEF Find, Step
<1>2. CASE Open(i)
  <2>1. q \in Request /\ Planned(q)
    BY <1>1, AcceptedSteps, OtherPlan
  <2>2. Becomes(h, q)
    BY <1>2 DEF Find
  <2>3. r.late /\ r.op \in {"password", "account"} => FALSE
    <3> SUFFICES ASSUME r.late, r.op \in {"password", "account"}
                 PROVE  FALSE
      OBVIOUS
    <3>1. rows[r.id].isUsed
      BY <1>1 DEF Planned, IInv, AnsweredIsUsed
    <3> QED  BY <1>2, <3>1 DEF Open
  <2>4. again' = FALSE
    BY <1>2, <2>3 DEF Find, IInv, SpentStaysSpent
  <2> QED  BY <2>1, <2>2, <2>4, RequestOnly DEF Find, IInv, TypeOK
<1>3. CASE ~Open(i)
  BY <1>3, IdlePlanned, RequestOnly DEF Find, IInv, TypeOK, SpentStaysSpent
<1> QED  BY <1>2, <1>3

LEMMA FindOtpStep ==
  ASSUME IInv, NEW h \in Requests, FindOtp(h)
  PROVE  IInv'
<1> DEFINE r == request[h]
<1>1. r \in Request /\ Planned(r) /\ r.plan # <<>>
  BY NextStep DEF FindOtp, At, Step
<1>2. CASE Open(r.id)
  <2>1. Rest(r) \in Request /\ Planned(Rest(r))
    BY <1>1, RestPlanned
  <2>2. ~r.late
    <3> SUFFICES ASSUME r.late  PROVE FALSE
      OBVIOUS
    <3>1. rows[r.id].isUsed
      BY <1>1 DEF Planned, IInv, AnsweredIsUsed
    <3> QED  BY <1>2, <3>1 DEF Open
  <2>3. again' = FALSE
    BY <1>2, <2>2 DEF FindOtp, IInv, SpentStaysSpent
  <2>4. Becomes(h, Rest(r))
    BY <1>2 DEF FindOtp
  <2> QED  BY <2>1, <2>3, <2>4, RequestOnly DEF FindOtp, IInv, TypeOK
<1>3. CASE ~Open(r.id)
  BY <1>3, IdlePlanned, RequestOnly DEF FindOtp, IInv, TypeOK, SpentStaysSpent
<1> QED  BY <1>2, <1>3

\* The link of a challenge is a challenge, and not a later one.
LEMMA LinkType ==
  ASSUME IInv, NEW i \in DOMAIN rows
  PROVE  LinkOf(i) \in DOMAIN rows /\ LinkOf(i) \in 1 .. Len(rows)
<1>1. DOMAIN rows = 1 .. Len(rows) /\ Len(rows) \in Nat
  BY DEF IInv, TypeOK
<1>2. CASE rows[i].kind = "link"
  BY <1>1, <1>2 DEF LinkOf
<1>3. CASE rows[i].kind # "link"
  <2>1. rows[i].parent \in 1 .. i - 1
    BY <1>1, <1>3 DEF IInv, TypeOK, RowsLinked
  <2> QED  BY <1>1, <1>3, <2>1 DEF LinkOf
<1> QED  BY <1>2, <1>3

LEMMA SaveOtpStep ==
  ASSUME IInv, NEW h \in Requests, SaveOtp(h)
  PROVE  IInv'
<1> DEFINE r == request[h]
<1>1. /\ r \in Request /\ Planned(r) /\ r.plan # <<>>
      /\ r.op \in Redeeming
  BY NextStep, RedeemingStep DEF SaveOtp, At, Step
<1>2. Rest(r) \in Request /\ Planned(Rest(r))
  BY <1>1, RestPlanned
<1>3. r.id \in 0 .. Len(rows) /\ r.id # 0 /\ r.via \in Channels
  <2>1. r.id \in DOMAIN rows
    BY <1>1 DEF Planned
  <2> QED  BY <1>1, <2>1 DEF IInv, TypeOK, Request
<1> QED  BY <1>2, <1>3, Creates DEF SaveOtp, history, IInv, TypeOK

LEMMA SaveSetupStep ==
  ASSUME IInv, NEW h \in Requests, SaveSetup(h)
  PROVE  IInv'
<1> DEFINE r == request[h]
<1>1. /\ r \in Request /\ Planned(r) /\ r.plan # <<>>
      /\ r.op \in Redeeming
  BY NextStep, RedeemingStep DEF SaveSetup, At, Step
<1>2. Rest(r) \in Request /\ Planned(Rest(r))
  BY <1>1, RestPlanned
<1>3. r.id \in DOMAIN rows
  BY <1>1 DEF Planned
<1>4. rows[r.id].via \in Channels
  <2>1. rows[r.id] \in Challenge
    BY <1>3 DEF IInv, TypeOK
  <2> QED  BY <2>1 DEF Challenge
<1>5. LinkOf(r.id) \in 0 .. Len(rows) /\ LinkOf(r.id) # 0
  BY <1>3, LinkType
<1>6. setups' \in [1 .. MaxRows -> Nat]
  <2>1. setups \in [1 .. MaxRows -> Nat]
    BY DEF IInv, TypeOK
  <2>2. setups' = [setups EXCEPT ![r.id] = @ + 1]
    BY DEF SaveSetup
  <2>3. CASE r.id \in 1 .. MaxRows
    BY <2>1, <2>2, <2>3
  <2>4. CASE r.id \notin 1 .. MaxRows
    BY <2>1, <2>2, <2>4
  <2> QED  BY <2>3, <2>4
<1> QED  BY <1>2, <1>4, <1>5, <1>6, Creates DEF SaveSetup, IInv, TypeOK

\* A challenge is used, and the request goes on.
LEMMA IsSpent ==
  ASSUME IInv, NEW h \in Requests, NEW r \in Request, Planned(r),
         NEW i \in DOMAIN rows, NEW t \in [DOMAIN rows -> Challenge],
         \A j \in DOMAIN rows :
           /\ t[j].kind = rows[j].kind /\ t[j].parent = rows[j].parent
           /\ rows[j].isUsed => t[j].isUsed,
         t[i].isUsed,
         rows' = t, answered' = answered \union {i}, Becomes(h, r),
         UNCHANGED <<customer, user, changes, faults, bought, again, setups,
                     passwords, closed>>
  PROVE  IInv'
<1>1. RowsWhole' /\ DOMAIN rows' = DOMAIN rows
  BY RowsRewritten
<1>2. Planned(r)'
  BY <1>1 DEF Planned
<1>3. answered' \subseteq DOMAIN rows' /\ AnsweredIsUsed'
  BY <1>1 DEF IInv, TypeOK, AnsweredIsUsed
<1> QED  BY <1>1, <1>2, <1>3, Together DEF IInv, TypeOK, SpentStaysSpent

LEMMA UseStep ==
  ASSUME IInv, NEW h \in Requests, Use(h)
  PROVE  IInv'
<1> DEFINE r == request[h]
           t == [rows EXCEPT ![r.id].isUsed = TRUE, ![r.id].deleted = FALSE]
<1>1. /\ r \in Request /\ Planned(r) /\ r.plan # <<>>
      /\ r.op \in Redeeming
  BY NextStep, RedeemingStep DEF Use, At, Step
<1>2. Rest(r) \in Request /\ Planned(Rest(r))
  BY <1>1, RestPlanned
<1>3. r.id \in DOMAIN rows /\ rows \in [DOMAIN rows -> Challenge]
  BY <1>1 DEF Planned, IInv, TypeOK
<1>4. /\ t \in [DOMAIN rows -> Challenge]
      /\ \A j \in DOMAIN rows :
           /\ t[j].kind = rows[j].kind /\ t[j].parent = rows[j].parent
           /\ rows[j].isUsed => t[j].isUsed
      /\ t[r.id].isUsed
  <2>1. t = [j \in DOMAIN rows |->
               IF j = r.id THEN [rows[j] EXCEPT !.isUsed = TRUE, !.deleted = FALSE]
                           ELSE rows[j]]
    BY <1>3
  <2>2. \A j \in DOMAIN rows : rows[j] \in Challenge
    BY <1>3
  <2> HIDE DEF t
  <2> QED  BY <1>3, <2>1, <2>2 DEF Challenge
<1> HIDE DEF t
<1>5. rows' = t
  BY DEF Use, t
<1> QED  BY <1>2, <1>3, <1>4, <1>5, IsSpent DEF Use

LEMMA UseParentStep ==
  ASSUME IInv, NEW h \in Requests, UseParent(h)
  PROVE  IInv'
<1> DEFINE r == request[h]
           i == LinkOf(r.id)
           t == [rows EXCEPT ![i].isUsed = TRUE]
<1>1. /\ r \in Request /\ Planned(r) /\ r.plan # <<>>
      /\ r.op \in Redeeming
  BY NextStep, RedeemingStep DEF UseParent, At, Step
<1>2. Rest(r) \in Request /\ Planned(Rest(r))
  BY <1>1, RestPlanned
<1>3. i \in DOMAIN rows /\ rows \in [DOMAIN rows -> Challenge]
  BY <1>1, LinkType DEF Planned, IInv, TypeOK
<1> HIDE DEF i
<1>4. /\ t \in [DOMAIN rows -> Challenge]
      /\ \A j \in DOMAIN rows :
           /\ t[j].kind = rows[j].kind /\ t[j].parent = rows[j].parent
           /\ rows[j].isUsed => t[j].isUsed
      /\ t[i].isUsed
  BY <1>3 DEF Challenge
<1> HIDE DEF t
<1>5. rows' = t /\ answered' = answered \union {i}
  BY DEF UseParent, t, i
<1> QED  BY <1>2, <1>3, <1>4, <1>5, IsSpent DEF UseParent

-----------------------------------------------------------------------------
(* The user and the customer                                               *)

\* The saves a user needs are a sequence of edits.
LEMMA EditsType ==
  ASSUME NEW op, NEW u, NEW via
  PROVE  Edits(op, u, via) \in Seq(Edit)
<1>1. \A edit \in Edit, c \in BOOLEAN :
        (IF c THEN <<edit>> ELSE <<>>) \in Seq(Edit)
  OBVIOUS
<1>2. \A a, b, c, d \in Seq(Edit) : a \o b \o c \o d \in Seq(Edit)
  OBVIOUS
<1>3. "password" \in Edit /\ "activate" \in Edit /\ "email" \in Edit
      /\ "phone" \in Edit
  BY DEF Edit
<1> DEFINE a == IF op = "password" THEN <<"password">> ELSE <<>>
           b == IF u.status # "active" THEN <<"activate">> ELSE <<>>
           c == IF ~u.email /\ (via # "sms" \/ op = "account")
                THEN <<"email">> ELSE <<>>
           d == IF ~u.phone /\ via = "sms" /\ op = "password"
                THEN <<"phone">> ELSE <<>>
<1>4. a \in Seq(Edit) /\ b \in Seq(Edit) /\ c \in Seq(Edit) /\ d \in Seq(Edit)
  BY <1>3
<1>5. Edits(op, u, via) = a \o b \o c \o d
  BY DEF Edits
<1> HIDE DEF a, b, c, d
<1> QED  BY <1>2, <1>4, <1>5

\* What follows the saves of the user are steps of the same operation.
LEMMA AfterUserSteps ==
  ASSUME NEW op \in {"password", "account", "status"}
  PROVE  /\ AfterUser(op) \in Seq(Step \ {"getUser", "saveUser"})
         /\ AfterUser(op) \in Seq(Step)
         /\ AfterUser(op) \in Seq(Steps(op))
<1>1. CASE op = "password"
  BY <1>1 DEF AfterUser, Steps, Step
<1>2. CASE op = "account"
  BY <1>2 DEF AfterUser, Steps, Step
<1>3. CASE op = "status"
  BY <1>3 DEF AfterUser
<1> QED  BY <1>1, <1>2, <1>3

\* The operations that save the user.
LEMMA UserStep ==
  ASSUME NEW op \in Operations, NEW step \in {"findUser", "getUser", "saveUser"},
         step \in Steps(op)
  PROVE  /\ op \in {"password", "account", "status"}
         /\ "getUser" \in Steps(op) /\ "saveUser" \in Steps(op)
BY DEF Operations, Steps

\* A request that saves the user goes on with other steps.
LEMMA OtherEdits ==
  ASSUME NEW r \in Request, Planned(r), NEW plan \in Seq(Step),
         NEW edits \in Seq(Edit), NEW u \in User,
         plan \in Seq(Steps(r.op)),
         edits = <<>> => plan \in Seq(Step \ {"getUser", "saveUser"})
  PROVE  LET q == [r EXCEPT !.edits = edits, !.plan = plan, !.user = u] IN
         q \in Request /\ Planned(q)
<1> DEFINE q == [r EXCEPT !.edits = edits, !.plan = plan, !.user = u]
<1>1. q \in Request
  BY DEF Request
<1>2. /\ q.op = r.op /\ q.edits = edits /\ q.id = r.id /\ q.plan = plan
      /\ q.customer = r.customer /\ q.late = r.late
  BY DEF Request
<1> QED  BY <1>1, <1>2 DEF Planned

LEMMA FindUserStep ==
  ASSUME IInv, NEW h \in Requests, FindUser(h)
  PROVE  IInv'
<1> DEFINE r == request[h]
           edits == Edits(r.op, user, rows[r.id].via)
           plan == IF edits = <<>> THEN AfterUser(r.op) ELSE <<"getUser">>
           q == [r EXCEPT !.edits = edits, !.plan = plan]
<1>1. /\ r \in Request /\ Planned(r)
      /\ r.op \in {"password", "account", "status"}
      /\ "getUser" \in Steps(r.op)
  BY NextStep, UserStep DEF FindUser, Step
<1>2. edits \in Seq(Edit)
  BY EditsType
<1>3. "getUser" \in Step
  BY DEF Step
<1>4. Becomes(h, q)
  BY DEF FindUser
<1> HIDE DEF edits
<1>5. /\ plan \in Seq(Step) /\ plan \in Seq(Steps(r.op))
      /\ edits = <<>> => plan \in Seq(Step \ {"getUser", "saveUser"})
  BY <1>1, <1>3, OneStep, AfterUserSteps
<1> HIDE DEF plan
<1>6. r.user \in User /\ q = [r EXCEPT !.edits = edits, !.plan = plan, !.user = r.user]
  BY <1>1 DEF Request
<1> HIDE DEF q
<1>7. q \in Request /\ Planned(q)
  BY <1>1, <1>2, <1>5, <1>6, OtherEdits
<1>8. UNCHANGED <<customer, user, rows, changes, faults, history>>
  BY DEF FindUser
<1> QED  BY <1>4, <1>7, <1>8, RequestOnly
         DEF IInv, TypeOK, SpentStaysSpent, history

LEMMA GetUserStep ==
  ASSUME IInv, NEW h \in Requests, GetUser(h)
  PROVE  IInv'
<1> DEFINE r == request[h]
           plan == <<"saveUser">>
           q == [r EXCEPT !.user = user, !.plan = plan]
<1>1. /\ r \in Request /\ Planned(r) /\ r.edits # <<>>
      /\ "saveUser" \in Steps(r.op)
  BY NextStep, UserStep DEF GetUser, Step
<1>2. plan \in Seq(Step) /\ plan \in Seq(Steps(r.op))
  BY <1>1, OneStep DEF Step
<1>3. /\ r.edits \in Seq(Edit) /\ user \in User
      /\ q = [r EXCEPT !.edits = r.edits, !.plan = plan, !.user = user]
  BY <1>1 DEF Request, IInv, TypeOK
<1>4. Becomes(h, q)
  BY DEF GetUser
<1> HIDE DEF plan, q
<1>5. q \in Request /\ Planned(q)
  BY <1>1, <1>2, <1>3, OtherEdits
<1> QED  BY <1>4, <1>5, RequestOnly
         DEF GetUser, IInv, TypeOK, SpentStaysSpent, history

\* The user as it is saved.
LEMMA EditedType ==
  ASSUME NEW edit \in Edit, NEW u \in User, NEW c
  PROVE  Edited(edit, u, c) \in User
<1>1. CASE edit = "password"
  BY <1>1 DEF Edited, User
<1>2. CASE edit = "activate"
  BY <1>2 DEF Edited, User
<1>3. CASE edit = "email"
  BY <1>3 DEF Edited, User
<1>4. CASE edit = "phone"
  BY <1>4 DEF Edited, User
<1>5. CASE edit = "sync"
  BY <1>5 DEF Edited, User
<1> QED  BY <1>1, <1>2, <1>3, <1>4, <1>5 DEF Edit

LEMMA SaveUserStep ==
  ASSUME IInv, NEW h \in Requests, SaveUser(h)
  PROVE  IInv'
<1> DEFINE r == request[h]
           edit == Head(r.edits)
           left == Tail(r.edits)
           plan == IF left = <<>> THEN AfterUser(r.op) ELSE <<"getUser">>
           u == [r.user EXCEPT !.password = user.password]
           q == [r EXCEPT !.edits = left, !.plan = plan, !.user = NoUser]
           next == IF plan = <<>> THEN Idle ELSE q
<1>1. /\ r \in Request /\ Planned(r) /\ r.edits # <<>>
      /\ r.op \in {"password", "account", "status"}
      /\ "getUser" \in Steps(r.op)
  BY NextStep, UserStep DEF SaveUser, Step
<1>2. edit \in Edit /\ left \in Seq(Edit) /\ r.user \in User
  <2>1. r.edits \in Seq(Edit)
    BY <1>1 DEF Request
  <2> QED  BY <1>1, <2>1 DEF Request
<1>3. Becomes(h, next)
  BY DEF SaveUser
<1>4. user' \in User
  <2>1. u \in User
    BY <1>2 DEF IInv, TypeOK, User
  <2>2. user' = Edited(edit, u, r.entity)
    BY DEF SaveUser
  <2> HIDE DEF u, edit
  <2> QED  BY <1>2, <2>1, <2>2, EditedType
<1>5. passwords' \in [1 .. MaxRows -> Nat]
  <2> DEFINE i == LinkOf(r.id)
  <2>1. passwords \in [1 .. MaxRows -> Nat]
    BY DEF IInv, TypeOK
  <2>2. passwords' \in {passwords, [passwords EXCEPT ![i] = @ + 1]}
    BY DEF SaveUser
  <2> HIDE DEF i
  <2>3. CASE i \in 1 .. MaxRows
    BY <2>1, <2>2, <2>3
  <2>4. CASE i \notin 1 .. MaxRows
    BY <2>1, <2>2, <2>4
  <2> QED  BY <2>3, <2>4
<1>6. "getUser" \in Step
  BY DEF Step
<1> HIDE DEF left, edit, u
<1>7. /\ plan \in Seq(Step) /\ plan \in Seq(Steps(r.op))
      /\ left = <<>> => plan \in Seq(Step \ {"getUser", "saveUser"})
  BY <1>1, <1>6, OneStep, AfterUserSteps
<1>8. closed' \subseteq Customers
  <2>1. CASE plan = <<>>
    <3>1. r.op = "status"
      BY <1>1, <2>1 DEF AfterUser
    <3>2. r.customer \in Customers
      BY <1>1, <3>1 DEF Planned
    <3> QED  BY <2>1, <3>2 DEF SaveUser, plan, left, IInv, TypeOK
  <2>2. CASE plan # <<>>
    BY <2>2 DEF SaveUser, plan, left, IInv, TypeOK
  <2> QED  BY <2>1, <2>2
<1>9. NoUser \in User
  BY DEF NoUser, User
<1> HIDE DEF plan
<1>10. q \in Request /\ Planned(q)
  BY <1>1, <1>2, <1>7, <1>9, OtherEdits
<1> HIDE DEF q
<1>11. next \in Request /\ Planned(next)
  BY <1>10, IdlePlanned
<1> HIDE DEF next
<1> QED  BY <1>3, <1>4, <1>5, <1>8, <1>11, RequestOnly
         DEF SaveUser, IInv, TypeOK, SpentStaysSpent

-----------------------------------------------------------------------------
(* The customer's row                                                      *)

\* A customer with the address is looked for, and may be active already.
LEMMA FindCustomerStep ==
  ASSUME IInv, NEW h \in Requests, FindCustomer(h)
  PROVE  IInv'
<1> DEFINE r == request[h]
           short == <<"use", "useParent">>
           p == Tail(r.plan)
<1>1. /\ r \in Request /\ Planned(r) /\ r.plan # <<>>
      /\ r.op = "password"
  BY NextStep, RedeemingStep DEF FindCustomer, At, Step
<1>2. PICK c \in Customers :
        Becomes(h, IF customer[c].status = "active"
                   THEN [r EXCEPT !.plan = short]
                   ELSE [r EXCEPT !.plan = Tail(@), !.customer = c,
                                  !.entity = customer[c]])
  BY DEF FindCustomer
<1>3. UNCHANGED <<customer, user, rows, changes, faults, history>>
  BY DEF FindCustomer
<1>4. CASE customer[c].status = "active"
  <2> DEFINE q == [r EXCEPT !.plan = short]
  <2>1. Becomes(h, q)
    BY <1>2, <1>4
  <2>2. /\ short \in Seq(Step) /\ short \in Seq(Steps("password"))
        /\ short \in Seq(Step \ {"getUser", "saveUser"})
    BY DEF Step, Steps
  <2> HIDE DEF short
  <2>3. q \in Request /\ Planned(q)
    BY <1>1, <2>2, OtherPlan
  <2> HIDE DEF q
  <2> QED  BY <1>3, <2>1, <2>3, RequestOnly
           DEF IInv, TypeOK, SpentStaysSpent, history
<1>5. CASE customer[c].status # "active"
  <2> DEFINE q == [r EXCEPT !.plan = p, !.customer = c, !.entity = customer[c]]
  <2>1. Becomes(h, q)
    BY <1>2, <1>5
  <2>2. \A S : r.plan \in Seq(S) => p \in Seq(S)
    BY <1>1
  <2>3. customer[c] \in Customer
    BY DEF IInv, TypeOK
  <2>4. /\ p \in Seq(Step) /\ p \in Seq(Steps(r.op))
        /\ r.edits = <<>> => p \in Seq(Step \ {"getUser", "saveUser"})
    BY <1>1, <2>2 DEF Planned, Request
  <2> HIDE DEF p
  <2>5. q \in Request
    BY <1>1, <2>3, <2>4 DEF Request
  <2>6. /\ q.op = r.op /\ q.edits = r.edits /\ q.id = r.id /\ q.plan = p
        /\ q.customer = c /\ q.late = r.late
    BY <1>1 DEF Request
  <2> HIDE DEF q
  <2>7. Planned(q)
    BY <1>1, <2>4, <2>6 DEF Planned
  <2> QED  BY <1>3, <2>1, <2>5, <2>7, RequestOnly
           DEF IInv, TypeOK, SpentStaysSpent, history
<1> QED  BY <1>4, <1>5

LEMMA SaveLinkedStep ==
  ASSUME IInv, NEW h \in Requests, SaveLinked(h)
  PROVE  IInv'
<1> DEFINE r == request[h]
<1>1. r \in Request /\ Planned(r) /\ r.plan # <<>>
  BY NextStep DEF SaveLinked, At, Step
<1>2. Rest(r) \in Request /\ Planned(Rest(r))
  BY <1>1, RestPlanned
<1>3. customer' \in [Customers -> Customer]
  <2>1. r.entity \in Customer
    BY <1>1 DEF Request
  <2>2. [r.entity EXCEPT !.status = "active"] \in Customer
    BY <2>1 DEF Customer
  <2> QED  BY <2>2 DEF SaveLinked, IInv, TypeOK
<1>4. Becomes(h, Rest(r))
  BY DEF SaveLinked
<1>5. UNCHANGED <<user, rows, changes, faults, history>>
  BY DEF SaveLinked
<1> QED  BY <1>2, <1>3, <1>4, <1>5, RequestOnly
         DEF IInv, TypeOK, SpentStaysSpent, history

\* The steps of staff and of purchases.
LEMMA StaffStep ==
  ASSUME NEW op \in Operations, NEW step \in Steps(op)
  PROVE  /\ step = "saveStatus" => op = "status"
         /\ step = "saveTotals" => op = "purchase"
BY DEF Operations, Steps

LEMMA SaveStatusStep ==
  ASSUME IInv, NEW h \in Requests, SaveStatus(h)
  PROVE  IInv'
<1> DEFINE r == request[h]
           edits == <<"sync">>
           plan == <<"getUser">>
           q == [r EXCEPT !.edits = edits, !.plan = plan]
           next == IF user.status = "none" THEN Idle ELSE q
<1>1. r \in Request /\ Planned(r) /\ r.op = "status"
  BY NextStep, StaffStep DEF SaveStatus, Step
<1>2. r.entity \in Customer /\ r.user \in User
  BY <1>1 DEF Request
<1>3. customer' \in [Customers -> Customer]
  BY <1>2 DEF SaveStatus, IInv, TypeOK
<1>4. edits \in Seq(Edit) /\ edits # <<>>
  BY DEF Edit
<1>5. "getUser" \in Step /\ "getUser" \in Steps(r.op)
  BY <1>1 DEF Step, Steps
<1>6. plan \in Seq(Step) /\ plan \in Seq(Steps(r.op))
  BY <1>5, OneStep
<1>7. Becomes(h, next)
  BY DEF SaveStatus
<1>8. UNCHANGED <<user, rows, changes, faults, history>>
  BY DEF SaveStatus
<1> HIDE DEF edits, plan
<1>9. q = [r EXCEPT !.edits = edits, !.plan = plan, !.user = r.user]
  BY <1>1 DEF Request
<1> HIDE DEF q
<1>10. q \in Request /\ Planned(q)
  BY <1>1, <1>2, <1>4, <1>6, <1>9, OtherEdits
<1>11. next \in Request /\ Planned(next)
  BY <1>10, IdlePlanned
<1> HIDE DEF next
<1> QED  BY <1>3, <1>7, <1>8, <1>11, RequestOnly
         DEF IInv, TypeOK, SpentStaysSpent, history

LEMMA SaveTotalsStep ==
  ASSUME IInv, NEW h \in Requests, SaveTotals(h)
  PROVE  IInv'
<1> DEFINE r == request[h]
<1>1. r \in Request /\ Planned(r) /\ r.plan # <<>>
  BY NextStep DEF SaveTotals, At, Step
<1>2. Rest(r) \in Request /\ Planned(Rest(r))
  BY <1>1, RestPlanned
<1>3. customer' \in [Customers -> Customer]
  <2>1. r.entity \in Customer
    BY <1>1 DEF Request
  <2>2. [r.entity EXCEPT !.totals = @ + 1] \in Customer
    BY <2>1 DEF Customer
  <2> QED  BY <2>2 DEF SaveTotals, IInv, TypeOK
<1>4. bought' \in [Customers -> Nat]
  <2>1. r.op = "purchase"
    BY NextStep, StaffStep DEF SaveTotals, Step
  <2>2. r.customer \in Customers
    BY <1>1, <2>1 DEF Planned
  <2> QED  BY <2>2 DEF SaveTotals, IInv, TypeOK
<1>5. Becomes(h, Rest(r))
  BY DEF SaveTotals
<1>6. UNCHANGED <<user, rows, changes, faults, answered, again, setups,
                  passwords, closed>>
  BY DEF SaveTotals
<1> QED  BY <1>2, <1>3, <1>4, <1>5, <1>6, RequestOnly
         DEF IInv, TypeOK, SpentStaysSpent

-----------------------------------------------------------------------------
(* Time, the hourly job and failures                                       *)

\* No request moves, and challenges that are used stay so.
LEMMA RowsOnly ==
  ASSUME IInv, NEW t \in [DOMAIN rows -> Challenge],
         \A i \in DOMAIN rows :
           /\ t[i].kind = rows[i].kind /\ t[i].parent = rows[i].parent
           /\ t[i].isUsed = rows[i].isUsed,
         rows' = t,
         UNCHANGED <<customer, user, request, changes, faults, history>>
  PROVE  IInv'
<1>1. RowsWhole' /\ DOMAIN rows' = DOMAIN rows
  BY RowsRewritten
<1>2. PlansKept'
  <2>1. ASSUME NEW g \in Requests  PROVE Planned(request[g])'
    <3>1. Planned(request[g]) /\ request'[g] = request[g]
      BY DEF IInv, PlansKept
    <3> QED  BY <1>1, <3>1 DEF Planned, history
  <2> QED  BY <2>1 DEF PlansKept
<1>3. AnsweredIsUsed' /\ SpentStaysSpent'
  BY DEF IInv, TypeOK, AnsweredIsUsed, SpentStaysSpent, history
<1>4. TypeOK'
  BY <1>1 DEF RowsWhole, IInv, TypeOK, history
<1> QED  BY <1>1, <1>2, <1>3, <1>4 DEF RowsWhole, IInv

LEMMA ExpireStep ==
  ASSUME IInv, NEW i \in 1 .. MaxRows, Expire(i)
  PROVE  IInv'
<1> DEFINE t == [rows EXCEPT ![i].expired = TRUE]
<1>1. i \in DOMAIN rows /\ rows \in [DOMAIN rows -> Challenge]
  BY DEF Expire, IInv, TypeOK
<1>2. /\ t \in [DOMAIN rows -> Challenge]
      /\ \A j \in DOMAIN rows :
           /\ t[j].kind = rows[j].kind /\ t[j].parent = rows[j].parent
           /\ t[j].isUsed = rows[j].isUsed
  BY <1>1 DEF Challenge
<1>3. /\ rows' = t
      /\ UNCHANGED <<customer, user, request, changes, faults, history>>
  BY DEF Expire
<1> HIDE DEF t
<1> QED  BY <1>2, <1>3, RowsOnly

LEMMA CleanUpStep ==
  ASSUME IInv, CleanUp
  PROVE  IInv'
<1> DEFINE old(i) == rows[i].isUsed \/ rows[i].expired
           t == [i \in DOMAIN rows |->
                   IF old(i) THEN [rows[i] EXCEPT !.deleted = TRUE]
                             ELSE rows[i]]
<1>1. \A j \in DOMAIN rows : rows[j] \in Challenge
  BY DEF IInv, TypeOK
<1>2. /\ t \in [DOMAIN rows -> Challenge]
      /\ \A j \in DOMAIN rows :
           /\ t[j].kind = rows[j].kind /\ t[j].parent = rows[j].parent
           /\ t[j].isUsed = rows[j].isUsed
  BY <1>1 DEF Challenge
<1>3. /\ rows' = t
      /\ UNCHANGED <<customer, user, request, changes, faults, history>>
  BY DEF CleanUp
<1> HIDE DEF t
<1> QED  BY <1>2, <1>3, RowsOnly

LEMMA RaiseStep ==
  ASSUME IInv, NEW h \in Requests, Raise(h)
  PROVE  IInv'
<1>1. UNCHANGED <<customer, user, rows, changes, history>> /\ faults' \in Nat
  BY DEF Raise, IInv, TypeOK
<1>2. Becomes(h, Idle)
  BY DEF Raise
<1> QED  BY <1>1, <1>2, IdlePlanned, RequestOnly
         DEF IInv, TypeOK, SpentStaysSpent, history

-----------------------------------------------------------------------------
(* The theorems                                                            *)

LEMMA InitIInv == Init => IInv
<1> SUFFICES ASSUME Init  PROVE IInv
  OBVIOUS
<1>1. rows \in Seq(Challenge) /\ DOMAIN rows = {}
  BY DEF Init
<1>2. NoCustomer \in Customer /\ NoUser \in User
  BY DEF NoCustomer, Customer, NoUser, User
<1>3. TypeOK
  <2>1. request \in [Requests -> Request]
    BY IdlePlanned DEF Init
  <2>2. customer \in [Customers -> Customer] /\ user \in User
    BY <1>2 DEF Init
  <2>3. /\ bought \in [Customers -> Nat]
        /\ {setups, passwords} \subseteq [1 .. MaxRows -> Nat]
        /\ {changes, faults} \subseteq Nat
    <3>1. /\ bought = [c \in Customers |-> 0]
          /\ setups = [i \in 1 .. MaxRows |-> 0]
          /\ passwords = [i \in 1 .. MaxRows |-> 0]
          /\ changes = 0 /\ faults = 0
      BY DEF Init
    <3> QED  BY <3>1
  <2>4. answered = {} /\ closed = {} /\ again \in BOOLEAN
    BY DEF Init
  <2> QED  BY <1>1, <2>1, <2>2, <2>3, <2>4 DEF TypeOK
<1>4. PlansKept
  BY IdlePlanned DEF Init, PlansKept
<1> QED  BY <1>1, <1>3, <1>4
         DEF Init, IInv, RowsLinked, AnsweredIsUsed, SpentStaysSpent

LEMMA NextIInv == IInv /\ [Next]_vars => IInv'
<1> SUFFICES ASSUME IInv, [Next]_vars  PROVE IInv'
  OBVIOUS
<1>1. ASSUME NEW h \in Requests, NEW c \in Customers,
             \/ Register(h, c)
             \/ Purchase(h, c)
             \/ \E status \in {"active", "deactivated"} :
                  ChangeStatus(h, c, status)
      PROVE  IInv'
  BY <1>1, RegisterStep, PurchaseStep, ChangeStatusStep
<1>2. ASSUME NEW h \in Requests,
             \E op \in {"otp", "verify", "password", "account"},
                i \in DOMAIN rows, via \in Channels : Redeem(h, op, i, via)
      PROVE  IInv'
  BY <1>2, RedeemStep
<1>3. ASSUME NEW h \in Requests, Proceeds(h)
      PROVE  IInv'
  BY <1>3, SaveCustomerStep, PortalUserStep, SendLinkStep, FindStep,
     SaveOtpStep, FindOtpStep, UseStep, SaveSetupStep, FindUserStep,
     GetUserStep, SaveUserStep, FindCustomerStep, SaveLinkedStep,
     UseParentStep, SaveStatusStep, SaveTotalsStep DEF Proceeds
<1>4. ASSUME UNCHANGED vars
      PROVE  IInv'
  BY <1>4 DEF vars, history, IInv, TypeOK, PlansKept, Planned, RowsLinked,
     AnsweredIsUsed, SpentStaysSpent
<1>5. CASE Next
  BY <1>1, <1>2, <1>3, <1>5, RaiseStep, ExpireStep, CleanUpStep DEF Next
<1> QED  BY <1>4, <1>5

\* Whatever requests overlap, fail half-way or meet the hourly job, every
\* request goes by the steps of its operation, about challenges that exist
\* and belong to a link: the rows the service reads by id are there.
THEOREM ActivationTypeCorrect == Spec => []TypeOK
<1>1. IInv => TypeOK
  BY DEF IInv
<1> QED  BY <1>1, InitIInv, NextIInv, PTL DEF Spec

\* A token that was redeemed by an answered request is accepted by none that
\* begins later.  The argument: what was redeemed is used (AnsweredIsUsed),
\* no step takes that back, also the job's and those that insert a deleted
\* row again, and Find and FindOtp let only unused rows pass.
THEOREM SpentChallengesStaySpent == Spec => []SpentStaysSpent
<1>1. IInv => SpentStaysSpent
  BY DEF IInv
<1> QED  BY <1>1, InitIInv, NextIInv, PTL DEF Spec

-----------------------------------------------------------------------------
(* The order of the steps                                                  *)

\* The step a request takes next.
Now(r) == IF r.plan = <<>> THEN "none" ELSE Head(r.plan)

\* What an operation may have left to do.
Plans(op) ==
  CASE op = "register" ->
         {<<"saveCustomer", "portal", "link">>, <<"portal", "link">>, <<"link">>}
    [] op = "otp" -> {<<"find">>, <<"saveOtp">>}
    [] op = "verify" ->
         {<<"find">>, <<"findOtp", "use", "saveSetup">>,
          <<"use", "saveSetup">>, <<"saveSetup">>}
    [] op = "password" ->
         {<<"find">>, <<"findUser">>, <<"getUser">>, <<"saveUser">>,
          <<"findCustomer", "saveLinked", "use", "useParent">>,
          <<"saveLinked", "use", "useParent">>,
          <<"use", "useParent">>, <<"useParent">>}
    [] op = "account" ->
         {<<"find">>, <<"findUser">>, <<"getUser">>, <<"saveUser">>, <<"use">>}
    [] op = "status" -> {<<"saveStatus">>, <<"getUser">>, <<"saveUser">>}
    [] op = "purchase" -> {<<"saveTotals">>}

Ordered(r) == r = Idle \/ (r.op \in Operations /\ r.plan \in Plans(r.op))

AllOrdered == \A h \in Requests : Ordered(request[h])

\* The step that follows, where there is no choice.
After(op, step) ==
  CASE op = "register" /\ step = "saveCustomer" -> "portal"
    [] op = "register" /\ step = "portal" -> "link"
    [] op = "verify" /\ step = "findOtp" -> "use"
    [] op = "verify" /\ step = "use" -> "saveSetup"
    [] op = "password" /\ step = "findCustomer" -> "saveLinked"
    [] op = "password" /\ step = "saveLinked" -> "use"
    [] op = "password" /\ step = "use" -> "useParent"
    [] OTHER -> "none"

\* r goes on as q, about the same things.
Same(r, q) ==
  /\ q.op = r.op /\ q.id = r.id /\ q.via = r.via /\ q.customer = r.customer
  /\ q.entity = r.entity

\* The operations a step belongs to.
LEMMA OrderedSteps ==
  ASSUME NEW r \in Request, Ordered(r), r.plan # <<>>
  PROVE  /\ r.op \in Operations
         /\ r.op = "register" <=> Now(r) \in {"saveCustomer", "portal", "link"}
         /\ Now(r) = "find" => r.op \in Redeeming
         /\ r.op = "otp" => Now(r) \in {"find", "saveOtp"}
         /\ Now(r) = "saveOtp" => r.op = "otp"
         /\ r.op = "verify" => Now(r) \in {"find", "findOtp", "use", "saveSetup"}
         /\ Now(r) \in {"findOtp", "saveSetup"} => r.op = "verify"
         /\ Now(r) = "use" => r.op \in {"verify", "password", "account"}
         /\ Now(r) = "findUser" => r.op \in {"password", "account"}
         /\ Now(r) \in {"getUser", "saveUser"} =>
              r.op \in {"password", "account", "status"}
         /\ Now(r) \in {"findCustomer", "saveLinked", "useParent"} =>
              r.op = "password"
         /\ r.op = "password" =>
              Now(r) \in {"find", "findUser", "getUser", "saveUser",
                          "findCustomer", "saveLinked", "use", "useParent"}
         /\ r.op = "status" => Now(r) \in {"saveStatus", "getUser", "saveUser"}
         /\ Now(r) = "saveStatus" => r.op = "status"
         /\ r.op = "purchase" <=> Now(r) = "saveTotals"
<1>1. r.op \in Operations /\ r.plan \in Plans(r.op)
  BY DEF Ordered, Idle
<1>2. CASE r.op = "register"
  BY <1>1, <1>2 DEF Plans, Now, Redeeming
<1>3. CASE r.op = "otp"
  BY <1>1, <1>3 DEF Plans, Now, Redeeming
<1>4. CASE r.op = "verify"
  BY <1>1, <1>4 DEF Plans, Now, Redeeming
<1>5. CASE r.op = "password"
  BY <1>1, <1>5 DEF Plans, Now, Redeeming
<1>6. CASE r.op = "account"
  BY <1>1, <1>6 DEF Plans, Now, Redeeming
<1>7. CASE r.op = "status"
  BY <1>1, <1>7 DEF Plans, Now, Redeeming
<1>8. CASE r.op = "purchase"
  BY <1>1, <1>8 DEF Plans, Now, Redeeming
<1> QED
  BY <1>1, <1>2, <1>3, <1>4, <1>5, <1>6, <1>7, <1>8 DEF Operations

\* The first step and the others.
LEMMA Tails ==
  /\ \A a, b : /\ Head(<<a, b>>) = a /\ Tail(<<a, b>>) = <<b>>
              /\ Len(<<a, b>>) = 2 /\ <<a, b>> # <<>>
  /\ \A a, b, c : /\ Head(<<a, b, c>>) = a /\ Tail(<<a, b, c>>) = <<b, c>>
                 /\ Len(<<a, b, c>>) = 3 /\ <<a, b, c>> # <<>>
  /\ \A a, b, c, d :
       /\ Head(<<a, b, c, d>>) = a /\ Tail(<<a, b, c, d>>) = <<b, c, d>>
       /\ Len(<<a, b, c, d>>) = 4
  /\ \A a : Head(<<a>>) = a /\ Len(<<a>>) = 1 /\ <<a>> # <<>>
OBVIOUS

\* What is left of the steps is a plan of the same operation.
LEMMA RestOrdered ==
  ASSUME NEW r \in Request, Ordered(r), r.plan # <<>>
  PROVE  /\ Ordered(Rest(r))
         /\ After(r.op, Now(r)) = "none" => Rest(r) = Idle
         /\ After(r.op, Now(r)) # "none" =>
              /\ Same(r, Rest(r)) /\ Rest(r).edits = r.edits
              /\ Rest(r).plan # <<>>
              /\ Now(Rest(r)) = After(r.op, Now(r))
<1>1. r.op \in Operations /\ r.plan \in Plans(r.op)
  BY DEF Ordered, Idle
<1> DEFINE q == [r EXCEPT !.plan = Tail(@)]
<1>2. /\ q.op = r.op /\ q.plan = Tail(r.plan) /\ Same(r, q)
      /\ q.edits = r.edits
  BY DEF Request, Same
<1>3. Rest(r) = IF Len(r.plan) = 1 THEN Idle ELSE q
  BY DEF Rest
<1> HIDE DEF q
<1>4. CASE Len(r.plan) = 1
  <2>1. After(r.op, Now(r)) = "none"
    <3>1. CASE r.op = "register"
      BY <1>1, <1>4, <3>1 DEF Plans, Now, After
    <3>2. CASE r.op = "verify"
      BY <1>1, <1>4, <3>2 DEF Plans, Now, After
    <3>3. CASE r.op = "password"
      BY <1>1, <1>4, <3>3 DEF Plans, Now, After
    <3>4. CASE r.op \notin {"register", "verify", "password"}
      BY <3>4 DEF After
    <3> QED  BY <3>1, <3>2, <3>3, <3>4
  <2> QED  BY <1>3, <1>4, <2>1 DEF Ordered
<1>5. CASE Len(r.plan) # 1
  <2>1. /\ q.plan \in Plans(r.op) /\ q.plan # <<>>
        /\ After(r.op, Now(r)) = Head(q.plan)
        /\ After(r.op, Now(r)) # "none"
    <3> DEFINE step == Now(r)
    <3>0. step = Head(r.plan)
      BY DEF Now
    <3> HIDE DEF step
    <3>1. CASE r.op = "register"
      <4>1. r.plan \in {<<"saveCustomer", "portal", "link">>, <<"portal", "link">>}
        BY <1>1, <1>5, <3>1, Tails DEF Plans
      <4>2. \/ step = "saveCustomer" /\ q.plan = <<"portal", "link">>
            \/ step = "portal" /\ q.plan = <<"link">>
        <5>1. CASE r.plan = <<"saveCustomer", "portal", "link">>
          <6>1. Head(r.plan) = "saveCustomer" /\ Tail(r.plan) = <<"portal", "link">>
            BY <5>1
          <6> QED  BY <1>2, <3>0, <6>1
        <5>2. CASE r.plan = <<"portal", "link">>
          <6>1. Head(r.plan) = "portal" /\ Tail(r.plan) = <<"link">>
            BY <5>2
          <6> QED  BY <1>2, <3>0, <6>1
        <5> QED  BY <4>1, <5>1, <5>2
      <4>3. q.plan \in Plans("register") /\ q.plan # <<>>
        BY <4>2, Tails, Zenon DEF Plans
      <4>4. After(r.op, step) = Head(q.plan) /\ After(r.op, step) # "none"
        BY <3>1, <4>2, Tails DEF After
      <4> QED  BY <3>1, <4>3, <4>4 DEF step
    <3>2. CASE r.op = "verify"
      <4>1. r.plan \in {<<"findOtp", "use", "saveSetup">>, <<"use", "saveSetup">>}
        BY <1>1, <1>5, <3>2, Tails DEF Plans
      <4>2. \/ step = "findOtp" /\ q.plan = <<"use", "saveSetup">>
            \/ step = "use" /\ q.plan = <<"saveSetup">>
        <5>1. CASE r.plan = <<"findOtp", "use", "saveSetup">>
          <6>1. Head(r.plan) = "findOtp" /\ Tail(r.plan) = <<"use", "saveSetup">>
            BY <5>1
          <6> QED  BY <1>2, <3>0, <6>1
        <5>2. CASE r.plan = <<"use", "saveSetup">>
          <6>1. Head(r.plan) = "use" /\ Tail(r.plan) = <<"saveSetup">>
            BY <5>2
          <6> QED  BY <1>2, <3>0, <6>1
        <5> QED  BY <4>1, <5>1, <5>2
      <4>3. q.plan \in Plans("verify") /\ q.plan # <<>>
        BY <4>2, Tails, Zenon DEF Plans
      <4>4. After(r.op, step) = Head(q.plan) /\ After(r.op, step) # "none"
        BY <3>2, <4>2, Tails DEF After
      <4> QED  BY <3>2, <4>3, <4>4 DEF step
    <3>3. CASE r.op = "password"
      <4>1. r.plan \in {<<"findCustomer", "saveLinked", "use", "useParent">>,
                        <<"saveLinked", "use", "useParent">>,
                        <<"use", "useParent">>}
        BY <1>1, <1>5, <3>3, Tails DEF Plans
      <4>2. \/ /\ step = "findCustomer"
               /\ q.plan = <<"saveLinked", "use", "useParent">>
            \/ step = "saveLinked" /\ q.plan = <<"use", "useParent">>
            \/ step = "use" /\ q.plan = <<"useParent">>
        <5>1. CASE r.plan = <<"findCustomer", "saveLinked", "use", "useParent">>
          <6>1. Head(r.plan) = "findCustomer" /\ Tail(r.plan) = <<"saveLinked", "use", "useParent">>
            BY <5>1
          <6> QED  BY <1>2, <3>0, <6>1
        <5>2. CASE r.plan = <<"saveLinked", "use", "useParent">>
          <6>1. Head(r.plan) = "saveLinked" /\ Tail(r.plan) = <<"use", "useParent">>
            BY <5>2
          <6> QED  BY <1>2, <3>0, <6>1
        <5>3. CASE r.plan = <<"use", "useParent">>
          <6>1. Head(r.plan) = "use" /\ Tail(r.plan) = <<"useParent">>
            BY <5>3
          <6> QED  BY <1>2, <3>0, <6>1
        <5> QED  BY <4>1, <5>1, <5>2, <5>3
      <4>3. q.plan \in Plans("password") /\ q.plan # <<>>
        BY <4>2, Tails, Zenon DEF Plans
      <4>4. After(r.op, step) = Head(q.plan) /\ After(r.op, step) # "none"
        BY <3>3, <4>2, Tails DEF After
      <4> QED  BY <3>3, <4>3, <4>4 DEF step
    <3>4. CASE r.op \notin {"register", "verify", "password"}
      BY <1>1, <1>5, <3>4 DEF Plans, Operations
    <3> QED  BY <3>1, <3>2, <3>3, <3>4
  <2> QED  BY <1>1, <1>2, <1>3, <1>5, <2>1 DEF Ordered, Now
<1> QED  BY <1>4, <1>5

\* Which saves of the user are still to be made.
Yet(edits, edit) == \E i \in DOMAIN edits : edits[i] = edit

LEMMA YetConcat ==
  ASSUME NEW s \in Seq(Edit), NEW t \in Seq(Edit), NEW edit
  PROVE  Yet(s \o t, edit) <=> Yet(s, edit) \/ Yet(t, edit)
<1> DEFINE u == s \o t
<1>1. /\ DOMAIN s = 1 .. Len(s) /\ DOMAIN t = 1 .. Len(t)
      /\ DOMAIN u = 1 .. Len(s) + Len(t)
      /\ Len(s) \in Nat /\ Len(t) \in Nat
      /\ \A i \in 1 .. Len(s) + Len(t) :
           u[i] = IF i <= Len(s) THEN s[i] ELSE t[i - Len(s)]
  OBVIOUS
<1> HIDE DEF u
<1>2. ASSUME NEW i \in DOMAIN s, s[i] = edit  PROVE Yet(u, edit)
  <2>1. i \in DOMAIN u /\ u[i] = edit
    BY <1>1, <1>2
  <2> QED  BY <2>1 DEF Yet
<1>3. ASSUME NEW i \in DOMAIN t, t[i] = edit  PROVE Yet(u, edit)
  <2>1. /\ Len(s) + i \in DOMAIN u /\ u[Len(s) + i] = t[i]
    BY <1>1
  <2> QED  BY <1>3, <2>1 DEF Yet
<1>4. ASSUME NEW i \in DOMAIN u, u[i] = edit
      PROVE  Yet(s, edit) \/ Yet(t, edit)
  <2>1. CASE i <= Len(s)
    BY <1>1, <1>4, <2>1 DEF Yet
  <2>2. CASE ~(i <= Len(s))
    <3>1. i - Len(s) \in DOMAIN t /\ t[i - Len(s)] = edit
      BY <1>1, <1>4, <2>2
    <3> QED  BY <3>1 DEF Yet
  <2> QED  BY <2>1, <2>2
<1>5. Yet(u, edit) <=> Yet(s, edit) \/ Yet(t, edit)
  BY <1>2, <1>3, <1>4 DEF Yet
<1> QED  BY <1>5 DEF u

LEMMA YetTail ==
  ASSUME NEW s \in Seq(Edit), s # <<>>, NEW edit
  PROVE  Yet(s, edit) <=> Head(s) = edit \/ Yet(Tail(s), edit)
<1>1. /\ DOMAIN s = 1 .. Len(s) /\ Len(s) \in Nat /\ Len(s) >= 1
      /\ DOMAIN Tail(s) = 1 .. Len(s) - 1
      /\ Head(s) = s[1]
      /\ \A i \in 1 .. Len(s) - 1 : Tail(s)[i] = s[i + 1]
  OBVIOUS
<1> DEFINE t == Tail(s)
<1>2. ASSUME NEW i \in DOMAIN s, s[i] = edit
      PROVE  Head(s) = edit \/ Yet(t, edit)
  <2>1. CASE i = 1
    BY <1>1, <1>2, <2>1
  <2>2. CASE i # 1
    <3>1. i - 1 \in DOMAIN t /\ t[i - 1] = edit
      BY <1>1, <1>2, <2>2
    <3> QED  BY <3>1 DEF Yet
  <2> QED  BY <2>1, <2>2
<1>3. ASSUME NEW i \in DOMAIN t, t[i] = edit
      PROVE  Yet(s, edit)
  <2>1. i + 1 \in DOMAIN s /\ s[i + 1] = edit
    BY <1>1, <1>3
  <2> QED  BY <2>1 DEF Yet
<1>4. Head(s) = edit => Yet(s, edit)
  <2>1. 1 \in DOMAIN s
    BY <1>1
  <2> QED  BY <1>1, <2>1 DEF Yet
<1> QED  BY <1>2, <1>3, <1>4 DEF Yet

LEMMA YetOne ==
  ASSUME NEW a, NEW edit
  PROVE  (Yet(<<a>>, edit) <=> a = edit) /\ ~Yet(<<>>, edit)
BY DEF Yet

\* createPassword sets the password, activates a user who is not active, and
\* synchronises with no customer.
LEMMA EditsMade ==
  ASSUME NEW op, NEW u, NEW via
  PROVE  /\ op = "password" => Edits(op, u, via) # <<>>
         /\ u.status # "active" => Yet(Edits(op, u, via), "activate")
         /\ ~Yet(Edits(op, u, via), "sync")
<1> DEFINE a == IF op = "password" THEN <<"password">> ELSE <<>>
           b == IF u.status # "active" THEN <<"activate">> ELSE <<>>
           c == IF ~u.email /\ (via # "sms" \/ op = "account")
                THEN <<"email">> ELSE <<>>
           d == IF ~u.phone /\ via = "sms" /\ op = "password"
                THEN <<"phone">> ELSE <<>>
<1>1. \A edit \in Edit, p \in BOOLEAN :
        (IF p THEN <<edit>> ELSE <<>>) \in Seq(Edit)
  OBVIOUS
<1>2. "password" \in Edit /\ "activate" \in Edit /\ "email" \in Edit
      /\ "phone" \in Edit
  BY DEF Edit
<1>3. a \in Seq(Edit) /\ b \in Seq(Edit) /\ c \in Seq(Edit) /\ d \in Seq(Edit)
  BY <1>1, <1>2
<1>4. /\ op = "password" => Yet(a, "password")
      /\ u.status # "active" => Yet(b, "activate")
      /\ ~Yet(a, "sync") /\ ~Yet(b, "sync") /\ ~Yet(c, "sync")
      /\ ~Yet(d, "sync")
  BY YetOne
<1>5. Edits(op, u, via) = a \o b \o c \o d
  BY DEF Edits
<1> HIDE DEF a, b, c, d
<1>6. \A edit : Yet(a \o b \o c \o d, edit) <=>
                  Yet(a, edit) \/ Yet(b, edit) \/ Yet(c, edit) \/ Yet(d, edit)
  <2> TAKE edit
  <2>1. a \o b \in Seq(Edit) /\ (a \o b) \o c \in Seq(Edit)
    BY <1>3
  <2>2. Yet(a \o b, edit) <=> Yet(a, edit) \/ Yet(b, edit)
    BY <1>3, YetConcat
  <2>3. Yet((a \o b) \o c, edit) <=> Yet(a \o b, edit) \/ Yet(c, edit)
    BY <1>3, <2>1, YetConcat
  <2>4. Yet(((a \o b) \o c) \o d, edit) <=>
          Yet((a \o b) \o c, edit) \/ Yet(d, edit)
    BY <1>3, <2>1, YetConcat
  <2> QED  BY <2>2, <2>3, <2>4
<1>7. Yet(Edits(op, u, via), "password") => Edits(op, u, via) # <<>>
  BY YetOne
<1> QED  BY <1>4, <1>5, <1>6, <1>7

-----------------------------------------------------------------------------
(* What steps make of their requests                                       *)

\* A step that the rest of the plan follows.
LEMMA GoesOn ==
  ASSUME IInv, AllOrdered, NEW h \in Requests, NEW step, step # "none",
         At(h, step), Becomes(h, Rest(request[h]))
  PROVE  \E q \in Request :
           /\ Becomes(h, q) /\ Ordered(q)
           /\ Now(request[h]) = step
           /\ IF After(request[h].op, step) = "none" THEN q = Idle
              ELSE /\ Same(request[h], q) /\ q.edits = request[h].edits
                   /\ Now(q) = After(request[h].op, step)
<1> DEFINE r == request[h]
<1>1. r \in Request /\ Planned(r) /\ Ordered(r) /\ r.plan # <<>> /\ Now(r) = step
  BY DEF IInv, TypeOK, PlansKept, AllOrdered, At, Now
<1>2. Rest(r) \in Request
  BY <1>1, RestPlanned
<1> QED  BY <1>1, <1>2, RestOrdered

LEMMA FindMoves ==
  ASSUME IInv, AllOrdered, NEW h \in Requests, Find(h)
  PROVE  \E q \in Request :
           LET i == IF request[h].op = "verify" THEN LinkOf(request[h].id)
                                                ELSE request[h].id IN
           /\ Becomes(h, q) /\ Ordered(q) /\ Now(request[h]) = "find"
           /\ request[h].op \in Redeeming
           /\ IF Open(i)
              THEN /\ Same(request[h], q)
                   /\ q.op = "otp" => Now(q) = "saveOtp"
                   /\ q.op = "verify" => Now(q) = "findOtp"
                   /\ q.op \in {"password", "account"} => Now(q) = "findUser"
              ELSE q = Idle
<1> DEFINE r == request[h]
           i == IF r.op = "verify" THEN LinkOf(r.id) ELSE r.id
           q == [r EXCEPT !.plan = Accepted(r.op)]
<1>1. /\ r \in Request /\ Planned(r) /\ Ordered(r) /\ r.plan # <<>>
      /\ Now(r) = "find"
  BY DEF IInv, TypeOK, PlansKept, AllOrdered, Find, At, Now
<1>2. r.op \in Redeeming /\ r.op \in Operations
  BY <1>1, OrderedSteps
<1>3. CASE Open(i)
  <2>1. Becomes(h, q)
    BY <1>3 DEF Find
  <2>2. q \in Request
    BY <1>1, <1>2, AcceptedSteps DEF Request
  <2>3. q.plan = Accepted(r.op) /\ Same(r, q)
    BY <1>1 DEF Request, Same
  <2> HIDE DEF q
  <2>4. /\ q.plan \in Plans(r.op)
        /\ q.op = "otp" => Now(q) = "saveOtp"
        /\ q.op = "verify" => Now(q) = "findOtp"
        /\ q.op \in {"password", "account"} => Now(q) = "findUser"
    <3>1. CASE r.op = "otp"
      BY <2>3, <3>1 DEF Accepted, Plans, Now, Same
    <3>2. CASE r.op = "verify"
      BY <2>3, <3>2 DEF Accepted, Plans, Now, Same
    <3>3. CASE r.op = "password"
      BY <2>3, <3>3 DEF Accepted, Plans, Now, Same
    <3>4. CASE r.op = "account"
      BY <2>3, <3>4 DEF Accepted, Plans, Now, Same
    <3> QED  BY <1>2, <3>1, <3>2, <3>3, <3>4 DEF Redeeming
  <2>5. Ordered(q)
    BY <1>2, <2>3, <2>4 DEF Ordered, Same
  <2> QED  BY <1>1, <1>2, <1>3, <2>1, <2>2, <2>3, <2>4, <2>5
<1>4. CASE ~Open(i)
  <2>1. Becomes(h, Idle)
    BY <1>4 DEF Find
  <2> QED  BY <1>1, <1>2, <1>4, <2>1, IdlePlanned DEF Ordered
<1> QED  BY <1>3, <1>4

LEMMA FindOtpMoves ==
  ASSUME IInv, AllOrdered, NEW h \in Requests, FindOtp(h)
  PROVE  \E q \in Request :
           /\ Becomes(h, q) /\ Ordered(q) /\ Now(request[h]) = "findOtp"
           /\ request[h].op = "verify"
           /\ IF Open(request[h].id)
              THEN Same(request[h], q) /\ Now(q) = "use"
              ELSE q = Idle
<1> DEFINE r == request[h]
<1>1. /\ r \in Request /\ Planned(r) /\ Ordered(r) /\ r.plan # <<>>
      /\ Now(r) = "findOtp"
  BY DEF IInv, TypeOK, PlansKept, AllOrdered, FindOtp, At, Now
<1>2. r.op = "verify"
  BY <1>1, OrderedSteps
<1>3. CASE Open(r.id)
  <2>1. Becomes(h, Rest(r)) /\ At(h, "findOtp")
    BY <1>3 DEF FindOtp
  <2>2. PICK q \in Request :
          /\ Becomes(h, q) /\ Ordered(q)
          /\ IF After(r.op, "findOtp") = "none" THEN q = Idle
             ELSE Same(r, q) /\ Now(q) = After(r.op, "findOtp")
    BY <2>1, GoesOn
  <2>3. After(r.op, "findOtp") = "use"
    BY <1>2 DEF After
  <2> QED  BY <1>1, <1>2, <1>3, <2>2, <2>3
<1>4. CASE ~Open(r.id)
  <2>1. Becomes(h, Idle)
    BY <1>4 DEF FindOtp
  <2> QED  BY <1>1, <1>2, <1>4, <2>1, IdlePlanned DEF Ordered
<1> QED  BY <1>3, <1>4

\* A plan that begins anew.
LEMMA Replans ==
  ASSUME NEW r \in Request, NEW q \in Request, Same(r, q),
         r.op \in Operations, q.plan \in Plans(r.op)
  PROVE  Ordered(q)
BY DEF Same, Ordered

LEMMA FindUserMoves ==
  ASSUME IInv, AllOrdered, NEW h \in Requests, FindUser(h)
  PROVE  \E q \in Request :
           /\ Becomes(h, q) /\ Ordered(q) /\ Now(request[h]) = "findUser"
           /\ request[h].op \in {"password", "account"}
           /\ Same(request[h], q)
           /\ q.edits = Edits(request[h].op, user, rows[request[h].id].via)
           /\ IF q.edits = <<>> THEN q.op = "account" /\ Now(q) = "use"
                                ELSE Now(q) = "getUser"
<1> DEFINE r == request[h]
           via == rows[r.id].via
           edits == Edits(r.op, user, via)
           plan == IF edits = <<>> THEN AfterUser(r.op) ELSE <<"getUser">>
           q == [r EXCEPT !.edits = edits, !.plan = plan]
<1>1. /\ r \in Request /\ Planned(r) /\ Ordered(r) /\ r.plan # <<>>
      /\ Now(r) = "findUser"
  BY DEF IInv, TypeOK, PlansKept, AllOrdered, FindUser, At, Now
<1>2. r.op \in {"password", "account"} /\ r.op \in Operations
  BY <1>1, OrderedSteps
<1>3. Becomes(h, q)
  BY DEF FindUser
<1>4. edits \in Seq(Edit)
  BY EditsType
<1>5. r.op = "password" => edits # <<>>
  BY EditsMade
<1>6. plan \in Seq(Step)
  BY <1>2, OneStep, AfterUserSteps DEF Step
<1>7. /\ edits = <<>> => r.op = "account" /\ plan = <<"use">>
      /\ edits # <<>> => plan = <<"getUser">>
  BY <1>2, <1>5 DEF AfterUser
<1> HIDE DEF edits, plan
<1>8. q \in Request /\ Same(r, q) /\ q.edits = edits /\ q.plan = plan
  BY <1>1, <1>4, <1>6 DEF Request, Same
<1> HIDE DEF q
<1>9. /\ plan \in Plans(r.op)
      /\ IF q.edits = <<>> THEN q.op = "account" /\ Now(q) = "use"
                           ELSE Now(q) = "getUser"
  <2>1. CASE edits = <<>>
    BY <1>7, <1>8, <2>1, Tails DEF Plans, Now, Same
  <2>2. CASE edits # <<>>
    <3>1. <<"getUser">> \in Plans(r.op)
      BY <1>2 DEF Plans
    <3> QED  BY <1>7, <1>8, <2>2, <3>1, Tails DEF Now
  <2> QED  BY <2>1, <2>2
<1> QED  BY <1>1, <1>2, <1>3, <1>8, <1>9, Replans DEF edits

LEMMA GetUserMoves ==
  ASSUME IInv, AllOrdered, NEW h \in Requests, GetUser(h)
  PROVE  \E q \in Request :
           /\ Becomes(h, q) /\ Ordered(q) /\ Now(request[h]) = "getUser"
           /\ request[h].op \in {"password", "account", "status"}
           /\ Same(request[h], q) /\ q.edits = request[h].edits
           /\ q.user = user /\ Now(q) = "saveUser"
<1> DEFINE r == request[h]
           q == [r EXCEPT !.user = user, !.plan = <<"saveUser">>]
<1>1. /\ r \in Request /\ Planned(r) /\ Ordered(r) /\ r.plan # <<>>
      /\ Now(r) = "getUser" /\ user \in User
  BY DEF IInv, TypeOK, PlansKept, AllOrdered, GetUser, At, Now
<1>2. r.op \in {"password", "account", "status"} /\ r.op \in Operations
  BY <1>1, OrderedSteps
<1>3. Becomes(h, q)
  BY DEF GetUser
<1>4. <<"saveUser">> \in Seq(Step)
  BY DEF Step
<1>5. /\ q \in Request /\ Same(r, q) /\ q.edits = r.edits
      /\ q.plan = <<"saveUser">> /\ q.user = user
  BY <1>1, <1>4 DEF Request, Same
<1> HIDE DEF q
<1>6. <<"saveUser">> \in Plans(r.op)
  BY <1>2 DEF Plans
<1>7. Now(q) = "saveUser"
  BY <1>5, Tails DEF Now
<1> QED  BY <1>1, <1>2, <1>3, <1>5, <1>6, <1>7, Replans

\* The saves of the user are made one by one.
LEMMA SaveUserMoves ==
  ASSUME IInv, AllOrdered, NEW h \in Requests, SaveUser(h)
  PROVE  \E q \in Request :
           /\ Becomes(h, q) /\ Ordered(q) /\ Now(request[h]) = "saveUser"
           /\ request[h].op \in {"password", "account", "status"}
           /\ request[h].edits # <<>>
           /\ IF Tail(request[h].edits) = <<>> /\ request[h].op = "status"
              THEN q = Idle
              ELSE /\ Same(request[h], q) /\ q.edits = Tail(request[h].edits)
                   /\ Now(q) = IF q.edits # <<>> THEN "getUser"
                               ELSE IF q.op = "password" THEN "findCustomer"
                               ELSE "use"
<1> DEFINE r == request[h]
           left == Tail(r.edits)
           plan == IF left = <<>> THEN AfterUser(r.op) ELSE <<"getUser">>
           q == [r EXCEPT !.edits = left, !.plan = plan, !.user = NoUser]
<1>1. /\ r \in Request /\ Planned(r) /\ Ordered(r) /\ r.plan # <<>>
      /\ Now(r) = "saveUser"
  BY DEF IInv, TypeOK, PlansKept, AllOrdered, SaveUser, At, Now
<1>2. r.op \in {"password", "account", "status"} /\ r.op \in Operations
  BY <1>1, OrderedSteps
<1>3. r.edits # <<>>
  BY NextStep DEF SaveUser, Step
<1>4. Becomes(h, IF plan = <<>> THEN Idle ELSE q)
  BY DEF SaveUser
<1>5. left \in Seq(Edit) /\ NoUser \in User
  <2>1. r.edits \in Seq(Edit)
    BY <1>1 DEF Request
  <2> QED  BY <1>3, <2>1 DEF NoUser, User
<1>6. plan \in Seq(Step)
  BY <1>2, OneStep, AfterUserSteps DEF Step
<1>7. /\ left = <<>> /\ r.op = "status" <=> plan = <<>>
      /\ left = <<>> /\ r.op = "password" =>
           plan = <<"findCustomer", "saveLinked", "use", "useParent">>
      /\ left = <<>> /\ r.op = "account" => plan = <<"use">>
      /\ left # <<>> => plan = <<"getUser">>
  <2>1. CASE left = <<>> /\ r.op = "status"
    BY <2>1 DEF AfterUser
  <2>2. CASE left = <<>> /\ r.op = "password"
    BY <2>2, Tails DEF AfterUser
  <2>3. CASE left = <<>> /\ r.op = "account"
    BY <2>3, Tails DEF AfterUser
  <2>4. CASE left # <<>>
    BY <2>4, Tails
  <2> QED  BY <1>2, <2>1, <2>2, <2>3, <2>4
<1> HIDE DEF left, plan
<1>8. q \in Request /\ Same(r, q) /\ q.edits = left /\ q.plan = plan
  BY <1>1, <1>5, <1>6 DEF Request, Same
<1> HIDE DEF q
<1>9. CASE plan = <<>>
  <2>1. Becomes(h, Idle) /\ left = <<>> /\ r.op = "status"
    BY <1>4, <1>7, <1>9
  <2> QED  BY <1>1, <1>2, <1>3, <2>1, IdlePlanned DEF left, Ordered
<1>10. CASE plan # <<>>
  <2>1. Becomes(h, q) /\ ~(left = <<>> /\ r.op = "status")
    BY <1>4, <1>7, <1>10
  <2>2. /\ plan \in Plans(r.op)
        /\ Head(plan) = IF left # <<>> THEN "getUser"
                        ELSE IF r.op = "password" THEN "findCustomer"
                        ELSE "use"
    <3>1. CASE left # <<>>
      <4>1. <<"getUser">> \in Plans(r.op)
        BY <1>2 DEF Plans
      <4> QED  BY <1>7, <3>1, <4>1, Tails
    <3>2. CASE left = <<>> /\ r.op = "password"
      BY <1>7, <3>2, Tails DEF Plans
    <3>3. CASE left = <<>> /\ r.op = "account"
      BY <1>7, <3>3, Tails DEF Plans
    <3> QED  BY <1>2, <2>1, <3>1, <3>2, <3>3
  <2>3. Ordered(q) /\ Now(q) = Head(plan) /\ q.op = r.op
    BY <1>2, <1>8, <1>10, <2>2, Replans DEF Now, Same
  <2> QED  BY <1>1, <1>2, <1>3, <1>8, <2>1, <2>2, <2>3 DEF left
<1> QED  BY <1>9, <1>10

LEMMA FindCustomerMoves ==
  ASSUME IInv, AllOrdered, NEW h \in Requests, FindCustomer(h)
  PROVE  \E q \in Request, c \in Customers :
           /\ Becomes(h, q) /\ Ordered(q) /\ Now(request[h]) = "findCustomer"
           /\ request[h].op = "password" /\ customer[c].status # "none"
           /\ q.op = request[h].op /\ q.id = request[h].id
           /\ IF customer[c].status = "active"
              THEN Same(request[h], q) /\ Now(q) = "use"
              ELSE /\ Now(q) = "saveLinked"
                   /\ q.customer = c /\ q.entity = customer[c]
<1> DEFINE r == request[h]
<1>1. /\ r \in Request /\ Planned(r) /\ Ordered(r) /\ r.plan # <<>>
      /\ Now(r) = "findCustomer"
  BY DEF IInv, TypeOK, PlansKept, AllOrdered, FindCustomer, At, Now
<1>2. r.op = "password"
  BY <1>1, OrderedSteps
<1>3. PICK c \in Customers :
        /\ customer[c].status # "none"
        /\ Becomes(h,
             IF customer[c].status = "active"
             THEN [r EXCEPT !.plan = <<"use", "useParent">>]
             ELSE [r EXCEPT !.plan = Tail(@), !.customer = c,
                            !.entity = customer[c]])
  BY DEF FindCustomer
<1>4. CASE customer[c].status = "active"
  <2> DEFINE plan == <<"use", "useParent">>
             q == [r EXCEPT !.plan = plan]
  <2>1. Becomes(h, q)
    BY <1>3, <1>4
  <2>2. plan \in Seq(Step) /\ plan \in Plans("password") /\ Head(plan) = "use"
        /\ plan # <<>>
    BY Tails DEF Plans, Step
  <2> HIDE DEF plan
  <2>3. q \in Request /\ Same(r, q) /\ q.plan = plan
    BY <1>1, <2>2 DEF Request, Same
  <2> HIDE DEF q
  <2>4. Ordered(q) /\ Now(q) = "use"
    BY <1>2, <2>2, <2>3 DEF Ordered, Operations, Now, Same
  <2> QED  BY <1>1, <1>2, <1>3, <1>4, <2>1, <2>3, <2>4 DEF Same
<1>5. CASE customer[c].status # "active"
  <2> DEFINE plan == Tail(r.plan)
             q == [r EXCEPT !.plan = plan, !.customer = c,
                            !.entity = customer[c]]
  <2>1. Becomes(h, q)
    BY <1>3, <1>5
  <2>2. r.plan = <<"findCustomer", "saveLinked", "use", "useParent">>
    <3>1. r.plan \in Plans("password")
      BY <1>1, <1>2 DEF Ordered, Idle
    <3>2. Head(r.plan) = "findCustomer"
      BY <1>1 DEF Now
    <3> QED  BY <3>1, <3>2 DEF Plans
  <2>3. plan = <<"saveLinked", "use", "useParent">>
    BY <2>2
  <2> HIDE DEF plan
  <2>4. plan \in Seq(Step) /\ plan \in Plans("password")
        /\ Head(plan) = "saveLinked" /\ plan # <<>>
    BY <2>3, Tails DEF Plans, Step
  <2>5. customer[c] \in Customer
    BY DEF IInv, TypeOK
  <2>6. /\ q \in Request /\ q.plan = plan /\ q.op = r.op /\ q.id = r.id
        /\ q.customer = c /\ q.entity = customer[c]
    BY <1>1, <2>4, <2>5 DEF Request
  <2> HIDE DEF q
  <2>7. Ordered(q) /\ Now(q) = "saveLinked"
    BY <1>2, <2>4, <2>6 DEF Ordered, Operations, Now
  <2> QED  BY <1>1, <1>2, <1>3, <1>5, <2>1, <2>6, <2>7
<1> QED  BY <1>4, <1>5

LEMMA SaveStatusMoves ==
  ASSUME IInv, AllOrdered, NEW h \in Requests, SaveStatus(h)
  PROVE  \E q \in Request :
           /\ Becomes(h, q) /\ Ordered(q) /\ Now(request[h]) = "saveStatus"
           /\ request[h].op = "status"
           /\ IF user.status = "none" THEN q = Idle
              ELSE /\ Same(request[h], q) /\ q.edits = <<"sync">>
                   /\ Now(q) = "getUser"
<1> DEFINE r == request[h]
           edits == <<"sync">>
           plan == <<"getUser">>
           q == [r EXCEPT !.edits = edits, !.plan = plan]
<1>1. /\ r \in Request /\ Planned(r) /\ Ordered(r) /\ r.plan # <<>>
      /\ Now(r) = "saveStatus"
  BY DEF IInv, TypeOK, PlansKept, AllOrdered, SaveStatus, At, Now
<1>2. r.op = "status"
  BY <1>1, OrderedSteps
<1>3. Becomes(h, IF user.status = "none" THEN Idle ELSE q)
  BY DEF SaveStatus
<1>4. CASE user.status = "none"
  <2>1. Becomes(h, Idle)
    BY <1>3, <1>4
  <2> QED  BY <1>1, <1>2, <1>4, <2>1, IdlePlanned DEF Ordered
<1>5. CASE user.status # "none"
  <2>1. Becomes(h, q)
    BY <1>3, <1>5
  <2>2. /\ edits \in Seq(Edit) /\ plan \in Seq(Step) /\ plan \in Plans("status")
        /\ Head(plan) = "getUser" /\ plan # <<>>
    BY Tails DEF Edit, Step, Plans
  <2> HIDE DEF edits, plan
  <2>3. q \in Request /\ Same(r, q) /\ q.edits = edits /\ q.plan = plan
    BY <1>1, <2>2 DEF Request, Same
  <2> HIDE DEF q
  <2>4. Ordered(q) /\ Now(q) = "getUser"
    BY <1>2, <2>2, <2>3 DEF Ordered, Operations, Now, Same
  <2> QED  BY <1>1, <1>2, <1>5, <2>1, <2>3, <2>4 DEF edits
<1> QED  BY <1>4, <1>5

LEMMA IdleRests ==
  /\ Idle \in Request /\ Ordered(Idle) /\ Now(Idle) = "none"
  /\ Idle.op = "none" /\ Idle.customer = None /\ Idle.plan = <<>>
BY IdlePlanned DEF Ordered, Now, Idle

LEMMA RegisterMoves ==
  ASSUME NEW h \in Requests, NEW c \in Customers, Register(h, c)
  PROVE  \E q \in Request :
           /\ Becomes(h, q) /\ Ordered(q) /\ request[h] = Idle
           /\ q.op = "register" /\ q.customer = c /\ Now(q) = "saveCustomer"
<1> DEFINE plan == <<"saveCustomer", "portal", "link">>
           q == [Idle EXCEPT !.op = "register", !.customer = c, !.plan = plan]
<1>1. Becomes(h, q) /\ request[h] = Idle
  BY DEF Register, Admitted
<1>2. /\ plan \in Seq(Step) /\ plan \in Plans("register")
      /\ Head(plan) = "saveCustomer" /\ plan # <<>>
  BY Tails DEF Step, Plans
<1> HIDE DEF plan
<1>3. /\ q \in Request /\ q.op = "register" /\ q.customer = c /\ q.plan = plan
  BY <1>2, IdlePlanned DEF Request, Operations
<1> HIDE DEF q
<1> QED  BY <1>1, <1>2, <1>3 DEF Ordered, Now, Operations

LEMMA RedeemMoves ==
  ASSUME IInv, NEW h \in Requests, NEW op \in Redeeming,
         NEW i \in DOMAIN rows, NEW via \in Channels, Redeem(h, op, i, via)
  PROVE  \E q \in Request :
           /\ Becomes(h, q) /\ Ordered(q) /\ request[h] = Idle
           /\ q.op = op /\ q.id = i /\ q.customer = None /\ Now(q) = "find"
<1> DEFINE plan == <<"find">>
           late == i \in answered
           q == [Idle EXCEPT !.op = op, !.id = i, !.via = via,
                             !.late = late, !.plan = plan]
<1>1. Becomes(h, q) /\ request[h] = Idle
  BY DEF Redeem, Admitted
<1>2. /\ plan \in Seq(Step) /\ Head(plan) = "find" /\ plan # <<>>
  BY Tails DEF Step
<1>3. plan \in Plans(op)
  BY DEF Plans, Redeeming
<1>4. i \in Nat /\ late \in BOOLEAN /\ op \in Operations
  BY DEF IInv, TypeOK, Redeeming, Operations
<1> HIDE DEF plan, late
<1>5. /\ q \in Request /\ q.op = op /\ q.id = i /\ q.plan = plan
      /\ q.customer = None
  BY <1>2, <1>4, IdlePlanned, IdleRests DEF Request
<1> HIDE DEF q
<1> QED  BY <1>1, <1>2, <1>3, <1>4, <1>5 DEF Ordered, Now

LEMMA ChangeStatusMoves ==
  ASSUME IInv, NEW h \in Requests, NEW c \in Customers,
         NEW status \in {"active", "deactivated"}, ChangeStatus(h, c, status)
  PROVE  \E q \in Request :
           /\ Becomes(h, q) /\ Ordered(q) /\ request[h] = Idle
           /\ q.op = "status" /\ q.customer = c /\ Now(q) = "saveStatus"
           /\ q.entity.status = status
           /\ q.entity.totals = customer[c].totals
<1> DEFINE plan == <<"saveStatus">>
           entity == [customer[c] EXCEPT !.status = status]
           q == [Idle EXCEPT !.op = "status", !.customer = c,
                             !.entity = entity, !.plan = plan]
<1>1. Becomes(h, q) /\ request[h] = Idle
  BY DEF ChangeStatus, Admitted
<1>2. /\ plan \in Seq(Step) /\ plan \in Plans("status")
      /\ Head(plan) = "saveStatus" /\ plan # <<>>
  BY Tails DEF Step, Plans
<1>3. /\ entity \in Customer /\ entity.status = status
      /\ entity.totals = customer[c].totals
  BY DEF IInv, TypeOK, Customer
<1> HIDE DEF plan, entity
<1>4. /\ q \in Request /\ q.op = "status" /\ q.customer = c /\ q.plan = plan
      /\ q.entity = entity
  BY <1>2, <1>3, IdlePlanned DEF Request, Operations
<1> HIDE DEF q
<1> QED  BY <1>1, <1>2, <1>3, <1>4 DEF Ordered, Now, Operations

LEMMA PurchaseMoves ==
  ASSUME IInv, NEW h \in Requests, NEW c \in Customers, Purchase(h, c)
  PROVE  \E q \in Request :
           /\ Becomes(h, q) /\ Ordered(q) /\ request[h] = Idle
           /\ q.op = "purchase" /\ q.customer = c /\ Now(q) = "saveTotals"
           /\ q.entity = customer[c]
<1> DEFINE plan == <<"saveTotals">>
           q == [Idle EXCEPT !.op = "purchase", !.customer = c,
                             !.entity = customer[c], !.plan = plan]
<1>1. Becomes(h, q) /\ request[h] = Idle
  BY DEF Purchase, Admitted
<1>2. /\ plan \in Seq(Step) /\ plan \in Plans("purchase")
      /\ Head(plan) = "saveTotals" /\ plan # <<>>
  BY Tails DEF Step, Plans
<1>3. customer[c] \in Customer
  BY DEF IInv, TypeOK
<1> HIDE DEF plan
<1>4. /\ q \in Request /\ q.op = "purchase" /\ q.customer = c /\ q.plan = plan
      /\ q.entity = customer[c]
  BY <1>2, <1>3, IdlePlanned DEF Request, Operations
<1> HIDE DEF q
<1> QED  BY <1>1, <1>2, <1>4 DEF Ordered, Now, Operations

\* Every step moves one request, in order, or none.
LEMMA StepMoves ==
  ASSUME IInv, AllOrdered, Next
  PROVE  \/ UNCHANGED request
         \/ \E h \in Requests, q \in Request : Becomes(h, q) /\ Ordered(q)
<1>1. ASSUME NEW h \in Requests, NEW c \in Customers,
             \/ Register(h, c)
             \/ Purchase(h, c)
             \/ \E status \in {"active", "deactivated"} :
                  ChangeStatus(h, c, status)
      PROVE  \E q \in Request : Becomes(h, q) /\ Ordered(q)
  BY <1>1, RegisterMoves, PurchaseMoves, ChangeStatusMoves
<1>2. ASSUME NEW h \in Requests,
             \E op \in Redeeming, i \in DOMAIN rows, via \in Channels :
               Redeem(h, op, i, via)
      PROVE  \E q \in Request : Becomes(h, q) /\ Ordered(q)
  BY <1>2, RedeemMoves
<1>3. ASSUME NEW h \in Requests,
             \/ SaveCustomer(h) \/ PortalUser(h) \/ SendLink(h)
             \/ SaveOtp(h) \/ Use(h) \/ SaveSetup(h)
             \/ SaveLinked(h) \/ UseParent(h) \/ SaveTotals(h)
      PROVE  \E q \in Request : Becomes(h, q) /\ Ordered(q)
  <2>1. \E step \in Step : At(h, step) /\ Becomes(h, Rest(request[h]))
    BY <1>3 DEF SaveCustomer, PortalUser, SendLink, SaveOtp, Use, SaveSetup,
       SaveLinked, UseParent, SaveTotals, Step
  <2>2. \A step \in Step : step # "none"
    BY DEF Step
  <2> QED  BY <2>1, <2>2, GoesOn
<1>4. ASSUME NEW h \in Requests, Proceeds(h)
      PROVE  \E q \in Request : Becomes(h, q) /\ Ordered(q)
  BY <1>3, <1>4, FindMoves, FindOtpMoves, FindUserMoves, GetUserMoves,
     SaveUserMoves, FindCustomerMoves, SaveStatusMoves DEF Proceeds
<1>5. ASSUME NEW h \in Requests, Raise(h)
      PROVE  \E q \in Request : Becomes(h, q) /\ Ordered(q)
  BY <1>5, IdleRests DEF Raise
<1>6. ASSUME NEW i \in 1 .. MaxRows, Expire(i)  PROVE UNCHANGED request
  BY <1>6 DEF Expire
<1>7. CleanUp => UNCHANGED request
  BY DEF CleanUp
<1> QED  BY <1>1, <1>2, <1>4, <1>5, <1>6, <1>7 DEF Next, Redeeming

LEMMA NextOrdered ==
  ASSUME IInv, AllOrdered, [Next]_vars
  PROVE  AllOrdered'
<1>1. CASE UNCHANGED request
  BY <1>1 DEF AllOrdered
<1>2. ASSUME NEW h \in Requests, NEW q \in Request, Becomes(h, q), Ordered(q)
      PROVE  AllOrdered'
  <2>1. /\ request'[h] = q
        /\ \A g \in Requests : g # h => request'[g] = request[g]
    BY <1>2 DEF Becomes, IInv, TypeOK
  <2>2. ASSUME NEW g \in Requests  PROVE Ordered(request'[g])
    BY <1>2, <2>1 DEF AllOrdered
  <2> QED  BY <2>2 DEF AllOrdered
<1> QED  BY <1>1, <1>2, StepMoves DEF vars

LEMMA InitOrdered == Init => AllOrdered
BY IdleRests DEF Init, AllOrdered

-----------------------------------------------------------------------------
(* What every step keeps                                                   *)

LEMMA OneMoves ==
  ASSUME IInv, NEW h \in Requests, NEW q, Becomes(h, q)
  PROVE  /\ request'[h] = q
         /\ \A g \in Requests : g # h => request'[g] = request[g]
BY DEF Becomes, IInv, TypeOK

\* Challenges stay, as what they are, and used if they are used.
RowsKept ==
  /\ DOMAIN rows \subseteq DOMAIN rows'
  /\ \A i \in DOMAIN rows :
       /\ rows'[i].kind = rows[i].kind /\ rows'[i].parent = rows[i].parent
       /\ rows[i].isUsed => rows'[i].isUsed

LEMMA Written ==
  ASSUME IInv, NEW i, NEW t,
         t \in {[rows EXCEPT ![i].isUsed = TRUE, ![i].deleted = FALSE],
                [rows EXCEPT ![i].isUsed = TRUE],
                [rows EXCEPT ![i].expired = TRUE]},
         rows' = t
  PROVE  RowsKept
<1>1. \A j \in DOMAIN rows : rows[j] \in Challenge
  BY DEF IInv, TypeOK
<1>2. DOMAIN t = DOMAIN rows
  OBVIOUS
<1>3. ASSUME NEW j \in DOMAIN rows
      PROVE  t[j] \in {[rows[j] EXCEPT !.isUsed = TRUE, !.deleted = FALSE],
                       [rows[j] EXCEPT !.isUsed = TRUE],
                       [rows[j] EXCEPT !.expired = TRUE], rows[j]}
  BY <1>3
<1>4. ASSUME NEW j \in DOMAIN rows
      PROVE  /\ t[j].kind = rows[j].kind /\ t[j].parent = rows[j].parent
             /\ rows[j].isUsed => t[j].isUsed
  BY <1>1, <1>3, <1>4 DEF Challenge
<1> QED  BY <1>2, <1>4 DEF RowsKept

LEMMA Appended ==
  ASSUME IInv, NEW c, rows' = Append(rows, c)
  PROVE  /\ RowsKept
         /\ \A i \in DOMAIN rows : rows'[i] = rows[i]
         /\ DOMAIN rows' = DOMAIN rows \union {Len(rows) + 1}
         /\ Len(rows) + 1 \notin DOMAIN rows
         /\ rows'[Len(rows) + 1] = c
BY DEF IInv, TypeOK, RowsKept

LEMMA RowsStay ==
  ASSUME IInv, [Next]_vars
  PROVE  RowsKept
<1>1. UNCHANGED rows => RowsKept
  BY DEF RowsKept
<1>2. ASSUME NEW h \in Requests, NEW c \in Customers,
             \/ Register(h, c)
             \/ Purchase(h, c)
             \/ \E status \in {"active", "deactivated"} :
                  ChangeStatus(h, c, status)
      PROVE  UNCHANGED rows
  BY <1>2 DEF Register, Purchase, ChangeStatus
<1>3. ASSUME NEW h \in Requests,
             \E op \in Redeeming, i \in DOMAIN rows, via \in Channels :
               Redeem(h, op, i, via)
      PROVE  UNCHANGED rows
  BY <1>3 DEF Redeem
<1>4. ASSUME NEW h \in Requests, Proceeds(h)
      PROVE  RowsKept
  <2>1. CASE SendLink(h) \/ SaveOtp(h) \/ SaveSetup(h)
    BY <2>1, Appended DEF SendLink, SaveOtp, SaveSetup
  <2>2. CASE Use(h) \/ UseParent(h)
    BY <2>2, Written DEF Use, UseParent
  <2>3. CASE \/ SaveCustomer(h) \/ PortalUser(h)
             \/ Find(h) \/ FindOtp(h)
             \/ FindUser(h) \/ GetUser(h) \/ SaveUser(h)
             \/ FindCustomer(h) \/ SaveLinked(h)
             \/ SaveStatus(h) \/ SaveTotals(h)
    BY <1>1, <2>3 DEF SaveCustomer, PortalUser, Find, FindOtp, FindUser,
       GetUser, SaveUser, FindCustomer, SaveLinked, SaveStatus, SaveTotals
  <2> QED  BY <1>4, <2>1, <2>2, <2>3 DEF Proceeds
<1>5. ASSUME NEW h \in Requests, Raise(h)
      PROVE  UNCHANGED rows
  BY <1>5 DEF Raise
<1>6. ASSUME NEW i \in 1 .. MaxRows, Expire(i)  PROVE RowsKept
  BY <1>6, Written DEF Expire
<1>7. CleanUp => RowsKept
  <2>1. \A j \in DOMAIN rows : rows[j] \in Challenge
    BY DEF IInv, TypeOK
  <2> QED  BY <2>1 DEF CleanUp, RowsKept, Challenge
<1> QED  BY <1>1, <1>2, <1>3, <1>4, <1>5, <1>6, <1>7 DEF Next, vars, Redeeming

-----------------------------------------------------------------------------
(* One OTP, one setup token                                                *)

\* In turns no two requests are in flight.
LEMMA Alone ==
  ASSUME InTurns, NEW g \in Requests, NEW h \in Requests,
         request[g] # Idle, request[h] # Idle
  PROVE  g = h
<1> DEFINE s == CHOOSE f \in Requests : TRUE
<1>1. InFlight \subseteq {s}
  BY DEF InTurns
<1> HIDE DEF s
<1>2. g \in InFlight /\ h \in InFlight
  BY DEF InFlight
<1> QED  BY <1>1, <1>2

\* An OTP that a setup token was made of is used, and no request is about to
\* make another of it: between Use and SaveSetup the OTP is used and none was
\* made.
OneEach ==
  /\ \A i \in DOMAIN setups :
       /\ setups[i] <= 1
       /\ setups[i] # 0 => i \in DOMAIN rows /\ rows[i].isUsed
  /\ \A h \in Requests :
       LET r == request[h] IN
       r.op = "verify" /\ Now(r) \in {"use", "saveSetup"} =>
         /\ r.id \in DOMAIN setups => setups[r.id] = 0
         /\ Now(r) = "saveSetup" => rows[r.id].isUsed

\* Steps that make no setup token.
LEMMA OneEachMoves ==
  ASSUME IInv, OneEach, RowsKept, UNCHANGED setups,
         NEW h \in Requests, NEW q \in Request, Becomes(h, q),
         q.op = "verify" /\ Now(q) \in {"use", "saveSetup"} =>
           /\ q.id \in DOMAIN setups => setups[q.id] = 0
           /\ Now(q) = "saveSetup" => rows'[q.id].isUsed
  PROVE  OneEach'
<1>1. ASSUME NEW i \in DOMAIN setups'
      PROVE  /\ setups'[i] <= 1
             /\ setups'[i] # 0 => i \in DOMAIN rows' /\ rows'[i].isUsed
  BY <1>1 DEF OneEach, RowsKept
<1>2. ASSUME NEW g \in Requests, NEW r, r = request'[g],
             r.op = "verify", Now(r) \in {"use", "saveSetup"}
      PROVE  /\ r.id \in DOMAIN setups' => setups'[r.id] = 0
             /\ Now(r) = "saveSetup" => rows'[r.id].isUsed
  <2>1. CASE g = h
    BY <1>2, <2>1, OneMoves
  <2>2. CASE g # h
    <3>1. r = request[g]
      BY <1>2, <2>2, OneMoves
    <3>2. r.id \in DOMAIN rows
      BY <1>2, <3>1 DEF IInv, PlansKept, Planned, Redeeming
    <3> QED  BY <1>2, <3>1, <3>2 DEF OneEach, RowsKept
  <2> QED  BY <2>1, <2>2
<1> QED  BY <1>1, <1>2 DEF OneEach

LEMMA OneEachUse ==
  ASSUME IInv, AllOrdered, OneEach, NEW h \in Requests, Use(h), RowsKept
  PROVE  OneEach'
<1> DEFINE r == request[h]
<1>1. PICK q \in Request :
        /\ Becomes(h, q) /\ Ordered(q) /\ Now(r) = "use"
        /\ IF After(r.op, "use") = "none" THEN q = Idle
           ELSE Same(r, q) /\ Now(q) = After(r.op, "use")
  BY GoesOn DEF Use
<1>2. UNCHANGED setups /\ r.plan # <<>> /\ r \in Request /\ Ordered(r)
  BY DEF Use, At, IInv, TypeOK, AllOrdered
<1>3. r.op \in {"verify", "password", "account"}
  BY <1>1, <1>2, OrderedSteps
<1>4. ASSUME q.op = "verify"
      PROVE  /\ q.id = r.id /\ r.op = "verify" /\ Now(q) = "saveSetup"
             /\ rows'[q.id].isUsed
             /\ q.id \in DOMAIN setups => setups[q.id] = 0
  <2>1. Same(r, q) /\ r.op = "verify"
    BY <1>1, <1>4, IdleRests DEF Same
  <2>2. Now(q) = "saveSetup"
    BY <1>1, <2>1 DEF After
  <2>3. r.id \in DOMAIN rows
    BY <2>1 DEF IInv, PlansKept, Planned, Redeeming
  <2>4. rows'[r.id].isUsed
    <3>1. rows[r.id] \in Challenge
      BY <2>3 DEF IInv, TypeOK
    <3> QED  BY <2>3, <3>1 DEF Use, Challenge
  <2> QED  BY <1>1, <2>1, <2>2, <2>4 DEF OneEach, Same
<1> QED  BY <1>1, <1>2, <1>4, OneEachMoves

LEMMA OneEachSaveSetup ==
  ASSUME IInv, AllOrdered, OneEach, InTurns, NEW h \in Requests, SaveSetup(h),
         RowsKept
  PROVE  OneEach'
<1> DEFINE r == request[h]
<1>1. PICK q \in Request :
        /\ Becomes(h, q) /\ Now(r) = "saveSetup"
        /\ IF After(r.op, "saveSetup") = "none" THEN q = Idle
           ELSE Same(r, q) /\ Now(q) = After(r.op, "saveSetup")
  BY GoesOn DEF SaveSetup
<1>2. r.plan # <<>> /\ r \in Request /\ Ordered(r)
  BY DEF SaveSetup, At, IInv, TypeOK, AllOrdered
<1>3. r.op = "verify"
  BY <1>1, <1>2, OrderedSteps
<1>4. q = Idle
  BY <1>1, <1>3 DEF After
<1>5. ASSUME NEW g \in Requests  PROVE request'[g] = Idle
  <2>1. CASE g = h
    BY <1>1, <1>4, <2>1, OneMoves
  <2>2. CASE g # h
    <3>1. request[h] # Idle
      BY <1>2, IdleRests
    <3>2. request[g] = Idle
      BY <2>2, <3>1, Alone
    <3> QED  BY <1>1, <2>2, <3>2, OneMoves
  <2> QED  BY <2>1, <2>2
<1>6. /\ setups' = [setups EXCEPT ![r.id] = @ + 1]
      /\ setups \in [1 .. MaxRows -> Nat]
  BY DEF SaveSetup, IInv, TypeOK
<1>7. /\ r.id \in DOMAIN setups => setups[r.id] = 0
      /\ rows[r.id].isUsed
  BY <1>1, <1>3 DEF OneEach
<1>8. r.id \in DOMAIN rows
  BY <1>3 DEF IInv, PlansKept, Planned, Redeeming
<1>9. ASSUME NEW i \in DOMAIN setups'
      PROVE  /\ setups'[i] <= 1
             /\ setups'[i] # 0 => i \in DOMAIN rows' /\ rows'[i].isUsed
  <2>1. i \in DOMAIN setups
    BY <1>6
  <2>2. CASE i = r.id
    BY <1>6, <1>7, <1>8, <2>1, <2>2 DEF RowsKept
  <2>3. CASE i # r.id
    BY <1>6, <2>1, <2>3 DEF OneEach, RowsKept
  <2> QED  BY <2>2, <2>3
<1> QED  BY <1>5, <1>9, IdleRests DEF OneEach

\* Steps of requests that are about something else.
LEMMA OneEachOthers ==
  ASSUME IInv, OneEach, RowsKept, UNCHANGED setups,
         NEW h \in Requests, NEW q \in Request, Becomes(h, q),
         q.op # "verify" \/ Now(q) \notin {"use", "saveSetup"}
  PROVE  OneEach'
BY OneEachMoves

LEMMA OneEachProceeds ==
  ASSUME IInv, AllOrdered, OneEach, InTurns, RowsKept,
         NEW h \in Requests, Proceeds(h)
  PROVE  OneEach'
<1> DEFINE r == request[h]
<1>1. CASE \/ SaveCustomer(h) \/ PortalUser(h) \/ SendLink(h) \/ SaveOtp(h)
           \/ SaveLinked(h) \/ UseParent(h) \/ SaveTotals(h)
  <2>1. PICK step \in {"saveCustomer", "portal", "link", "saveOtp",
                       "saveLinked", "useParent", "saveTotals"} :
          At(h, step) /\ Becomes(h, Rest(r))
    BY <1>1 DEF SaveCustomer, PortalUser, SendLink, SaveOtp, SaveLinked,
       UseParent, SaveTotals
  <2>2. UNCHANGED setups
    BY <1>1 DEF SaveCustomer, PortalUser, SendLink, SaveOtp, SaveLinked,
       UseParent, SaveTotals, history
  <2>3. PICK q \in Request :
          /\ Becomes(h, q) /\ Now(r) = step
          /\ q = Idle \/ Same(r, q)
    BY <2>1, GoesOn
  <2>4. r.op # "verify"
    <3>1. r \in Request /\ Ordered(r) /\ r.plan # <<>>
      BY <2>1 DEF At, IInv, TypeOK, AllOrdered
    <3> QED  BY <2>3, <3>1, OrderedSteps
  <2>5. q.op # "verify"
    BY <2>3, <2>4, IdleRests DEF Same
  <2> QED  BY <2>2, <2>3, <2>5, OneEachOthers
<1>2. CASE Find(h)
  <2>1. PICK q \in Request :
          /\ Becomes(h, q)
          /\ q = Idle \/ (Same(r, q) /\ (q.op = "verify" => Now(q) = "findOtp"))
    BY <1>2, FindMoves
  <2>2. UNCHANGED setups
    BY <1>2 DEF Find
  <2> QED  BY <2>1, <2>2, IdleRests, OneEachOthers
<1>3. CASE FindOtp(h)
  <2>1. PICK q \in Request :
          /\ Becomes(h, q) /\ r.op = "verify"
          /\ IF Open(r.id) THEN Same(r, q) /\ Now(q) = "use" ELSE q = Idle
    BY <1>3, FindOtpMoves
  <2>2. UNCHANGED setups
    BY <1>3 DEF FindOtp
  <2>3. CASE ~Open(r.id)
    BY <2>1, <2>2, <2>3, IdleRests, OneEachOthers
  <2>4. CASE Open(r.id)
    <3>1. ~rows[r.id].isUsed /\ q.id = r.id /\ Now(q) = "use"
      BY <2>1, <2>4 DEF Open, Same
    <3>2. q.id \in DOMAIN setups => setups[q.id] = 0
      BY <3>1 DEF OneEach
    <3> QED  BY <2>1, <2>2, <3>1, <3>2, OneEachMoves
  <2> QED  BY <2>3, <2>4
<1>4. CASE FindUser(h) \/ GetUser(h) \/ SaveUser(h)
  <2>1. PICK q \in Request :
          /\ Becomes(h, q) /\ r.op \in {"password", "account", "status"}
          /\ q = Idle \/ Same(r, q)
    BY <1>4, FindUserMoves, GetUserMoves, SaveUserMoves
  <2>2. UNCHANGED setups
    BY <1>4 DEF FindUser, GetUser, SaveUser, history
  <2>3. q.op # "verify"
    BY <2>1, IdleRests DEF Same
  <2> QED  BY <2>1, <2>2, <2>3, OneEachOthers
<1>5. CASE FindCustomer(h)
  <2>1. PICK q \in Request : Becomes(h, q) /\ q.op = "password"
    BY <1>5, FindCustomerMoves
  <2>2. UNCHANGED setups
    BY <1>5 DEF FindCustomer, history
  <2> QED  BY <2>1, <2>2, OneEachOthers
<1>6. CASE SaveStatus(h)
  <2>1. PICK q \in Request :
          /\ Becomes(h, q) /\ r.op = "status"
          /\ q = Idle \/ Same(r, q)
    BY <1>6, SaveStatusMoves
  <2>2. UNCHANGED setups
    BY <1>6 DEF SaveStatus, history
  <2>3. q.op # "verify"
    BY <2>1, IdleRests DEF Same
  <2> QED  BY <2>1, <2>2, <2>3, OneEachOthers
<1> QED  BY <1>1, <1>2, <1>3, <1>4, <1>5, <1>6, OneEachUse, OneEachSaveSetup
         DEF Proceeds

LEMMA NextOneEach ==
  ASSUME IInv, AllOrdered, OneEach, InTurns, [Next]_vars
  PROVE  OneEach'
<1>1. RowsKept
  BY RowsStay
<1>2. CASE UNCHANGED <<request, setups>>
  <2>1. ASSUME NEW h \in Requests, request[h].op = "verify"
        PROVE  request[h].id \in DOMAIN rows
    BY <2>1 DEF IInv, PlansKept, Planned, Redeeming
  <2> QED  BY <1>1, <1>2, <2>1 DEF OneEach, RowsKept
<1>3. ASSUME NEW h \in Requests, NEW c \in Customers,
             \/ Register(h, c)
             \/ Purchase(h, c)
             \/ \E status \in {"active", "deactivated"} :
                  ChangeStatus(h, c, status)
      PROVE  OneEach'
  <2>1. UNCHANGED setups
    BY <1>3 DEF Register, Purchase, ChangeStatus, history
  <2>2. \E q \in Request : Becomes(h, q) /\ q.op # "verify"
    BY <1>3, RegisterMoves, PurchaseMoves, ChangeStatusMoves
  <2> QED  BY <1>1, <2>1, <2>2, OneEachOthers
<1>4. ASSUME NEW h \in Requests,
             \E op \in Redeeming, i \in DOMAIN rows, via \in Channels :
               Redeem(h, op, i, via)
      PROVE  OneEach'
  <2>1. UNCHANGED setups
    BY <1>4 DEF Redeem, history
  <2>2. \E q \in Request : Becomes(h, q) /\ Now(q) = "find"
    BY <1>4, RedeemMoves
  <2> QED  BY <1>1, <2>1, <2>2, OneEachOthers
<1>5. ASSUME NEW h \in Requests, Raise(h)
      PROVE  OneEach'
  <2>1. UNCHANGED setups /\ Becomes(h, Idle)
    BY <1>5 DEF Raise, history
  <2> QED  BY <1>1, <2>1, IdleRests, OneEachOthers
<1>6. ASSUME NEW i \in 1 .. MaxRows, Expire(i)  PROVE OneEach'
  BY <1>2, <1>6 DEF Expire, history
<1>7. CleanUp => OneEach'
  BY <1>2 DEF CleanUp, history
<1>8. UNCHANGED vars => OneEach'
  BY <1>2 DEF vars, history
<1>9. CASE Next
  BY <1>1, <1>3, <1>4, <1>5, <1>6, <1>7, <1>9, OneEachProceeds
     DEF Next, Redeeming
<1> QED  BY <1>8, <1>9

-----------------------------------------------------------------------------
(* The scenarios                                                           *)

\* What holds of every scenario: the invariant, and the scenario's own limits.
MCInv == IInv /\ AllOrdered /\ Within /\ scenario \in Scenarios

LEMMA InitMCInv == MCInit => MCInv
<1> SUFFICES ASSUME MCInit  PROVE MCInv
  OBVIOUS
<1>1. Init /\ scenario \in Scenarios
  BY DEF MCInit
<1>2. InFlight = {} /\ Expired = {}
  BY <1>1 DEF InFlight, Expired, Init
<1>3. \A ops : Only(ops)
  BY <1>2 DEF Only
<1>4. \A ops : InTurnsBut(ops)
  <2> TAKE ops
  <2>1. {h \in InFlight : request[h].op \notin ops} = {}
    BY <1>2
  <2> QED  BY <2>1, FS_EmptySet DEF InTurnsBut
<1>5. InTurns /\ Cardinality(Expired) <= 1 /\ Len(rows) <= 3 /\ faults = 0
  BY <1>1, <1>2, FS_EmptySet DEF InTurns, Init
<1>6. Within
  BY <1>1, <1>2, <1>3, <1>4, <1>5 DEF Within, Scenarios, Short
<1> QED  BY <1>1, <1>6, InitIInv, InitOrdered DEF MCInv

LEMMA NextMCInv == MCInv /\ [MCNext]_<<vars, scenario>> => MCInv'
<1> SUFFICES ASSUME MCInv, [MCNext]_<<vars, scenario>>  PROVE MCInv'
  OBVIOUS
<1>1. [Next]_vars /\ UNCHANGED scenario
  BY DEF MCNext
<1>2. IInv' /\ AllOrdered'
  BY <1>1, NextIInv, NextOrdered DEF MCInv
<1>3. Within'
  <2>1. CASE MCNext
    BY <2>1 DEF MCNext
  <2>2. CASE UNCHANGED <<vars, scenario>>
    BY <2>2 DEF MCInv, Within, vars, history, InTurns, InTurnsBut, InFlight,
       Only, Expired, Short
  <2> QED  BY <2>1, <2>2
<1> QED  BY <1>1, <1>2, <1>3 DEF MCInv

\* In turns, also when a call fails after an OTP was marked and before the
\* token is there.
OneEachInTurns == scenario \in {"staff", "failing"} => OneEach

LEMMA OneSetupInit == MCInit => OneEachInTurns
BY IdleRests DEF MCInit, Init, OneEachInTurns, OneEach

LEMMA OneSetupNext ==
  MCInv /\ OneEachInTurns /\ [MCNext]_<<vars, scenario>> => OneEachInTurns'
<1> SUFFICES ASSUME MCInv, OneEach, [MCNext]_<<vars, scenario>>,
                    scenario \in {"staff", "failing"}
             PROVE  OneEach'
  BY DEF OneEachInTurns, MCNext
<1>1. InTurns
  BY DEF MCInv, Within
<1> QED  BY <1>1, NextOneEach DEF MCInv, MCNext

\* One OTP makes one setup token, in turns and when calls fail half-way.  The
\* argument: Use marks the OTP before SaveSetup creates the token, FindOtp
\* lets no marked OTP pass, and no step takes a mark back (RowsStay); a
\* request that fails in between leaves an OTP that is marked and worth none.
THEOREM OneSetupEach == MCSpec => []OneSetupPerOtpInTurns
<1>1. OneEachInTurns => OneSetupPerOtpInTurns
  BY DEF OneEachInTurns, OneEach, OneSetupPerOtpInTurns, OneSetupPerOtp
<1> QED  BY <1>1, InitMCInv, NextMCInv, OneSetupInit, OneSetupNext, PTL
         DEF MCSpec

-----------------------------------------------------------------------------
(* No purchase is lost                                                     *)

\* Two requests of which at most one is in flight.
LEMMA OneOf ==
  ASSUME IInv, NEW ops, InTurnsBut(ops), NEW g \in Requests, NEW h \in Requests,
         request[g] # Idle, request[h] # Idle,
         request[g].op \notin ops, request[h].op \notin ops
  PROVE  g = h
<1> DEFINE S == {f \in InFlight : request[f].op \notin ops}
<1>1. IsFiniteSet(Requests)
  BY ActivationConstants
<1>2. S \subseteq Requests /\ g \in S /\ h \in S
  BY DEF InFlight
<1>3. IsFiniteSet(S) /\ Cardinality(S) <= 1
  BY <1>1, <1>2, FS_Subset DEF InTurnsBut
<1> HIDE DEF S
<1>4. /\ IsFiniteSet(S \ {g}) /\ Cardinality(S \ {g}) = Cardinality(S) - 1
      /\ Cardinality(S) \in Nat
  BY <1>2, <1>3, FS_RemoveElement, FS_CardinalityType
<1>5. Cardinality(S \ {g}) = 0
  BY <1>3, <1>4, FS_CardinalityType
<1>6. S \ {g} = {}
  BY <1>4, <1>5, FS_EmptySet
<1> QED  BY <1>2, <1>6

\* A copy of a customer that is about to be saved is not stale.
Copied(r) ==
  /\ Now(r) \in {"saveTotals", "saveLinked", "saveStatus"} =>
       /\ r.customer \in Customers
       /\ r.entity.totals = bought[r.customer]
  /\ Now(r) \in {"saveTotals", "saveStatus"} => r.entity.status # "none"
  /\ Now(r) = "saveCustomer" => customer[r.customer].status = "none"
  /\ scenario = "purchases" =>
       /\ Now(r) = "saveTotals" =>
            /\ r.entity.status = "active"
            /\ customer[r.customer].status = "active"
       /\ Now(r) = "saveLinked" => customer[r.customer].status # "active"

\* A customer who is not there yet is of no concern to another request, and
\* purchases take turns.
Clash(r, q) ==
  \/ Now(r) = "saveCustomer" /\ q.customer = r.customer
  \/ r.op = "purchase" /\ q.op = "purchase"

TotalsInv ==
  /\ TotalsKept
  /\ \A c \in Customers : customer[c].status = "none" => bought[c] = 0
  /\ \A h \in Requests : Copied(request[h])
  /\ \A g, h \in Requests : g # h => ~Clash(request[g], request[h])

\* A request that does not save a copy next.
Harmless(r) ==
  Now(r) \notin {"saveTotals", "saveLinked", "saveStatus", "saveCustomer"}

\* A request moves, and customers and purchases are as they were.
LEMMA TotalsMoves ==
  ASSUME IInv, TotalsInv, UNCHANGED <<customer, bought, scenario>>,
         NEW h \in Requests, NEW q \in Request, Becomes(h, q), Copied(q),
         \A g \in Requests : g # h =>
           ~Clash(request[g], q) /\ ~Clash(q, request[g])
  PROVE  TotalsInv'
<1>1. TotalsKept' /\ \A c \in Customers : customer'[c].status = "none" => bought'[c] = 0
  BY DEF TotalsInv, TotalsKept
<1>2. ASSUME NEW g \in Requests  PROVE Copied(request[g])'
  <2>1. CASE g = h
    <3>1. request'[g] = q
      BY <2>1, OneMoves
    <3> QED  BY <3>1 DEF Copied
  <2>2. CASE g # h
    <3>1. request'[g] = request[g] /\ Copied(request[g])
      BY <2>2, OneMoves DEF TotalsInv
    <3> QED  BY <3>1 DEF Copied
  <2> QED  BY <2>1, <2>2
<1>3. ASSUME NEW f \in Requests, NEW g \in Requests, f # g
      PROVE  ~Clash(request'[f], request'[g])
  BY <1>3, OneMoves DEF TotalsInv
<1>4. \A f, g \in Requests : f # g => ~Clash(request[f], request[g])'
  BY <1>3 DEF Clash
<1> QED  BY <1>1, <1>2, <1>4 DEF TotalsInv

\* The request goes on without a copy to save, or ends.
LEMMA ClashesWithNone ==
  ASSUME IInv, AllOrdered, TotalsInv, NEW h \in Requests, NEW q \in Request,
         Harmless(q), q = Idle \/ (q.op = request[h].op /\ q.customer = request[h].customer)
  PROVE  \A g \in Requests : g # h =>
           ~Clash(request[g], q) /\ ~Clash(q, request[g])
<1> SUFFICES ASSUME NEW g \in Requests, g # h
             PROVE  ~Clash(request[g], q) /\ ~Clash(q, request[g])
  OBVIOUS
<1>1. CASE q = Idle
  <2>1. Now(request[g]) = "saveCustomer" => request[g].customer \in Customers
    <3>1. /\ request[g] \in Request /\ Ordered(request[g])
          /\ Planned(request[g])
      BY DEF IInv, TypeOK, PlansKept, AllOrdered
    <3>2. ASSUME Now(request[g]) = "saveCustomer"  PROVE request[g].op = "register"
      <4>1. request[g].plan # <<>>
        BY <3>2 DEF Now
      <4> QED  BY <3>1, <3>2, <4>1, OrderedSteps
    <3> QED  BY <3>1, <3>2 DEF Planned
  <2>2. None \notin Customers
    BY ActivationConstants
  <2> QED  BY <1>1, <2>1, <2>2, IdleRests DEF Clash
<1>2. CASE q.op = request[h].op /\ q.customer = request[h].customer
  <2>1. ~Clash(request[g], request[h]) /\ ~Clash(request[h], request[g])
    BY DEF TotalsInv
  <2> QED  BY <1>2, <2>1 DEF Clash, Harmless
<1> QED  BY <1>1, <1>2

LEMMA TotalsHarmless ==
  ASSUME IInv, AllOrdered, TotalsInv, UNCHANGED <<customer, bought, scenario>>,
         NEW h \in Requests, NEW q \in Request, Becomes(h, q),
         Harmless(q), q = Idle \/ (q.op = request[h].op /\ q.customer = request[h].customer)
  PROVE  TotalsInv'
<1>1. Copied(q)
  BY DEF Harmless, Copied
<1> QED  BY <1>1, ClashesWithNone, TotalsMoves

\* What is known of a request that saves a copy of a customer next.
LEMMA Saving ==
  ASSUME IInv, AllOrdered, TotalsInv, NEW h \in Requests, NEW step \in Step,
         At(h, step)
  PROVE  /\ Now(request[h]) = step /\ request[h] # Idle
         /\ request[h] \in Request
         /\ Copied(request[h])
         /\ step = "saveCustomer" =>
              request[h].op = "register" /\ request[h].customer \in Customers
         /\ step = "saveTotals" => request[h].op = "purchase"
         /\ step = "saveStatus" => request[h].op = "status"
         /\ step = "saveLinked" => request[h].op = "password"
<1>1. /\ request[h] \in Request /\ Ordered(request[h])
      /\ Planned(request[h])
      /\ request[h].plan # <<>> /\ Now(request[h]) = step
  BY DEF IInv, TypeOK, PlansKept, AllOrdered, At, Now
<1> QED  BY <1>1, OrderedSteps, IdleRests DEF TotalsInv, Planned

\* How a step leaves the others' copies when it writes a customer.
LEMMA TotalsWrites ==
  ASSUME IInv, AllOrdered, TotalsInv, UNCHANGED scenario,
         NEW h \in Requests, NEW q \in Request, Becomes(h, q),
         Harmless(q), q = Idle \/ (q.op = request[h].op /\ q.customer = request[h].customer),
         NEW c \in Customers, NEW row \in Customer,
         customer' = [customer EXCEPT ![c] = row],
         row.totals = bought'[c],
         row.status # "none",
         bought' \in [Customers -> Nat],
         \A d \in Customers : d # c => bought'[d] = bought[d],
         \A g \in Requests : g # h => Copied(request[g])'
  PROVE  TotalsInv'
<1>1. /\ customer'[c] = row
      /\ \A d \in Customers : d # c => customer'[d] = customer[d]
  BY DEF IInv, TypeOK
<1>2. TotalsKept' /\ \A d \in Customers : customer'[d].status = "none" => bought'[d] = 0
  BY <1>1 DEF TotalsInv, TotalsKept
<1>3. ASSUME NEW g \in Requests  PROVE Copied(request[g])'
  <2>1. CASE g = h
    <3>1. request'[g] = q
      BY <2>1, OneMoves
    <3> QED  BY <3>1 DEF Copied, Harmless
  <2> QED  BY <2>1
<1>4. \A g \in Requests : g # h =>
           ~Clash(request[g], q) /\ ~Clash(q, request[g])
  BY ClashesWithNone
<1>5. ASSUME NEW f \in Requests, NEW g \in Requests, f # g
      PROVE  ~Clash(request'[f], request'[g])
  BY <1>4, <1>5, OneMoves DEF TotalsInv
<1>6. \A f, g \in Requests : f # g => ~Clash(request[f], request[g])'
  BY <1>5 DEF Clash
<1> QED  BY <1>2, <1>3, <1>6 DEF TotalsInv

LEMMA TotalsSaveCustomer ==
  ASSUME IInv, AllOrdered, TotalsInv, UNCHANGED scenario,
         NEW h \in Requests, SaveCustomer(h)
  PROVE  TotalsInv'
<1> DEFINE r == request[h]
           c == r.customer
           row == [status |-> "pending", totals |-> 0]
<1>1. /\ Now(r) = "saveCustomer" /\ Copied(r)
      /\ r.op = "register" /\ c \in Customers
  BY Saving DEF SaveCustomer, Step
<1>2. PICK q \in Request :
        /\ Becomes(h, q)
        /\ IF After(r.op, "saveCustomer") = "none" THEN q = Idle
           ELSE Same(r, q) /\ Now(q) = After(r.op, "saveCustomer")
  BY GoesOn DEF SaveCustomer
<1>3. Same(r, q) /\ Now(q) = "portal"
  BY <1>1, <1>2 DEF After
<1>4. /\ customer' = [customer EXCEPT ![c] = row] /\ UNCHANGED bought
  BY DEF SaveCustomer, history
<1>5. row \in Customer /\ row.totals = 0 /\ row.status = "pending"
  BY DEF Customer
<1> HIDE DEF row
<1>6. bought[c] = 0
  BY <1>1 DEF Copied, TotalsInv
<1>7. ASSUME NEW g \in Requests, g # h  PROVE Copied(request[g])'
  <2>1. request'[g] = request[g] /\ Copied(request[g])
    BY <1>2, <1>7, OneMoves DEF TotalsInv
  <2>2. request[g].customer # c
    BY <1>1, <1>7 DEF TotalsInv, Clash
  <2>3. customer'[request[g].customer] = customer[request[g].customer]
    BY <1>4, <2>2 DEF IInv, TypeOK
  <2> QED  BY <1>4, <2>1, <2>3 DEF Copied
<1>8. Harmless(q) /\ q.op = r.op /\ q.customer = r.customer
  BY <1>3 DEF Harmless, Same
<1>9. row.totals = bought'[c] /\ bought' \in [Customers -> Nat]
  BY <1>4, <1>5, <1>6 DEF IInv, TypeOK
<1> QED  BY <1>1, <1>2, <1>4, <1>5, <1>7, <1>8, <1>9, TotalsWrites

LEMMA TotalsSaveLinked ==
  ASSUME MCInv, TotalsInv, UNCHANGED scenario,
         NEW h \in Requests, SaveLinked(h)
  PROVE  TotalsInv'
<1> DEFINE r == request[h]
           c == r.customer
           row == [r.entity EXCEPT !.status = "active"]
<1>0. IInv /\ AllOrdered /\ Within
  BY DEF MCInv
<1>1. /\ Now(r) = "saveLinked" /\ Copied(r) /\ r # Idle
      /\ r.op = "password" /\ r \in Request
  BY <1>0, Saving DEF SaveLinked, Step
<1>2. PICK q \in Request :
        /\ Becomes(h, q)
        /\ IF After(r.op, "saveLinked") = "none" THEN q = Idle
           ELSE Same(r, q) /\ Now(q) = After(r.op, "saveLinked")
  BY <1>0, GoesOn DEF SaveLinked
<1>3. Same(r, q) /\ Now(q) = "use"
  BY <1>1, <1>2 DEF After
<1>4. /\ customer' = [customer EXCEPT ![c] = row] /\ UNCHANGED bought
  BY DEF SaveLinked, history
<1>5. /\ row \in Customer /\ row.totals = r.entity.totals
      /\ row.status = "active"
  BY <1>1 DEF Request, Customer
<1> HIDE DEF row
<1>6. c \in Customers /\ r.entity.totals = bought[c]
  BY <1>1 DEF Copied
<1>7. ASSUME NEW g \in Requests, g # h  PROVE Copied(request[g])'
  <2>1. request'[g] = request[g] /\ Copied(request[g])
    BY <1>0, <1>2, <1>7, OneMoves DEF TotalsInv
  <2>2. Now(request[g]) = "saveCustomer" => request[g].customer # c
    BY <1>7 DEF TotalsInv, Clash
  <2>3. scenario = "purchases" => Now(request[g]) # "saveLinked"
    <3> SUFFICES ASSUME scenario = "purchases", Now(request[g]) = "saveLinked"
                 PROVE  FALSE
      OBVIOUS
    <3>1. At(g, "saveLinked")
      BY DEF Now, At
    <3>2. request[g].op = "password" /\ request[g] # Idle
      BY <1>0, <3>1, Saving DEF Step
    <3>3. InTurnsBut({"otp", "purchase", "account"})
      BY <1>0 DEF Within
    <3> QED  BY <1>0, <1>1, <1>7, <3>2, <3>3, OneOf
  <2>4. \A d : customer'[d].status = customer[d].status \/ (d = c /\ customer'[d].status = "active")
    BY <1>4, <1>5, <1>6, <1>0 DEF IInv, TypeOK
  <2> QED  BY <1>4, <2>1, <2>2, <2>3, <2>4 DEF Copied
<1>8. Harmless(q) /\ q.op = r.op /\ q.customer = r.customer
  BY <1>3 DEF Harmless, Same
<1>9. row.totals = bought'[c] /\ bought' \in [Customers -> Nat]
  BY <1>0, <1>4, <1>5, <1>6 DEF IInv, TypeOK
<1> QED  BY <1>0, <1>2, <1>4, <1>5, <1>6, <1>7, <1>8, <1>9, TotalsWrites

LEMMA TotalsSaveStatus ==
  ASSUME MCInv, TotalsInv, UNCHANGED scenario,
         NEW h \in Requests, SaveStatus(h)
  PROVE  TotalsInv'
<1> DEFINE r == request[h]
           c == r.customer
<1>0. IInv /\ AllOrdered /\ Within
  BY DEF MCInv
<1>1. /\ Now(r) = "saveStatus" /\ Copied(r) /\ r # Idle
      /\ r.op = "status" /\ r \in Request
  BY <1>0, Saving DEF SaveStatus, Step
<1>2. PICK q \in Request :
        /\ Becomes(h, q)
        /\ IF user.status = "none" THEN q = Idle
           ELSE Same(r, q) /\ Now(q) = "getUser"
  BY <1>0, SaveStatusMoves
<1>3. Harmless(q) /\ (q = Idle \/ (q.op = r.op /\ q.customer = r.customer))
  BY <1>2, IdleRests DEF Same, Harmless
<1>4. /\ customer' = [customer EXCEPT ![c] = r.entity] /\ UNCHANGED bought
  BY DEF SaveStatus, history
<1>5. /\ c \in Customers /\ r.entity.totals = bought[c]
      /\ r.entity.status # "none" /\ r.entity \in Customer
  BY <1>1 DEF Copied, Request
<1>6. scenario # "purchases"
  <2>1. scenario = "purchases" => Only(Operations \ {"status"})
    BY <1>0 DEF Within
  <2> QED  BY <1>1, <2>1 DEF Only, InFlight
<1>7. ASSUME NEW g \in Requests, g # h  PROVE Copied(request[g])'
  <2>1. request'[g] = request[g] /\ Copied(request[g])
    BY <1>0, <1>2, <1>7, OneMoves DEF TotalsInv
  <2>2. Now(request[g]) = "saveCustomer" => request[g].customer # c
    BY <1>7 DEF TotalsInv, Clash
  <2>3. request[g].customer # c =>
          customer'[request[g].customer] = customer[request[g].customer]
    BY <1>0, <1>4, <1>5 DEF IInv, TypeOK
  <2> QED  BY <1>4, <1>6, <2>1, <2>2, <2>3 DEF Copied
<1>8. r.entity.totals = bought'[c] /\ bought' \in [Customers -> Nat]
  BY <1>0, <1>4, <1>5 DEF IInv, TypeOK
<1> QED  BY <1>0, <1>2, <1>3, <1>4, <1>5, <1>7, <1>8, TotalsWrites

\* A purchase is counted, and nobody holds a copy of the customer as he was.
LEMMA TotalsSaveTotals ==
  ASSUME MCInv, TotalsInv, UNCHANGED scenario,
         NEW h \in Requests, SaveTotals(h)
  PROVE  TotalsInv'
<1> DEFINE r == request[h]
           c == r.customer
           row == [r.entity EXCEPT !.totals = @ + 1]
<1>0. IInv /\ AllOrdered /\ Within /\ scenario \in Scenarios
  BY DEF MCInv
<1>1. /\ Now(r) = "saveTotals" /\ Copied(r) /\ r # Idle
      /\ r.op = "purchase" /\ r \in Request
  BY <1>0, Saving DEF SaveTotals, Step
<1>2. PICK q \in Request :
        /\ Becomes(h, q)
        /\ IF After(r.op, "saveTotals") = "none" THEN q = Idle
           ELSE Same(r, q) /\ Now(q) = After(r.op, "saveTotals")
  BY <1>0, GoesOn DEF SaveTotals
<1>3. q = Idle
  BY <1>1, <1>2 DEF After
<1>4. /\ customer' = [customer EXCEPT ![c] = row]
      /\ bought' = [bought EXCEPT ![c] = @ + 1]
  BY DEF SaveTotals
<1>5. /\ row \in Customer /\ row.totals = r.entity.totals + 1
      /\ row.status = r.entity.status
  <2> DEFINE e == r.entity
  <2>1. e \in Customer
    BY <1>1 DEF Request
  <2>2. row = [e EXCEPT !.totals = e.totals + 1]
    OBVIOUS
  <2> HIDE DEF e
  <2>3. e.totals + 1 \in Nat
    BY <2>1 DEF Customer
  <2>4. [e EXCEPT !.totals = e.totals + 1] \in Customer
    BY <2>1, <2>3 DEF Customer
  <2>5. /\ [e EXCEPT !.totals = e.totals + 1].totals = e.totals + 1
        /\ [e EXCEPT !.totals = e.totals + 1].status = e.status
    BY <2>1 DEF Customer
  <2> QED  BY <2>2, <2>4, <2>5 DEF e
<1> HIDE DEF row
<1>6. /\ c \in Customers /\ r.entity.totals = bought[c]
      /\ r.entity.status # "none"
      /\ scenario = "purchases" =>
           r.entity.status = "active" /\ customer[c].status = "active"
  BY <1>1 DEF Copied
<1>7. ASSUME NEW g \in Requests, g # h  PROVE Copied(request[g])'
  <2>1. request'[g] = request[g] /\ Copied(request[g])
    BY <1>0, <1>2, <1>7, OneMoves DEF TotalsInv
  <2>2. Now(request[g]) = "saveCustomer" => request[g].customer # c
    BY <1>7 DEF TotalsInv, Clash
  <2>3. Now(request[g]) # "saveTotals"
    <3> SUFFICES ASSUME Now(request[g]) = "saveTotals"  PROVE FALSE
      OBVIOUS
    <3>1. At(g, "saveTotals")
      BY DEF Now, At
    <3>2. request[g].op = "purchase"
      BY <1>0, <3>1, Saving DEF Step
    <3> QED  BY <1>1, <1>7, <3>2 DEF TotalsInv, Clash
  <2>4. Now(request[g]) # "saveStatus" /\
        (Now(request[g]) = "saveLinked" => request[g].customer # c)
    <3> SUFFICES ASSUME Now(request[g]) \in {"saveStatus", "saveLinked"},
                        Now(request[g]) = "saveLinked" =>
                          request[g].customer = c
                 PROVE  FALSE
      OBVIOUS
    <3>1. \E step \in {"saveStatus", "saveLinked"} : At(g, step)
      BY DEF Now, At
    <3>2. request[g] # Idle /\ (Now(request[g]) = "saveStatus" => request[g].op = "status")
      BY <1>0, <3>1, Saving DEF Step
    <3>3. CASE scenario = "staff"
      BY <1>0, <1>1, <1>7, <3>2, <3>3, Alone DEF Within
    <3>4. CASE scenario \in {"failing", "tokens"}
      <4>1. Only(Chain) \/ Only({"register"} \union Redeeming)
        BY <1>0, <3>4 DEF Within
      <4> QED  BY <1>1, <4>1 DEF Only, InFlight, Chain, Redeeming
    <3>5. CASE scenario = "purchases"
      <4>1. Only(Operations \ {"status"})
        BY <1>0, <3>5 DEF Within
      <4>2. Now(request[g]) = "saveLinked"
        BY <3>2, <4>1 DEF Only, InFlight
      <4> QED  BY <1>6, <2>1, <3>5, <4>2 DEF Copied
    <3> QED  BY <1>0, <3>3, <3>4, <3>5 DEF Scenarios
  <2>5. request[g].customer # c =>
          /\ customer'[request[g].customer] = customer[request[g].customer]
          /\ request[g].customer \in Customers =>
               bought'[request[g].customer] = bought[request[g].customer]
    BY <1>0, <1>4, <1>6 DEF IInv, TypeOK
  <2> QED  BY <2>1, <2>2, <2>3, <2>4, <2>5 DEF Copied
<1>8. /\ row.totals = bought'[c] /\ bought' \in [Customers -> Nat]
      /\ \A d \in Customers : d # c => bought'[d] = bought[d]
  BY <1>0, <1>4, <1>5, <1>6 DEF IInv, TypeOK
<1>9. Harmless(q)
  BY <1>3, IdleRests DEF Harmless
<1> QED  BY <1>0, <1>2, <1>3, <1>4, <1>5, <1>6, <1>7, <1>8, <1>9, TotalsWrites

-----------------------------------------------------------------------------
(* Requests that begin                                                     *)

LEMMA TotalsRegister ==
  ASSUME IInv, AllOrdered, TotalsInv, UNCHANGED scenario,
         NEW h \in Requests, NEW c \in Customers, Register(h, c)
  PROVE  TotalsInv'
<1>1. PICK q \in Request :
        /\ Becomes(h, q) /\ q.op = "register" /\ q.customer = c
        /\ Now(q) = "saveCustomer"
  BY RegisterMoves
<1>2. /\ customer[c].status = "none" /\ UNCHANGED <<customer, bought>>
      /\ \A g \in Requests : request[g].customer # c
  BY DEF Register, history
<1>3. Copied(q)
  BY <1>1, <1>2 DEF Copied
<1>4. \A g \in Requests : ~Clash(request[g], q) /\ ~Clash(q, request[g])
  BY <1>1, <1>2 DEF Clash
<1> QED  BY <1>1, <1>2, <1>3, <1>4, TotalsMoves

LEMMA TotalsChangeStatus ==
  ASSUME IInv, AllOrdered, TotalsInv, UNCHANGED scenario,
         NEW h \in Requests, NEW c \in Customers,
         NEW status \in {"active", "deactivated"}, ChangeStatus(h, c, status)
  PROVE  TotalsInv'
<1>1. PICK q \in Request :
        /\ Becomes(h, q) /\ q.op = "status" /\ q.customer = c
        /\ Now(q) = "saveStatus" /\ q.entity.status = status
        /\ q.entity.totals = customer[c].totals
  BY ChangeStatusMoves
<1>2. customer[c].status # "none" /\ UNCHANGED <<customer, bought>>
  BY DEF ChangeStatus
<1>3. customer[c].totals = bought[c]
  BY DEF TotalsInv, TotalsKept
<1>4. Copied(q)
  BY <1>1, <1>3 DEF Copied
<1>5. \A g \in Requests : ~Clash(request[g], q) /\ ~Clash(q, request[g])
  BY <1>1, <1>2 DEF Clash, TotalsInv, Copied
<1> QED  BY <1>1, <1>2, <1>4, <1>5, TotalsMoves

LEMMA TotalsPurchase ==
  ASSUME IInv, AllOrdered, TotalsInv, UNCHANGED scenario,
         NEW h \in Requests, NEW c \in Customers, Purchase(h, c)
  PROVE  TotalsInv'
<1>1. PICK q \in Request :
        /\ Becomes(h, q) /\ q.op = "purchase" /\ q.customer = c
        /\ Now(q) = "saveTotals" /\ q.entity = customer[c]
  BY PurchaseMoves
<1>2. /\ customer[c].status = "active" /\ UNCHANGED <<customer, bought>>
      /\ \A g \in Requests : request[g].op # "purchase"
  BY DEF Purchase, history
<1>3. customer[c].totals = bought[c]
  BY DEF TotalsInv, TotalsKept
<1>4. Copied(q)
  BY <1>1, <1>2, <1>3 DEF Copied
<1>5. \A g \in Requests : ~Clash(request[g], q) /\ ~Clash(q, request[g])
  BY <1>1, <1>2 DEF Clash, TotalsInv, Copied
<1> QED  BY <1>1, <1>2, <1>4, <1>5, TotalsMoves

\* The other steps of requests.
LEMMA TotalsProceeds ==
  ASSUME MCInv, TotalsInv, UNCHANGED scenario, NEW h \in Requests, Proceeds(h)
  PROVE  TotalsInv'
<1> DEFINE r == request[h]
<1>0. IInv /\ AllOrdered
  BY DEF MCInv
<1>1. CASE \/ PortalUser(h) \/ SendLink(h) \/ SaveOtp(h) \/ Use(h)
           \/ SaveSetup(h) \/ UseParent(h)
  <2>1. PICK step \in {"portal", "link", "saveOtp", "use", "saveSetup",
                       "useParent"} :
          At(h, step) /\ Becomes(h, Rest(r))
    BY <1>1 DEF PortalUser, SendLink, SaveOtp, Use, SaveSetup, UseParent
  <2>2. UNCHANGED <<customer, bought>>
    BY <1>1 DEF PortalUser, SendLink, SaveOtp, Use, SaveSetup, UseParent,
       history
  <2>3. PICK q \in Request :
          /\ Becomes(h, q)
          /\ IF After(r.op, step) = "none" THEN q = Idle
             ELSE Same(r, q) /\ Now(q) = After(r.op, step)
    BY <1>0, <2>1, GoesOn
  <2>4. After(r.op, step) \in {"none", "link", "saveSetup", "useParent"}
    BY <2>1 DEF After
  <2>5. Harmless(q) /\ (q = Idle \/ (q.op = r.op /\ q.customer = r.customer))
    BY <2>3, <2>4, IdleRests DEF Harmless, Same
  <2> QED  BY <1>0, <2>2, <2>3, <2>5, TotalsHarmless
<1>2. CASE \/ Find(h) \/ FindOtp(h) \/ FindUser(h) \/ GetUser(h)
           \/ SaveUser(h)
  <2>1. UNCHANGED <<customer, bought>>
    BY <1>2 DEF Find, FindOtp, FindUser, GetUser, SaveUser, history
  <2>2. PICK q \in Request :
          /\ Becomes(h, q)
          /\ q = Idle \/ /\ Same(r, q)
                         /\ Now(q) \in {"saveOtp", "findOtp", "findUser", "use",
                                        "getUser", "saveUser", "findCustomer"}
    <3>1. CASE Find(h)
      <4>1. PICK q \in Request :
              /\ Becomes(h, q) /\ r.op \in Redeeming
              /\ q = Idle
                 \/ /\ Same(r, q)
                    /\ q.op = "otp" => Now(q) = "saveOtp"
                    /\ q.op = "verify" => Now(q) = "findOtp"
                    /\ q.op \in {"password", "account"} => Now(q) = "findUser"
        BY <1>0, <3>1, FindMoves
      <4> QED  BY <4>1 DEF Same, Redeeming
    <3>2. CASE FindOtp(h)
      BY <1>0, <3>2, FindOtpMoves
    <3>3. CASE FindUser(h)
      BY <1>0, <3>3, FindUserMoves
    <3>4. CASE GetUser(h)
      BY <1>0, <3>4, GetUserMoves
    <3>5. CASE SaveUser(h)
      BY <1>0, <3>5, SaveUserMoves
    <3> QED  BY <1>2, <3>1, <3>2, <3>3, <3>4, <3>5
  <2>3. Harmless(q) /\ (q = Idle \/ (q.op = r.op /\ q.customer = r.customer))
    BY <2>2, IdleRests DEF Harmless, Same
  <2> QED  BY <1>0, <2>1, <2>2, <2>3, TotalsHarmless
<1>3. CASE FindCustomer(h)
  <2>1. PICK q \in Request, c \in Customers :
          /\ Becomes(h, q) /\ r.op = "password"
          /\ customer[c].status # "none" /\ q.op = r.op
          /\ IF customer[c].status = "active"
             THEN Same(r, q) /\ Now(q) = "use"
             ELSE /\ Now(q) = "saveLinked"
                  /\ q.customer = c /\ q.entity = customer[c]
    BY <1>0, <1>3, FindCustomerMoves
  <2>2. UNCHANGED <<customer, bought>>
    BY <1>3 DEF FindCustomer, history
  <2>3. CASE customer[c].status = "active"
    <3>1. Harmless(q) /\ q.op = r.op /\ q.customer = r.customer
      BY <2>1, <2>3 DEF Harmless, Same
    <3> QED  BY <1>0, <2>1, <2>2, <3>1, TotalsHarmless
  <2>4. CASE customer[c].status # "active"
    <3>1. customer[c].totals = bought[c]
      BY DEF TotalsInv, TotalsKept
    <3>2. Copied(q)
      BY <2>1, <2>4, <3>1 DEF Copied
    <3>3. \A g \in Requests : ~Clash(request[g], q) /\ ~Clash(q, request[g])
      BY <2>1, <2>4 DEF Clash, TotalsInv, Copied
    <3> QED  BY <1>0, <2>1, <2>2, <3>2, <3>3, TotalsMoves
  <2> QED  BY <2>3, <2>4
<1> QED  BY <1>0, <1>1, <1>2, <1>3, TotalsSaveCustomer, TotalsSaveLinked,
            TotalsSaveStatus, TotalsSaveTotals DEF Proceeds

LEMMA TotalsInit == MCInit => TotalsInv
BY IdleRests DEF MCInit, Init, NoCustomer, TotalsInv, TotalsKept, Copied, Clash

LEMMA TotalsNext ==
  MCInv /\ TotalsInv /\ [MCNext]_<<vars, scenario>> => TotalsInv'
<1> SUFFICES ASSUME MCInv, TotalsInv, [MCNext]_<<vars, scenario>>
             PROVE  TotalsInv'
  OBVIOUS
<1>0. IInv /\ AllOrdered /\ UNCHANGED scenario /\ [Next]_vars
  BY DEF MCInv, MCNext
<1>1. CASE UNCHANGED <<customer, bought, request>>
  BY <1>0, <1>1 DEF TotalsInv, TotalsKept, Copied, Clash
<1>2. ASSUME NEW h \in Requests, NEW c \in Customers,
             \/ Register(h, c)
             \/ Purchase(h, c)
             \/ \E status \in {"active", "deactivated"} :
                  ChangeStatus(h, c, status)
      PROVE  TotalsInv'
  BY <1>0, <1>2, TotalsRegister, TotalsPurchase, TotalsChangeStatus
<1>3. ASSUME NEW h \in Requests,
             \E op \in Redeeming, i \in DOMAIN rows, via \in Channels :
               Redeem(h, op, i, via)
      PROVE  TotalsInv'
  <2>1. UNCHANGED <<customer, bought>>
    BY <1>3 DEF Redeem, history
  <2>2. PICK q \in Request :
          /\ Becomes(h, q) /\ q.customer = None /\ Now(q) = "find"
          /\ q.op \in Redeeming /\ request[h] = Idle
    BY <1>0, <1>3, RedeemMoves
  <2>3. Harmless(q) /\ Copied(q)
    BY <2>2 DEF Harmless, Copied
  <2>4. ASSUME NEW g \in Requests, g # h
        PROVE  ~Clash(request[g], q) /\ ~Clash(q, request[g])
    <3>1. ~Clash(request[g], Idle)
      BY <1>0, <2>2, <2>4 DEF TotalsInv
    <3> QED  BY <2>2, <3>1, IdleRests DEF Clash, Redeeming
  <2> QED  BY <1>0, <2>1, <2>2, <2>3, <2>4, TotalsMoves
<1>4. ASSUME NEW h \in Requests, Raise(h)
      PROVE  TotalsInv'
  <2>1. UNCHANGED <<customer, bought>> /\ Becomes(h, Idle)
    BY <1>4 DEF Raise, history
  <2>2. Harmless(Idle)
    BY IdleRests DEF Harmless
  <2> QED  BY <1>0, <2>1, <2>2, IdleRests, TotalsHarmless
<1>5. ASSUME NEW i \in 1 .. MaxRows, Expire(i)  PROVE TotalsInv'
  BY <1>1, <1>5 DEF Expire, history
<1>6. CleanUp => TotalsInv'
  BY <1>1 DEF CleanUp, history
<1>7. UNCHANGED vars => TotalsInv'
  BY <1>1 DEF vars, history
<1>8. CASE Next
  BY <1>0, <1>2, <1>3, <1>4, <1>5, <1>6, <1>8, TotalsProceeds
     DEF Next, Redeeming
<1> QED  BY <1>0, <1>7, <1>8

\* No save of the whole row of a customer loses a purchase, in any scenario.
\* The argument: whoever holds a copy of a customer that he will save holds
\* its true totals.  Staff's copies and purchases take turns; beside
\* purchases only createPassword saves customers, and it saves one that was
\* not active when it was read and still is not, who cannot have bought.
THEOREM PurchasesAreKept == MCSpec => []TotalsKept
<1>1. TotalsInv => TotalsKept
  BY DEF TotalsInv
<1> QED  BY <1>1, InitMCInv, NextMCInv, TotalsInit, TotalsNext, PTL DEF MCSpec

-----------------------------------------------------------------------------
(* Whoever waits has a token                                               *)

\* A request redeems a challenge of a kind that its endpoint takes.
KindsMatch ==
  \A h \in Requests : request[h].op \in Redeeming =>
    rows[request[h].id].kind \in Kinds(request[h].op)

LEMMA KindsMoves ==
  ASSUME IInv, KindsMatch, RowsKept, NEW h \in Requests, NEW q, Becomes(h, q),
         q.op \in Redeeming =>
           \/ q.op = request[h].op /\ q.id = request[h].id
           \/ q.id \in DOMAIN rows /\ rows[q.id].kind \in Kinds(q.op)
  PROVE  KindsMatch'
<1>1. \A g \in Requests : request[g].op \in Redeeming => request[g].id \in DOMAIN rows
  BY DEF IInv, PlansKept, Planned
<1>2. ASSUME NEW g \in Requests, request'[g].op \in Redeeming
      PROVE  rows'[request'[g].id].kind \in Kinds(request'[g].op)
  <2>1. CASE g = h
    BY <1>1, <1>2, <2>1, OneMoves DEF KindsMatch, RowsKept
  <2>2. CASE g # h
    BY <1>1, <1>2, <2>2, OneMoves DEF KindsMatch, RowsKept
  <2> QED  BY <2>1, <2>2
<1> QED  BY <1>2 DEF KindsMatch

LEMMA KindsNext ==
  ASSUME IInv, AllOrdered, KindsMatch, [Next]_vars
  PROVE  KindsMatch'
<1>0. RowsKept
  BY RowsStay
<1>1. CASE UNCHANGED request
  <2>1. \A g \in Requests : request[g].op \in Redeeming => request[g].id \in DOMAIN rows
    BY DEF IInv, PlansKept, Planned
  <2> QED  BY <1>0, <1>1, <2>1 DEF KindsMatch, RowsKept
<1>2. ASSUME NEW h \in Requests, NEW c \in Customers,
             \/ Register(h, c)
             \/ Purchase(h, c)
             \/ \E status \in {"active", "deactivated"} :
                  ChangeStatus(h, c, status)
      PROVE  KindsMatch'
  <2>1. \E q \in Request : Becomes(h, q) /\ q.op \notin Redeeming
    BY <1>2, RegisterMoves, PurchaseMoves, ChangeStatusMoves DEF Redeeming
  <2> QED  BY <1>0, <2>1, KindsMoves
<1>3. ASSUME NEW h \in Requests, NEW op \in Redeeming, NEW i \in DOMAIN rows,
             NEW via \in Channels, Redeem(h, op, i, via)
      PROVE  KindsMatch'
  <2>1. PICK q \in Request : Becomes(h, q) /\ q.op = op /\ q.id = i
    BY <1>3, RedeemMoves
  <2>2. rows[i].kind \in Kinds(op)
    BY <1>3 DEF Redeem
  <2> QED  BY <1>0, <2>1, <2>2, KindsMoves
<1>4. ASSUME NEW h \in Requests, Proceeds(h)
      PROVE  KindsMatch'
  <2> DEFINE r == request[h]
  <2>1. \E q \in Request :
          Becomes(h, q) /\ (q = Idle \/ (q.op = r.op /\ q.id = r.id))
    <3>1. CASE \/ SaveCustomer(h) \/ PortalUser(h) \/ SendLink(h)
               \/ SaveOtp(h) \/ Use(h) \/ SaveSetup(h)
               \/ SaveLinked(h) \/ UseParent(h) \/ SaveTotals(h)
      <4>1. \E step \in Step : At(h, step) /\ Becomes(h, Rest(r))
        BY <3>1 DEF SaveCustomer, PortalUser, SendLink, SaveOtp, Use,
           SaveSetup, SaveLinked, UseParent, SaveTotals, Step
      <4>2. \A step \in Step : step # "none"
        BY DEF Step
      <4> QED  BY <4>1, <4>2, GoesOn DEF Same
    <3>2. CASE \/ Find(h) \/ FindOtp(h) \/ FindUser(h) \/ GetUser(h)
               \/ SaveUser(h) \/ SaveStatus(h)
      BY <3>2, FindMoves, FindOtpMoves, FindUserMoves, GetUserMoves,
         SaveUserMoves, SaveStatusMoves DEF Same
    <3>3. CASE FindCustomer(h)
      BY <3>3, FindCustomerMoves
    <3> QED  BY <1>4, <3>1, <3>2, <3>3 DEF Proceeds
  <2> QED  BY <1>0, <2>1, IdleRests, KindsMoves DEF Redeeming
<1>5. ASSUME NEW h \in Requests, Raise(h)
      PROVE  KindsMatch'
  <2>1. Becomes(h, Idle)
    BY <1>5 DEF Raise
  <2> QED  BY <1>0, <2>1, IdleRests, KindsMoves DEF Redeeming
<1>6. ASSUME NEW i \in 1 .. MaxRows, Expire(i)  PROVE KindsMatch'
  BY <1>1, <1>6 DEF Expire
<1>7. CleanUp => KindsMatch'
  BY <1>1 DEF CleanUp
<1> QED  BY <1>1, <1>2, <1>3, <1>4, <1>5, <1>6, <1>7 DEF Next, vars, Redeeming

\* Nobody but c was registered with the address.
OnlyKnown(c) == \A d \in Customers : customer[d].status # "none" => d = c

\* The customer was registered and activated, by createPassword or by staff.
Activated(c) == customer[c].status \notin {"none", "pending"}

\* A link or setup token is used when nobody waits for it any more.
TokensLast(c) ==
  /\ \A i \in DOMAIN rows :
       rows[i].kind # "otp" /\ rows[i].isUsed => Activated(c)
  /\ \A h \in Requests :
       request[h].op = "password" /\ Now(request[h]) \in {"use", "useParent"} =>
         Activated(c)

\* Steps that mark no token.
LEMMA TokensMoves ==
  ASSUME IInv, NEW c \in Customers, TokensLast(c),
         NEW h \in Requests, NEW q \in Request, Becomes(h, q),
         Activated(c) => Activated(c)',
         RowsKept,
         \A i \in DOMAIN rows' : rows'[i].kind # "otp" /\ rows'[i].isUsed =>
           Activated(c)' \/ (i \in DOMAIN rows /\ rows[i].isUsed),
         q.op = "password" /\ Now(q) \in {"use", "useParent"} => Activated(c)'
  PROVE  TokensLast(c)'
<1>1. ASSUME NEW i \in DOMAIN rows', rows'[i].kind # "otp", rows'[i].isUsed
      PROVE  Activated(c)'
  BY <1>1 DEF TokensLast, RowsKept
<1>2. ASSUME NEW g \in Requests, request'[g].op = "password",
             Now(request'[g]) \in {"use", "useParent"}
      PROVE  Activated(c)'
  BY <1>2, OneMoves DEF TokensLast
<1>3. \A g \in Requests :
        (request[g].op = "password" /\ Now(request[g]) \in {"use", "useParent"})'
          => Activated(c)'
  BY <1>2 DEF Now
<1> QED  BY <1>1, <1>3 DEF TokensLast

LEMMA TokensUse ==
  ASSUME IInv, AllOrdered, KindsMatch, RowsKept,
         NEW c \in Customers, TokensLast(c), NEW h \in Requests, Use(h),
         request[h].op # "account"
  PROVE  TokensLast(c)'
<1> DEFINE r == request[h]
<1>1. PICK q \in Request :
        /\ Becomes(h, q) /\ Now(r) = "use"
        /\ q = Idle \/ Same(r, q)
  BY GoesOn DEF Use
<1>2. r.plan # <<>> /\ r \in Request /\ Ordered(r) /\ Planned(r)
  BY DEF Use, At, IInv, TypeOK, PlansKept, AllOrdered
<1>3. r.op \in {"verify", "password"}
  BY <1>1, <1>2, OrderedSteps
<1>4. UNCHANGED customer
  BY DEF Use
<1>5. /\ DOMAIN rows' = DOMAIN rows
      /\ \A i \in DOMAIN rows : i # r.id => rows'[i] = rows[i]
  BY DEF Use
<1>6. Activated(c) => Activated(c)'
  BY <1>4 DEF Activated
<1>7. CASE r.op = "verify"
  <2>1. rows[r.id].kind = "otp" /\ r.id \in DOMAIN rows
    BY <1>2, <1>7 DEF KindsMatch, Kinds, Redeeming, Planned
  <2>2. rows'[r.id].kind = "otp"
    BY <2>1 DEF RowsKept
  <2>3. q.op # "password"
    BY <1>1, <1>7, IdleRests DEF Same
  <2> QED  BY <1>1, <1>5, <1>6, <2>2, <2>3, TokensMoves
<1>8. CASE r.op = "password"
  <2>1. Activated(c)'
    BY <1>1, <1>6, <1>8 DEF TokensLast
  <2> QED  BY <1>1, <2>1, TokensMoves
<1> QED  BY <1>3, <1>7, <1>8

LEMMA TokensProceeds ==
  ASSUME IInv, AllOrdered, TotalsInv, KindsMatch, RowsKept,
         NEW c \in Customers, TokensLast(c), OnlyKnown(c), OnlyKnown(c)',
         NEW h \in Requests, Proceeds(h),
         request[h].op \in Chain
  PROVE  TokensLast(c)'
<1> DEFINE r == request[h]
<1>1. CASE SaveCustomer(h)
  <2>1. Copied(r) /\ r.customer \in Customers /\ Now(r) = "saveCustomer"
        /\ r.op = "register"
    BY <1>1, Saving DEF SaveCustomer, Step
  <2>2. Activated(c) => Activated(c)'
    <3>1. CASE r.customer = c
      BY <2>1, <3>1 DEF Copied, Activated
    <3>2. CASE r.customer # c
      BY <1>1, <3>2 DEF SaveCustomer, Activated, IInv, TypeOK
    <3> QED  BY <3>1, <3>2
  <2>3. PICK q \in Request : Becomes(h, q) /\ (q = Idle \/ Same(r, q))
    BY <1>1, GoesOn DEF SaveCustomer
  <2>4. q.op # "password"
    BY <2>1, <2>3, IdleRests DEF Same
  <2>5. UNCHANGED rows
    BY <1>1 DEF SaveCustomer
  <2> QED  BY <2>2, <2>3, <2>4, <2>5, TokensMoves
<1>2. CASE PortalUser(h) \/ SendLink(h) \/ SaveOtp(h) \/ SaveSetup(h)
  <2>1. PICK step \in {"portal", "link", "saveOtp", "saveSetup"} :
          At(h, step) /\ Becomes(h, Rest(r))
    BY <1>2 DEF PortalUser, SendLink, SaveOtp, SaveSetup
  <2>2. PICK q \in Request :
          Becomes(h, q) /\ Now(r) = step /\ (q = Idle \/ Same(r, q))
    BY <2>1, GoesOn
  <2>3. r.op # "password"
    <3>1. r \in Request /\ Ordered(r) /\ r.plan # <<>>
      BY <2>1 DEF At, IInv, TypeOK, AllOrdered
    <3> QED  BY <2>2, <3>1, OrderedSteps
  <2>4. q.op # "password"
    BY <2>2, <2>3, IdleRests DEF Same
  <2>5. Activated(c) => Activated(c)'
    BY <1>2 DEF PortalUser, SendLink, SaveOtp, SaveSetup, Activated
  <2>6. \A i \in DOMAIN rows' : rows'[i].isUsed =>
          i \in DOMAIN rows /\ rows[i].isUsed
    <3>1. CASE PortalUser(h)
      BY <3>1 DEF PortalUser
    <3>2. CASE SendLink(h)
      BY <3>2, Appended DEF SendLink, Row
    <3>3. CASE SaveOtp(h)
      BY <3>3, Appended DEF SaveOtp, Row
    <3>4. CASE SaveSetup(h)
      BY <3>4, Appended DEF SaveSetup, Row
    <3> QED  BY <1>2, <3>1, <3>2, <3>3, <3>4
  <2> QED  BY <2>2, <2>4, <2>5, <2>6, TokensMoves
<1>3. CASE Find(h) \/ FindOtp(h) \/ FindUser(h) \/ GetUser(h) \/ SaveUser(h)
  <2>1. UNCHANGED <<customer, rows>>
    BY <1>3 DEF Find, FindOtp, FindUser, GetUser, SaveUser
  <2>2. PICK q \in Request :
          /\ Becomes(h, q)
          /\ q.op = "password" => Now(q) \notin {"use", "useParent"}
    <3>1. CASE Find(h)
      BY <3>1, FindMoves, IdleRests
    <3>2. CASE FindOtp(h)
      BY <3>2, FindOtpMoves, IdleRests DEF Same
    <3>3. CASE FindUser(h)
      BY <3>3, FindUserMoves
    <3>4. CASE GetUser(h)
      BY <3>4, GetUserMoves
    <3>5. CASE SaveUser(h)
      BY <3>5, SaveUserMoves, IdleRests
    <3> QED  BY <1>3, <3>1, <3>2, <3>3, <3>4, <3>5
  <2> QED  BY <2>1, <2>2, TokensMoves DEF Activated
<1>4. CASE Use(h)
  BY <1>4, TokensUse DEF Chain
<1>5. CASE FindCustomer(h)
  <2>1. UNCHANGED <<customer, rows>>
    BY <1>5 DEF FindCustomer
  <2>2. PICK q \in Request, d \in Customers :
          /\ Becomes(h, q) /\ customer[d].status # "none"
          /\ customer[d].status # "active" => Now(q) = "saveLinked"
    BY <1>5, FindCustomerMoves
  <2>3. customer[d].status = "active" => Activated(c)'
    BY <2>1, <2>2 DEF OnlyKnown, Activated
  <2> QED  BY <2>1, <2>2, <2>3, TokensMoves DEF Activated
<1>6. CASE SaveLinked(h)
  <2>1. Copied(r) /\ Now(r) = "saveLinked"
    BY <1>6, Saving DEF SaveLinked, Step
  <2>2. r.customer \in Customers
    BY <2>1 DEF Copied
  <2>3. customer'[r.customer].status = "active"
    <3>1. r.entity \in Customer
      BY DEF IInv, TypeOK, Request
    <3> QED  BY <1>6, <2>2, <3>1 DEF SaveLinked, IInv, TypeOK, Customer
  <2>4. Activated(c)'
    BY <2>2, <2>3 DEF OnlyKnown, Activated
  <2>5. \E q \in Request : Becomes(h, q)
    BY <1>6, GoesOn DEF SaveLinked
  <2> QED  BY <2>4, <2>5, TokensMoves
<1>7. CASE UseParent(h)
  <2>1. At(h, "useParent") /\ UNCHANGED customer
    BY <1>7 DEF UseParent
  <2>2. Now(r) = "useParent" /\ r.op = "password"
    <3>1. r \in Request /\ Ordered(r) /\ r.plan # <<>> /\ Now(r) = "useParent"
      BY <2>1 DEF At, Now, IInv, TypeOK, AllOrdered
    <3> QED  BY <3>1, OrderedSteps
  <2>3. Activated(c)'
    BY <2>1, <2>2 DEF TokensLast, Activated
  <2>4. \E q \in Request : Becomes(h, q)
    BY <1>7, GoesOn DEF UseParent
  <2> QED  BY <2>3, <2>4, TokensMoves
<1>8. CASE SaveStatus(h)
  BY <1>8, SaveStatusMoves DEF Chain
<1>9. CASE SaveTotals(h)
  BY <1>9, Saving DEF SaveTotals, Step, Chain
<1> QED  BY <1>1, <1>2, <1>3, <1>4, <1>5, <1>6, <1>7, <1>8, <1>9 DEF Proceeds

LEMMA TokensNext ==
  ASSUME MCInv, TotalsInv, KindsMatch,
         NEW c \in Customers, TokensLast(c), OnlyKnown(c), OnlyKnown(c)',
         scenario = "failing", [Next]_vars
  PROVE  TokensLast(c)'
<1>0. IInv /\ AllOrdered /\ RowsKept
  BY RowsStay DEF MCInv
<1>1. ASSUME NEW h \in Requests, NEW d \in Customers,
             \/ Register(h, d)
             \/ Purchase(h, d)
             \/ \E status \in {"active", "deactivated"} :
                  ChangeStatus(h, d, status)
      PROVE  TokensLast(c)'
  <2>1. UNCHANGED <<customer, rows>>
    BY <1>1 DEF Register, Purchase, ChangeStatus
  <2>2. \E q \in Request : Becomes(h, q) /\ q.op # "password"
    BY <1>0, <1>1, RegisterMoves, PurchaseMoves, ChangeStatusMoves
  <2> QED  BY <1>0, <2>1, <2>2, TokensMoves DEF Activated
<1>2. ASSUME NEW h \in Requests,
             \E op \in Redeeming, i \in DOMAIN rows, via \in Channels :
               Redeem(h, op, i, via)
      PROVE  TokensLast(c)'
  <2>1. UNCHANGED <<customer, rows>>
    BY <1>2 DEF Redeem
  <2>2. \E q \in Request : Becomes(h, q) /\ Now(q) = "find"
    BY <1>0, <1>2, RedeemMoves
  <2> QED  BY <1>0, <2>1, <2>2, TokensMoves DEF Activated
<1>3. ASSUME NEW h \in Requests, Proceeds(h)
      PROVE  TokensLast(c)'
  <2>1. request[h] # Idle
    <3>1. request[h].plan # <<>>
      BY <1>3 DEF Proceeds, SaveCustomer, PortalUser, SendLink, Find, SaveOtp,
         FindOtp, Use, SaveSetup, FindUser, GetUser, SaveUser, FindCustomer,
         SaveLinked, UseParent, SaveStatus, SaveTotals, At
    <3> QED  BY <3>1, IdleRests
  <2>2. Only(Chain)
    BY DEF MCInv, Within
  <2>3. request[h].op \in Chain
    BY <2>1, <2>2 DEF Only, InFlight
  <2> QED  BY <1>0, <1>3, <2>3, TokensProceeds
<1>4. ASSUME NEW h \in Requests, Raise(h)
      PROVE  TokensLast(c)'
  <2>1. UNCHANGED <<customer, rows>> /\ Becomes(h, Idle)
    BY <1>4 DEF Raise
  <2> QED  BY <1>0, <2>1, IdleRests, TokensMoves DEF Activated
<1>5. ASSUME UNCHANGED <<customer, request>>,
             \A i \in DOMAIN rows' : rows'[i].isUsed =>
               i \in DOMAIN rows /\ rows[i].isUsed
      PROVE  TokensLast(c)'
  BY <1>0, <1>5 DEF TokensLast, Activated, RowsKept
<1>6. ASSUME NEW i \in 1 .. MaxRows, Expire(i)  PROVE TokensLast(c)'
  <2>1. \A j \in DOMAIN rows : rows[j] \in Challenge
    BY <1>0 DEF IInv, TypeOK
  <2>2. rows' = [rows EXCEPT ![i].expired = TRUE] /\ UNCHANGED <<customer, request>>
    BY <1>6 DEF Expire
  <2>3. \A j \in DOMAIN rows' : rows'[j].isUsed => j \in DOMAIN rows /\ rows[j].isUsed
    BY <2>1, <2>2 DEF Challenge
  <2> QED  BY <1>5, <2>2, <2>3
<1>7. ASSUME CleanUp  PROVE TokensLast(c)'
  <2>1. \A j \in DOMAIN rows : rows[j] \in Challenge
    BY <1>0 DEF IInv, TypeOK
  <2>2. \A j \in DOMAIN rows' : rows'[j].isUsed => j \in DOMAIN rows /\ rows[j].isUsed
    BY <1>7, <2>1 DEF CleanUp, Challenge
  <2> QED  BY <1>5, <1>7, <2>2 DEF CleanUp
<1>8. ASSUME UNCHANGED vars  PROVE TokensLast(c)'
  BY <1>5, <1>8 DEF vars
<1>9. CASE Next
  BY <1>1, <1>2, <1>3, <1>4, <1>6, <1>7, <1>9 DEF Next, Redeeming
<1> QED  BY <1>8, <1>9

\* A customer who was registered stays so.
LEMMA StaysKnown ==
  ASSUME IInv, AllOrdered, TotalsInv, [Next]_vars,
         NEW c \in Customers, customer[c].status # "none"
  PROVE  customer'[c].status # "none"
<1>1. ASSUME NEW d \in Customers, NEW row, row.status # "none",
             customer' = [customer EXCEPT ![d] = row]
      PROVE  customer'[c].status # "none"
  BY <1>1 DEF IInv, TypeOK
<1>2. ASSUME UNCHANGED customer  PROVE customer'[c].status # "none"
  BY <1>2
<1>3. ASSUME NEW h \in Requests, Proceeds(h)
      PROVE  customer'[c].status # "none"
  <2> DEFINE r == request[h]
  <2>1. r.entity \in Customer
    BY DEF IInv, TypeOK, Request
  <2>2. CASE SaveCustomer(h)
    <3>1. r.customer \in Customers
      BY <2>2, Saving DEF SaveCustomer, Step
    <3> QED  BY <1>1, <2>2, <3>1 DEF SaveCustomer
  <2>3. CASE SaveLinked(h)
    <3>1. r.customer \in Customers
      BY <2>3, Saving DEF SaveLinked, Step, Copied
    <3>2. [r.entity EXCEPT !.status = "active"].status = "active"
      BY <2>1 DEF Customer
    <3> QED  BY <1>1, <2>3, <3>1, <3>2 DEF SaveLinked
  <2>4. CASE SaveStatus(h)
    <3>1. r.customer \in Customers /\ r.entity.status # "none"
      BY <2>4, Saving DEF SaveStatus, Step, Copied
    <3> QED  BY <1>1, <2>4, <3>1 DEF SaveStatus
  <2>5. CASE SaveTotals(h)
    <3>1. r.customer \in Customers /\ r.entity.status # "none"
      BY <2>5, Saving DEF SaveTotals, Step, Copied
    <3>2. [r.entity EXCEPT !.totals = @ + 1].status = r.entity.status
      BY <2>1 DEF Customer
    <3> QED  BY <1>1, <2>5, <3>1, <3>2 DEF SaveTotals
  <2>6. CASE ~(\/ SaveCustomer(h) \/ SaveLinked(h)
               \/ SaveStatus(h) \/ SaveTotals(h))
    BY <1>2, <1>3, <2>6
       DEF Proceeds, PortalUser, SendLink, Find, SaveOtp, FindOtp, Use,
           SaveSetup, FindUser, GetUser, SaveUser, FindCustomer, UseParent
  <2> QED  BY <2>2, <2>3, <2>4, <2>5, <2>6
<1>4. CASE Next
  BY <1>2, <1>3, <1>4
     DEF Next, Register, Purchase, ChangeStatus, Redeem, Raise, Expire, CleanUp
<1> QED  BY <1>2, <1>4 DEF vars

LEMMA KnownBefore ==
  ASSUME IInv, AllOrdered, TotalsInv, [Next]_vars, NEW c \in Customers,
         OnlyKnown(c)'
  PROVE  OnlyKnown(c)
BY StaysKnown DEF OnlyKnown

\* What NobodyStranded rests on.
StrandedInv ==
  /\ TotalsInv /\ KindsMatch
  /\ scenario = "failing" =>
       \A c \in Customers : OnlyKnown(c) => TokensLast(c)

LEMMA StrandedInit == MCInit => StrandedInv
BY TotalsInit, IdleRests
   DEF MCInit, Init, StrandedInv, KindsMatch, TokensLast, Redeeming

LEMMA StrandedNext ==
  MCInv /\ StrandedInv /\ [MCNext]_<<vars, scenario>> => StrandedInv'
<1> SUFFICES ASSUME MCInv, StrandedInv, [MCNext]_<<vars, scenario>>
             PROVE  StrandedInv'
  OBVIOUS
<1>1. UNCHANGED scenario /\ [Next]_vars /\ IInv /\ AllOrdered
  BY DEF MCInv, MCNext
<1>2. TotalsInv /\ KindsMatch
  BY DEF StrandedInv
<1>3. TotalsInv' /\ KindsMatch'
  BY <1>1, <1>2, TotalsNext, KindsNext
<1>4. ASSUME scenario = "failing", NEW c \in Customers, OnlyKnown(c)'
      PROVE  TokensLast(c)'
  <2>1. OnlyKnown(c)
    BY <1>1, <1>2, <1>4, KnownBefore
  <2>2. TokensLast(c)
    BY <1>4, <2>1 DEF StrandedInv
  <2> QED  BY <1>1, <1>2, <1>4, <2>1, <2>2, TokensNext
<1> QED  BY <1>1, <1>3, <1>4 DEF StrandedInv

\* As long as nobody else was registered with his address, whoever waits for
\* his activation has a token that was not used, wherever requests failed.
\* The argument: createPassword makes the customer active before it marks its
\* tokens, and verifyActivationOtp marks OTPs only; so the link, the first
\* challenge, is unused while the customer waits.  Of two customers with one
\* address, activateLinkedCustomer may find the wrong one.
THEOREM NobodyStranded == MCSpec => []NotStrandedInChain
<1>1. MCInv /\ StrandedInv => NotStrandedInChain
  <2> SUFFICES ASSUME MCInv, StrandedInv, scenario = "failing", Sole,
                      rows # <<>>,
                      NEW c \in Customers, customer[c].status = "pending"
               PROVE  \E i \in DOMAIN rows : rows[i].kind # "otp" /\ ~rows[i].isUsed
    BY DEF NotStrandedInChain, NotStranded
  <2>1. 1 \in DOMAIN rows /\ rows[1].parent \in 0 .. 1 - 1
        /\ rows[1] \in Challenge
    BY DEF MCInv, IInv, TypeOK
  <2>2. rows[1].kind = "link"
    BY <2>1 DEF MCInv, IInv, RowsLinked
  <2>3. TokensLast(c)
    <3>1. OnlyKnown(c)
      BY DEF Sole, OnlyKnown
    <3> QED  BY <3>1 DEF StrandedInv
  <2>4. ~rows[1].isUsed
    BY <2>1, <2>2, <2>3 DEF TokensLast, Activated
  <2> QED  BY <2>1, <2>2, <2>4
<1> QED  BY <1>1, InitMCInv, NextMCInv, StrandedInit, StrandedNext, PTL
         DEF MCSpec

-----------------------------------------------------------------------------
(* Turns                                                                   *)

\* The request in flight, in turns.
Turn == IF Quiet THEN Idle ELSE request[CHOOSE h \in Requests : request[h] # Idle]

\* In turns a step is the turn's.
LEMMA TurnMoves ==
  ASSUME IInv, InTurns, InTurns', NEW h \in Requests, NEW q \in Request,
         Becomes(h, q), request[h] # Idle \/ q # Idle
  PROVE  Turn = request[h] /\ Turn' = q
<1>1. /\ request'[h] = q
      /\ \A g \in Requests : g # h => request'[g] = request[g]
  BY OneMoves
<1>2. \A g \in Requests : g # h => request[g] = Idle
  <2> SUFFICES ASSUME NEW g \in Requests, g # h, request[g] # Idle  PROVE FALSE
    OBVIOUS
  <2>1. CASE request[h] # Idle
    BY <2>1, Alone
  <2>2. CASE q # Idle
    <3> DEFINE s == CHOOSE f \in Requests : TRUE
    <3>1. InFlight' \subseteq {s}
      BY DEF InTurns
    <3> HIDE DEF s
    <3>2. g \in InFlight' /\ h \in InFlight'
      BY <1>1, <2>2 DEF InFlight
    <3> QED  BY <3>1, <3>2
  <2> QED  BY <2>1, <2>2
<1>3. Turn = request[h]
  <2>1. CASE request[h] = Idle
    BY <1>2, <2>1 DEF Turn, Quiet
  <2>2. CASE request[h] # Idle
    <3> DEFINE s == CHOOSE f \in Requests : request[f] # Idle
    <3>1. s \in Requests /\ request[s] # Idle
      BY <2>2
    <3>2. Turn = request[s]
      BY <2>2 DEF Turn, Quiet
    <3> HIDE DEF s
    <3> QED  BY <1>2, <3>1, <3>2
  <2> QED  BY <2>1, <2>2
<1>4. Turn' = q
  <2>1. CASE q = Idle
    <3>1. \A f \in Requests : request'[f] = Idle
      BY <1>1, <1>2, <2>1
    <3> QED  BY <2>1, <3>1 DEF Turn, Quiet
  <2>2. CASE q # Idle
    <3> DEFINE s == CHOOSE f \in Requests : request'[f] # Idle
    <3>1. s \in Requests /\ request'[s] # Idle
      BY <1>1, <2>2
    <3>2. Turn' = request'[s]
      BY <1>1, <2>2 DEF Turn, Quiet
    <3> HIDE DEF s
    <3> QED  BY <1>1, <1>2, <3>1, <3>2
  <2> QED  BY <2>1, <2>2
<1> QED  BY <1>3, <1>4

LEMMA TurnStays == UNCHANGED request => UNCHANGED Turn
BY DEF Turn, Quiet

-----------------------------------------------------------------------------
(* The two rows agree                                                      *)

Midway == {"getUser", "saveUser", "findCustomer", "saveLinked"}

\* The customer's status and the user's.
Agree(e, u) ==
  /\ e.status = "active" => u.status = "active"
  /\ e.status = "deactivated" => u.status # "active"

\* What the request r, whose turn it is, makes of a customer e and a user u:
\* it makes them agree again before it ends.  createPassword will have made
\* the user active before it makes the customer so; changeCustomerStatus
\* gives the user the status the customer just got.
Settled(r, e, u) ==
  /\ e.status = "none" \/ u.status # "none" \/ Now(r) = "portal"
  /\ Now(r) \in {"portal", "link"} => e.status = "pending"
  /\ Now(r) = "saveUser" => r.user = u
  /\ r.op = "password" =>
       /\ Now(r) \in {"getUser", "saveUser"} =>
            /\ u.status = "active" \/ Yet(r.edits, "activate")
            /\ ~Yet(r.edits, "sync")
       /\ Now(r) \in {"findCustomer", "saveLinked", "use", "useParent"} =>
            u.status = "active"
       /\ Now(r) \in {"use", "useParent"} => e.status = "active"
  /\ r.op = "status" =>
       /\ r.entity.status \in {"active", "deactivated"}
       /\ e.status # "none"
       /\ Now(r) \in {"getUser", "saveUser"} =>
            e = r.entity /\ r.edits = <<"sync">>
  /\ r.op = "purchase" => r.entity = e /\ e.status = "active"
  /\ ~(r.op \in {"password", "status"} /\ Now(r) \in Midway) => Agree(e, u)

Agreeing(c) == Settled(Turn, customer[c], user)

-----------------------------------------------------------------------------
(* A closed account stays closed                                           *)

\* createPassword between its first save of the user and its last step.
Exempt(r) == r.op = "password" /\ Now(r) \in Midway \union {"use", "useParent"}

\* There is one link, the first challenge, and the others belong to it; once
\* a password is set and its request done, the link is used.
Rooted(c, r) ==
  /\ \A i \in DOMAIN rows :
       IF rows[i].kind = "link" THEN i = 1 ELSE rows[i].parent = 1
  /\ customer[c].status = "none" \/ Now(r) \in {"portal", "link"} => rows = <<>>
  /\ user.password => rows # <<>>
  /\ user.password => rows[1].isUsed \/ Exempt(r)

\* Nothing that is in flight or could begin opens a closed account.
Locked(c, r) ==
  /\ customer[c].status = "deactivated"
  /\ \A i \in DOMAIN rows : rows[i].kind # "otp" => ~Open(i)
  /\ user.password
  /\ r.op \in Redeeming => Now(r) = "find"
  /\ r.op = "status" => r.entity.status = "deactivated"

Closing(c) == Rooted(c, Turn) /\ (c \in closed => Locked(c, Turn))

\* What staff's scenario grants: turns, no failing call, no activateAccount.
InStaff ==
  MCInv /\ MCInv' /\ TotalsInv /\ scenario = "staff" /\ UNCHANGED scenario

LEMMA StaffGrants ==
  ASSUME InStaff
  PROVE  /\ IInv /\ AllOrdered /\ InTurns /\ InTurns' /\ IInv'
         /\ faults' = 0
         /\ \A h \in Requests : request[h].op # "account"
         /\ \A h \in Requests : request'[h].op # "account"
<1>1. /\ IInv /\ AllOrdered /\ InTurns /\ InTurns' /\ IInv'
      /\ faults' = 0 /\ Only(Operations \ {"account"})
  BY DEF InStaff, MCInv, Within
<1>2. \A h \in InFlight' : request'[h].op \in Operations \ {"account"}
  BY DEF InStaff, MCInv, Within, Only
<1> QED  BY <1>1, <1>2, IdleRests DEF Only, InFlight

\* A step leads from one agreement to another.
LEMMA SettledMoves ==
  ASSUME InStaff, NEW c \in Customers, Agreeing(c),
         NEW h \in Requests, NEW q \in Request,
         Becomes(h, q), request[h] # Idle \/ q # Idle,
         Settled(request[h], customer[c], user) =>
           Settled(q, customer'[c], user')
  PROVE  Agreeing(c)'
<1>1. Turn = request[h] /\ Turn' = q
  BY StaffGrants, TurnMoves
<1>2. Settled(q, customer'[c], user')
  BY <1>1 DEF Agreeing
<1> QED  BY <1>1, <1>2 DEF Agreeing

\* Neither row is written.
LEMMA SettledQuietly ==
  ASSUME InStaff, NEW c \in Customers, Agreeing(c),
         NEW h \in Requests, NEW q \in Request,
         Becomes(h, q), request[h] # Idle \/ q # Idle,
         UNCHANGED <<customer, user>>,
         Settled(request[h], customer[c], user) =>
           Settled(q, customer[c], user)
  PROVE  Agreeing(c)'
BY SettledMoves

\* A row is saved for the one customer there is.
LEMMA OnlyRow ==
  ASSUME IInv, NEW c \in Customers, OnlyKnown(c)', NEW d \in Customers,
         NEW row, row.status # "none",
         customer' = [customer EXCEPT ![d] = row]
  PROVE  d = c /\ customer'[c] = row
BY DEF OnlyKnown, IInv, TypeOK

LEMMA SettledSaveCustomer ==
  ASSUME InStaff, NEW c \in Customers, Agreeing(c), OnlyKnown(c)',
         NEW h \in Requests, SaveCustomer(h)
  PROVE  Agreeing(c)'
<1> DEFINE r == request[h]
           row == [status |-> "pending", totals |-> 0]
<1>1. Now(r) = "saveCustomer" /\ r.op = "register" /\ r # Idle
      /\ r.customer \in Customers
  BY StaffGrants, Saving DEF SaveCustomer, Step, InStaff
<1>2. PICK q \in Request : Becomes(h, q) /\ Same(r, q) /\ Now(q) = "portal"
  BY <1>1, StaffGrants, GoesOn DEF SaveCustomer, After
<1>3. /\ customer' = [customer EXCEPT ![r.customer] = row] /\ UNCHANGED user
  BY DEF SaveCustomer
<1>4. row.status = "pending"
  OBVIOUS
<1> HIDE DEF row
<1>5. customer'[c] = row
  BY <1>1, <1>3, <1>4, StaffGrants, OnlyRow
<1>6. Settled(q, customer'[c], user')
  BY <1>1, <1>2, <1>4, <1>5 DEF Settled, Agree, Same
<1> QED  BY <1>1, <1>2, <1>6, SettledMoves

LEMMA SettledPortalUser ==
  ASSUME InStaff, NEW c \in Customers, Agreeing(c),
         NEW h \in Requests, PortalUser(h)
  PROVE  Agreeing(c)'
<1> DEFINE r == request[h]
<1>1. PICK q \in Request :
        /\ Becomes(h, q) /\ Now(r) = "portal"
        /\ IF After(r.op, "portal") = "none" THEN q = Idle
           ELSE Same(r, q) /\ Now(q) = After(r.op, "portal")
  BY StaffGrants, GoesOn DEF PortalUser
<1>2. r.op = "register" /\ r # Idle
  BY <1>1, StaffGrants, OrderedSteps, IdleRests
     DEF PortalUser, At, AllOrdered, IInv, TypeOK
<1>3. Same(r, q) /\ Now(q) = "link"
  BY <1>1, <1>2 DEF After
<1>4. UNCHANGED customer /\ user'.status \in {"active", "pending"}
  BY StaffGrants DEF PortalUser, IInv, TypeOK, User
<1>5. Settled(r, customer[c], user) => Settled(q, customer'[c], user')
  BY <1>1, <1>2, <1>3, <1>4 DEF Settled, Agree, Same
<1> QED  BY <1>1, <1>2, <1>5, SettledMoves

\* Steps of registrations and of requests with OTPs.
LEMMA SettledElsewhere ==
  ASSUME InStaff, NEW c \in Customers, Agreeing(c),
         NEW h \in Requests,
         SendLink(h) \/ SaveOtp(h) \/ FindOtp(h) \/ SaveSetup(h)
  PROVE  Agreeing(c)'
<1> DEFINE r == request[h]
<1>1. UNCHANGED <<customer, user>>
  BY DEF SendLink, SaveOtp, FindOtp, SaveSetup
<1>2. PICK q \in Request :
        /\ Becomes(h, q)
        /\ Now(r) \in {"link", "saveOtp", "findOtp", "saveSetup"}
        /\ q = Idle \/ (Same(r, q) /\ r.op = "verify" /\ Now(q) = "use")
  <2>1. CASE SendLink(h) \/ SaveOtp(h) \/ SaveSetup(h)
    <3>1. PICK step \in {"link", "saveOtp", "saveSetup"} :
            At(h, step) /\ Becomes(h, Rest(r))
      BY <2>1 DEF SendLink, SaveOtp, SaveSetup
    <3>2. PICK q \in Request :
            /\ Becomes(h, q) /\ Now(r) = step
            /\ IF After(r.op, step) = "none" THEN q = Idle
               ELSE Same(r, q) /\ Now(q) = After(r.op, step)
      BY <3>1, StaffGrants, GoesOn
    <3>3. After(r.op, step) = "none"
      BY <3>1 DEF After
    <3> QED  BY <3>1, <3>2, <3>3
  <2>2. CASE FindOtp(h)
    BY <2>2, StaffGrants, FindOtpMoves
  <2> QED  BY <2>1, <2>2
<1>3. r # Idle
  BY <1>2, IdleRests
<1>4. ASSUME Settled(r, customer[c], user)
      PROVE  Settled(q, customer[c], user)
  <2>1. customer[c].status = "none" \/ user.status # "none"
    BY <1>2, <1>4 DEF Settled
  <2>2. Agree(customer[c], user)
    BY <1>2, <1>4 DEF Settled, Midway
  <2> QED  BY <1>2, <2>1, <2>2, IdleRests DEF Settled, Same, Midway
<1> QED  BY <1>1, <1>2, <1>3, <1>4, SettledQuietly

LEMMA SettledFind ==
  ASSUME InStaff, NEW c \in Customers, Agreeing(c),
         NEW h \in Requests, Find(h)
  PROVE  Agreeing(c)'
<1> DEFINE r == request[h]
<1>1. UNCHANGED <<customer, user>>
  BY DEF Find
<1>2. PICK q \in Request :
        /\ Becomes(h, q) /\ Now(r) = "find" /\ r.op \in Redeeming
        /\ \/ q = Idle
           \/ /\ Same(r, q)
              /\ q.op = "otp" => Now(q) = "saveOtp"
              /\ q.op = "verify" => Now(q) = "findOtp"
              /\ q.op \in {"password", "account"} => Now(q) = "findUser"
  BY StaffGrants, FindMoves
<1>3. r # Idle /\ (q = Idle \/ (Same(r, q) /\ Now(q) \in {"saveOtp", "findOtp", "findUser"}))
  BY <1>2, IdleRests DEF Same, Redeeming
<1>4. ASSUME Settled(r, customer[c], user)
      PROVE  Settled(q, customer[c], user)
  <2>1. customer[c].status = "none" \/ user.status # "none"
    BY <1>2, <1>4 DEF Settled
  <2>2. Agree(customer[c], user)
    BY <1>2, <1>4 DEF Settled, Midway
  <2> QED  BY <1>2, <1>3, <2>1, <2>2, IdleRests DEF Settled, Same, Midway, Redeeming
<1> QED  BY <1>1, <1>2, <1>3, <1>4, SettledQuietly

LEMMA SettledUse ==
  ASSUME InStaff, NEW c \in Customers, Agreeing(c),
         NEW h \in Requests, Use(h) \/ UseParent(h)
  PROVE  Agreeing(c)'
<1> DEFINE r == request[h]
<1>1. UNCHANGED <<customer, user>>
  BY DEF Use, UseParent
<1>2. PICK step \in {"use", "useParent"} : At(h, step) /\ Becomes(h, Rest(r))
  BY DEF Use, UseParent
<1>3. PICK q \in Request :
        /\ Becomes(h, q) /\ Now(r) = step
        /\ IF After(r.op, step) = "none" THEN q = Idle
           ELSE Same(r, q) /\ Now(q) = After(r.op, step)
  BY <1>2, StaffGrants, GoesOn
<1>4. r # Idle /\ r.op \in {"verify", "password"}
  <2>1. r \in Request /\ Ordered(r) /\ r.plan # <<>>
    BY <1>2, StaffGrants DEF At, IInv, TypeOK, AllOrdered
  <2> QED  BY <1>3, <2>1, OrderedSteps, StaffGrants, IdleRests
<1>5. q = Idle \/ (Same(r, q) /\ Now(q) \in {"saveSetup", "useParent"})
  BY <1>2, <1>3, <1>4 DEF After
<1>6. ASSUME Settled(r, customer[c], user)
      PROVE  Settled(q, customer[c], user)
  <2>1. customer[c].status = "none" \/ user.status # "none"
    BY <1>2, <1>3, <1>6 DEF Settled
  <2>2. Agree(customer[c], user)
    BY <1>2, <1>3, <1>6 DEF Settled, Midway
  <2>3. r.op = "password" => user.status = "active" /\ customer[c].status = "active"
    BY <1>2, <1>3, <1>6 DEF Settled
  <2> QED  BY <1>4, <1>5, <2>1, <2>2, <2>3, IdleRests DEF Settled, Same, Midway
<1> QED  BY <1>1, <1>3, <1>4, <1>6, SettledQuietly

LEMMA SettledFindUser ==
  ASSUME InStaff, NEW c \in Customers, Agreeing(c),
         NEW h \in Requests, FindUser(h)
  PROVE  Agreeing(c)'
<1> DEFINE r == request[h]
           via == rows[r.id].via
<1>1. UNCHANGED <<customer, user>>
  BY DEF FindUser
<1>2. PICK q \in Request :
        /\ Becomes(h, q) /\ Now(r) = "findUser" /\ Same(r, q)
        /\ r.op \in {"password", "account"}
        /\ q.edits = Edits(r.op, user, via)
        /\ IF q.edits = <<>> THEN q.op = "account" /\ Now(q) = "use"
                             ELSE Now(q) = "getUser"
  BY StaffGrants, FindUserMoves
<1>3. r.op = "password" /\ q.op = "password" /\ Now(q) = "getUser" /\ r # Idle
  BY <1>2, StaffGrants, IdleRests DEF Same
<1>4. /\ user.status = "active" \/ Yet(q.edits, "activate")
      /\ ~Yet(q.edits, "sync")
  BY <1>2, EditsMade
<1>5. ASSUME Settled(r, customer[c], user)
      PROVE  Settled(q, customer[c], user)
  <2>1. customer[c].status = "none" \/ user.status # "none"
    BY <1>2, <1>5 DEF Settled
  <2> QED  BY <1>3, <1>4, <2>1 DEF Settled, Midway
<1> QED  BY <1>1, <1>2, <1>3, <1>5, SettledQuietly

LEMMA SettledGetUser ==
  ASSUME InStaff, NEW c \in Customers, Agreeing(c),
         NEW h \in Requests, GetUser(h)
  PROVE  Agreeing(c)'
<1> DEFINE r == request[h]
<1>1. UNCHANGED <<customer, user>>
  BY DEF GetUser
<1>2. PICK q \in Request :
        /\ Becomes(h, q) /\ Now(r) = "getUser"
        /\ r.op \in {"password", "account", "status"}
        /\ Same(r, q) /\ q.edits = r.edits /\ q.user = user
        /\ Now(q) = "saveUser"
  BY StaffGrants, GetUserMoves
<1>3. r.op \in {"password", "status"} /\ r # Idle
  BY <1>2, StaffGrants, IdleRests
<1>4. ASSUME Settled(r, customer[c], user)
      PROVE  Settled(q, customer[c], user)
  BY <1>2, <1>3, <1>4 DEF Settled, Midway, Same
<1> QED  BY <1>1, <1>2, <1>3, <1>4, SettledQuietly

\* What a save makes of the user's status.
LEMMA EditedStatus ==
  ASSUME NEW u \in User, NEW e, NEW edit \in Edit
  PROVE  /\ edit = "activate" => Edited(edit, u, e).status = "active"
         /\ edit = "sync" =>
              Edited(edit, u, e).status =
                IF e.status = "active" THEN "active" ELSE "inactive"
         /\ edit \notin {"activate", "sync"} => Edited(edit, u, e).status = u.status
         /\ edit = "password" \/ Edited(edit, u, e).password = u.password
<1>1. CASE edit = "password"
  BY <1>1 DEF Edited, User
<1>2. CASE edit = "activate"
  BY <1>2 DEF Edited, User
<1>3. CASE edit = "email"
  BY <1>3 DEF Edited, User
<1>4. CASE edit = "phone"
  BY <1>4 DEF Edited, User
<1>5. CASE edit = "sync"
  BY <1>5 DEF Edited, User
<1> QED  BY <1>1, <1>2, <1>3, <1>4, <1>5 DEF Edit

\* In turns a save of the user changes what it is for, and nothing else.
LEMMA SavedUser ==
  ASSUME InStaff, NEW c \in Customers, Agreeing(c),
         NEW h \in Requests, SaveUser(h)
  PROVE  /\ request[h].edits \in Seq(Edit) /\ request[h].edits # <<>>
         /\ Head(request[h].edits) \in Edit
         /\ user \in User
         /\ user' = Edited(Head(request[h].edits), user, request[h].entity)
<1> DEFINE r == request[h]
           edit == Head(r.edits)
<1>1. Now(r) = "saveUser" /\ r.edits # <<>> /\ r # Idle
  BY StaffGrants, SaveUserMoves, IdleRests
<1>2. r \in Request /\ user \in User
  BY StaffGrants DEF IInv, TypeOK
<1>3. r.edits \in Seq(Edit) /\ edit \in Edit
  BY <1>1, <1>2 DEF Request
<1>4. Turn = r
  <2>1. \E q \in Request : Becomes(h, q)
    BY StaffGrants, SaveUserMoves
  <2> QED  BY <1>1, <2>1, StaffGrants, TurnMoves
<1>5. r.user = user
  BY <1>1, <1>4 DEF Agreeing, Settled
<1>6. [r.user EXCEPT !.password = user.password] = user
  BY <1>2, <1>5 DEF User
<1>7. user' = Edited(edit, [r.user EXCEPT !.password = user.password], r.entity)
  BY DEF SaveUser
<1> QED  BY <1>1, <1>2, <1>3, <1>6, <1>7

LEMMA SettledSaveUser ==
  ASSUME InStaff, NEW c \in Customers, Agreeing(c),
         NEW h \in Requests, SaveUser(h)
  PROVE  Agreeing(c)'
<1> DEFINE r == request[h]
           edit == Head(r.edits)
           left == Tail(r.edits)
<1>1. PICK q \in Request :
        /\ Becomes(h, q) /\ Now(r) = "saveUser"
        /\ r.op \in {"password", "account", "status"}
        /\ IF left = <<>> /\ r.op = "status" THEN q = Idle
           ELSE /\ Same(r, q) /\ q.edits = left
                /\ Now(q) = IF q.edits # <<>> THEN "getUser"
                            ELSE IF q.op = "password" THEN "findCustomer"
                            ELSE "use"
  BY StaffGrants, SaveUserMoves
<1>2. UNCHANGED customer /\ r # Idle /\ r.op \in {"password", "status"}
  BY <1>1, StaffGrants, IdleRests DEF SaveUser
<1>3. ASSUME Settled(r, customer[c], user)
      PROVE  Settled(q, customer[c], user')
  <2>1. /\ r.edits \in Seq(Edit) /\ r.edits # <<>> /\ edit \in Edit
        /\ user \in User /\ user' = Edited(edit, user, r.entity)
    BY <1>3, SavedUser
  <2>2. customer[c].status = "none" \/ user.status # "none"
    BY <1>1, <1>3 DEF Settled
  <2>3. /\ edit = "activate" => user'.status = "active"
        /\ edit = "sync" =>
             user'.status = IF r.entity.status = "active" THEN "active"
                                                           ELSE "inactive"
        /\ edit \notin {"activate", "sync"} => user'.status = user.status
    BY <2>1, EditedStatus
  <2>4. customer[c].status = "none" \/ user'.status # "none"
    BY <2>2, <2>3
  <2>5. CASE r.op = "password"
    <3>1. /\ user.status = "active" \/ Yet(r.edits, "activate")
          /\ ~Yet(r.edits, "sync")
      BY <1>1, <1>3, <2>5 DEF Settled
    <3>2. /\ edit # "sync" /\ ~Yet(left, "sync")
          /\ user.status = "active" \/ edit = "activate" \/ Yet(left, "activate")
      BY <2>1, <3>1, YetTail
    <3>3. user'.status = "active" \/ Yet(left, "activate")
      BY <2>3, <3>2
    <3>4. Same(r, q) /\ q.op = "password" /\ q.edits = left
          /\ Now(q) = IF left # <<>> THEN "getUser" ELSE "findCustomer"
      BY <1>1, <2>5 DEF Same
    <3>5. CASE left # <<>>
      BY <2>4, <3>2, <3>3, <3>4, <3>5 DEF Settled, Midway
    <3>6. CASE left = <<>>
      <4>1. user'.status = "active"
        BY <3>3, <3>6, YetOne
      <4> QED  BY <2>4, <3>4, <3>6, <4>1 DEF Settled, Midway
    <3> QED  BY <3>5, <3>6
  <2>6. CASE r.op = "status"
    <3>1. /\ r.edits = <<"sync">> /\ customer[c] = r.entity
          /\ r.entity.status \in {"active", "deactivated"}
      BY <1>1, <1>3, <2>6 DEF Settled
    <3>2. edit = "sync" /\ left = <<>>
      BY <3>1
    <3>3. q = Idle
      BY <1>1, <2>6, <3>2
    <3> QED  BY <2>3, <2>4, <3>1, <3>2, <3>3, IdleRests DEF Settled, Agree
  <2> QED  BY <1>2, <2>5, <2>6
<1> QED  BY <1>1, <1>2, <1>3, SettledMoves

LEMMA SettledFindCustomer ==
  ASSUME InStaff, NEW c \in Customers, Agreeing(c), OnlyKnown(c),
         NEW h \in Requests, FindCustomer(h)
  PROVE  Agreeing(c)'
<1> DEFINE r == request[h]
<1>1. UNCHANGED <<customer, user>>
  BY DEF FindCustomer
<1>2. PICK q \in Request, d \in Customers :
        /\ Becomes(h, q) /\ Now(r) = "findCustomer" /\ r.op = "password"
        /\ q.op = r.op /\ customer[d].status # "none"
        /\ IF customer[d].status = "active" THEN Now(q) = "use"
                                            ELSE Now(q) = "saveLinked"
  BY StaffGrants, FindCustomerMoves
<1>3. r # Idle
  BY <1>2, IdleRests
<1>4. ASSUME Settled(r, customer[c], user)
      PROVE  Settled(q, customer[c], user)
  <2>1. c = d
    BY <1>2 DEF OnlyKnown
  <2>2. user.status = "active"
    BY <1>2, <1>4 DEF Settled
  <2> QED  BY <1>2, <2>1, <2>2 DEF Settled, Agree, Midway
<1> QED  BY <1>1, <1>2, <1>3, <1>4, SettledQuietly

LEMMA SettledSaveLinked ==
  ASSUME InStaff, NEW c \in Customers, Agreeing(c), OnlyKnown(c)',
         NEW h \in Requests, SaveLinked(h)
  PROVE  Agreeing(c)'
<1> DEFINE r == request[h]
           row == [r.entity EXCEPT !.status = "active"]
<1>1. /\ Now(r) = "saveLinked" /\ Copied(r) /\ r.op = "password" /\ r # Idle
      /\ r \in Request
  BY StaffGrants, Saving DEF SaveLinked, Step, InStaff
<1>2. PICK q \in Request : Becomes(h, q) /\ Same(r, q) /\ Now(q) = "use"
  BY <1>1, StaffGrants, GoesOn DEF SaveLinked, After
<1>3. customer' = [customer EXCEPT ![r.customer] = row] /\ UNCHANGED user
  BY DEF SaveLinked
<1>4. row.status = "active"
  BY <1>1 DEF Request, Customer
<1> HIDE DEF row
<1>5. r.customer \in Customers
  BY <1>1 DEF Copied
<1>6. customer'[c] = row
  BY <1>3, <1>4, <1>5, StaffGrants, OnlyRow
<1>7. ASSUME Settled(r, customer[c], user)
      PROVE  Settled(q, customer'[c], user')
  <2>1. user'.status = "active"
    BY <1>1, <1>3, <1>7 DEF Settled
  <2> QED  BY <1>1, <1>2, <1>4, <1>6, <2>1 DEF Settled, Agree, Same
<1> QED  BY <1>1, <1>2, <1>7, SettledMoves

LEMMA SettledSaveStatus ==
  ASSUME InStaff, NEW c \in Customers, Agreeing(c), OnlyKnown(c)',
         NEW h \in Requests, SaveStatus(h)
  PROVE  Agreeing(c)'
<1> DEFINE r == request[h]
<1>1. /\ Now(r) = "saveStatus" /\ Copied(r) /\ r.op = "status" /\ r # Idle
  BY StaffGrants, Saving DEF SaveStatus, Step, InStaff
<1>2. PICK q \in Request :
        /\ Becomes(h, q)
        /\ IF user.status = "none" THEN q = Idle
           ELSE Same(r, q) /\ q.edits = <<"sync">> /\ Now(q) = "getUser"
  BY StaffGrants, SaveStatusMoves
<1>3. customer' = [customer EXCEPT ![r.customer] = r.entity] /\ UNCHANGED user
  BY DEF SaveStatus
<1>4. r.customer \in Customers
  BY <1>1 DEF Copied
<1>5. customer'[c] = r.entity
  BY <1>1, <1>3, <1>4, StaffGrants, OnlyRow DEF Copied
<1>6. ASSUME Settled(r, customer[c], user)
      PROVE  Settled(q, customer'[c], user')
  <2>1. /\ user.status # "none"
        /\ r.entity.status \in {"active", "deactivated"}
    BY <1>1, <1>6 DEF Settled
  <2>2. Same(r, q) /\ q.edits = <<"sync">> /\ Now(q) = "getUser"
    BY <1>2, <2>1
  <2> QED  BY <1>1, <1>3, <1>5, <2>1, <2>2 DEF Settled, Midway, Same
<1> QED  BY <1>1, <1>2, <1>6, SettledMoves

LEMMA SettledSaveTotals ==
  ASSUME InStaff, NEW c \in Customers, Agreeing(c), OnlyKnown(c)',
         NEW h \in Requests, SaveTotals(h)
  PROVE  Agreeing(c)'
<1> DEFINE r == request[h]
           row == [r.entity EXCEPT !.totals = @ + 1]
<1>1. /\ Now(r) = "saveTotals" /\ Copied(r) /\ r.op = "purchase" /\ r # Idle
      /\ r \in Request
  BY StaffGrants, Saving DEF SaveTotals, Step, InStaff
<1>2. PICK q \in Request : Becomes(h, q) /\ q = Idle
  BY <1>1, StaffGrants, GoesOn DEF SaveTotals, After
<1>3. customer' = [customer EXCEPT ![r.customer] = row] /\ UNCHANGED user
  BY DEF SaveTotals
<1>4. row.status = r.entity.status
  BY <1>1 DEF Request, Customer
<1> HIDE DEF row
<1>5. r.customer \in Customers
  BY <1>1 DEF Copied
<1>6. customer'[c] = row
  BY <1>1, <1>3, <1>4, <1>5, StaffGrants, OnlyRow DEF Copied
<1>7. ASSUME Settled(r, customer[c], user)
      PROVE  Settled(q, customer'[c], user')
  <2>1. /\ row.status = "active" /\ user.status # "none"
        /\ Agree(customer[c], user) /\ customer[c].status = "active"
    BY <1>1, <1>4, <1>7 DEF Settled
  <2> QED  BY <1>2, <1>3, <1>6, <2>1, IdleRests DEF Settled, Agree
<1> QED  BY <1>1, <1>2, <1>7, SettledMoves

\* Requests that begin find the rows in agreement.
LEMMA SettledBegins ==
  ASSUME InStaff, NEW c \in Customers, Agreeing(c),
         NEW h \in Requests, NEW q \in Request,
         Becomes(h, q), request[h] = Idle, q.op # "none",
         Now(q) \in {"saveCustomer", "find", "saveStatus", "saveTotals"},
         UNCHANGED <<customer, user>>,
         q.op = "status" =>
           /\ q.entity.status \in {"active", "deactivated"}
           /\ customer[c].status # "none",
         q.op = "purchase" =>
           q.entity = customer[c] /\ customer[c].status = "active"
  PROVE  Agreeing(c)'
<1>1. q # Idle
  BY IdleRests
<1>2. ASSUME Settled(request[h], customer[c], user)
      PROVE  Settled(q, customer[c], user)
  <2>1. /\ customer[c].status = "none" \/ user.status # "none"
        /\ Agree(customer[c], user)
    BY <1>2, IdleRests DEF Settled
  <2> QED  BY <2>1 DEF Settled, Midway
<1> QED  BY <1>1, <1>2, SettledQuietly

LEMMA SettledStarts ==
  ASSUME InStaff, NEW c \in Customers, Agreeing(c), OnlyKnown(c),
         NEW h \in Requests, NEW d \in Customers,
         \/ Register(h, d)
         \/ Purchase(h, d)
         \/ \E status \in {"active", "deactivated"} :
              ChangeStatus(h, d, status)
  PROVE  Agreeing(c)'
<1>1. UNCHANGED <<customer, user>>
  BY DEF Register, Purchase, ChangeStatus
<1>2. customer[d].status # "none" => d = c
  BY DEF OnlyKnown
<1>3. CASE Register(h, d)
  <2>1. \E q \in Request :
          /\ Becomes(h, q) /\ request[h] = Idle /\ q.op = "register"
          /\ Now(q) = "saveCustomer"
    BY <1>3, RegisterMoves
  <2> QED  BY <1>1, <2>1, SettledBegins
<1>4. CASE Purchase(h, d)
  <2>1. \E q \in Request :
          /\ Becomes(h, q) /\ request[h] = Idle /\ q.op = "purchase"
          /\ Now(q) = "saveTotals" /\ q.entity = customer[d]
    BY <1>4, StaffGrants, PurchaseMoves
  <2>2. customer[d].status = "active"
    BY <1>4 DEF Purchase
  <2> QED  BY <1>1, <1>2, <2>1, <2>2, SettledBegins
<1>5. ASSUME NEW status \in {"active", "deactivated"}, ChangeStatus(h, d, status)
      PROVE  Agreeing(c)'
  <2>1. \E q \in Request :
          /\ Becomes(h, q) /\ request[h] = Idle /\ q.op = "status"
          /\ Now(q) = "saveStatus" /\ q.entity.status = status
    BY <1>5, StaffGrants, ChangeStatusMoves
  <2>2. customer[d].status # "none"
    BY <1>5 DEF ChangeStatus
  <2> QED  BY <1>1, <1>2, <2>1, <2>2, SettledBegins
<1> QED  BY <1>3, <1>4, <1>5

LEMMA SettledRedeem ==
  ASSUME InStaff, NEW c \in Customers, Agreeing(c),
         NEW h \in Requests, NEW op \in Redeeming,
         NEW i \in DOMAIN rows, NEW via \in Channels, Redeem(h, op, i, via)
  PROVE  Agreeing(c)'
<1>1. PICK q \in Request :
        /\ Becomes(h, q) /\ request[h] = Idle /\ q.op = op /\ Now(q) = "find"
  BY StaffGrants, RedeemMoves
<1>2. UNCHANGED <<customer, user>>
  BY DEF Redeem
<1> QED  BY <1>1, <1>2, SettledBegins DEF Redeeming

LEMMA AgreeingNext ==
  ASSUME InStaff, NEW c \in Customers, Agreeing(c),
         OnlyKnown(c), OnlyKnown(c)', [Next]_vars
  PROVE  Agreeing(c)'
<1>1. UNCHANGED <<customer, user, request>> => Agreeing(c)'
  BY TurnStays DEF Agreeing
<1>2. ASSUME NEW h \in Requests, Proceeds(h)
      PROVE  Agreeing(c)'
  BY <1>2, SettledSaveCustomer, SettledPortalUser, SettledElsewhere,
     SettledFind, SettledUse, SettledFindUser, SettledGetUser,
     SettledSaveUser, SettledFindCustomer, SettledSaveLinked,
     SettledSaveStatus, SettledSaveTotals DEF Proceeds
<1>3. ASSUME NEW h \in Requests, Raise(h)
      PROVE  FALSE
  <2>1. faults' = faults + 1 /\ faults \in Nat /\ faults' = 0
    BY <1>3, StaffGrants DEF Raise, IInv, TypeOK
  <2> QED  BY <2>1
<1>4. ASSUME NEW i \in 1 .. MaxRows, Expire(i)  PROVE Agreeing(c)'
  BY <1>1, <1>4 DEF Expire
<1>5. CleanUp => Agreeing(c)'
  BY <1>1 DEF CleanUp
<1>6. UNCHANGED vars => Agreeing(c)'
  BY <1>1 DEF vars
<1>7. CASE Next
  BY <1>2, <1>3, <1>4, <1>5, <1>7, SettledStarts, SettledRedeem
     DEF Next, Redeeming
<1> QED  BY <1>6, <1>7

-----------------------------------------------------------------------------
(* Closed accounts                                                         *)

\* Only staff who confirm the deactivation, and requests that have not yet
\* looked at their token, are in flight once an account is closed.
LEMMA ClosedWaits ==
  ASSUME InStaff, NEW c \in Customers, Agreeing(c), Closing(c),
         c \in closed,
         NEW h \in Requests, Turn = request[h], request[h] # Idle
  PROVE  \/ request[h].op = "status" /\ request[h].entity.status = "deactivated"
         \/ Now(request[h]) = "find"
         \/ Now(request[h]) = "saveCustomer" /\ request[h].customer # c
<1> DEFINE r == request[h]
<1>1. Locked(c, r)
  BY DEF Closing
<1>2. customer[c].status = "deactivated"
  BY <1>1 DEF Locked
<1>3. Settled(r, customer[c], user)
  BY DEF Agreeing
<1>4. r \in Request /\ Ordered(r) /\ Planned(r) /\ Copied(r)
  BY StaffGrants DEF IInv, TypeOK, PlansKept, AllOrdered, InStaff, TotalsInv
<1>5. r.op \in Operations /\ r.plan # <<>>
  <2>1. r.op \in Operations /\ r.plan \in Plans(r.op)
    BY <1>4 DEF Ordered
  <2>2. \A op \in Operations : <<>> \notin Plans(op)
    BY Tails DEF Plans, Operations
  <2> QED  BY <2>1, <2>2
<1>6. r.op = "register" => Now(r) = "saveCustomer" /\ r.customer # c
  <2> SUFFICES ASSUME r.op = "register"
               PROVE  Now(r) = "saveCustomer" /\ r.customer # c
    OBVIOUS
  <2>1. Now(r) \in {"saveCustomer", "portal", "link"}
    BY <1>4, <1>5, OrderedSteps
  <2>2. Now(r) = "saveCustomer"
    BY <1>2, <1>3, <2>1 DEF Settled
  <2> QED  BY <1>2, <1>4, <2>2 DEF Copied
<1>7. r.op # "purchase"
  BY <1>2, <1>3 DEF Settled
<1> QED  BY <1>1, <1>5, <1>6, <1>7 DEF Locked, Operations, Redeeming

\* Neither the rows nor what they say is changed by the step.
LEMMA ClosingQuietly ==
  ASSUME InStaff, NEW c \in Customers, Closing(c),
         NEW h \in Requests, NEW q \in Request,
         Becomes(h, q), request[h] # Idle \/ q # Idle,
         UNCHANGED <<customer, user, rows>>,
         Exempt(request[h]) => Exempt(q),
         Now(q) \notin {"portal", "link"},
         c \in closed' =>
           /\ c \in closed
           /\ \/ q = Idle
              \/ q.op \in Redeeming /\ Now(q) = "find"
              \/ q.op = "register"
              \/ q.op = "status" /\ q.entity.status = "deactivated"
  PROVE  Closing(c)'
<1>1. Turn = request[h] /\ Turn' = q
  BY StaffGrants, TurnMoves
<1>2. Rooted(c, request[h])
  BY <1>1 DEF Closing
<1>3. Rooted(c, q)'
  BY <1>2 DEF Rooted, Exempt
<1>4. c \in closed' => Locked(c, q)'
  <2> SUFFICES ASSUME c \in closed'  PROVE Locked(c, q)'
    OBVIOUS
  <2>1. Locked(c, request[h])
    BY <1>1 DEF Closing
  <2> QED  BY <2>1, IdleRests DEF Locked, Open, Redeeming
<1> QED  BY <1>1, <1>3, <1>4 DEF Closing, Rooted, Locked

LEMMA ClosingRegistration ==
  ASSUME InStaff, NEW c \in Customers, Agreeing(c), Closing(c),
         OnlyKnown(c)', NEW h \in Requests,
         SaveCustomer(h) \/ PortalUser(h) \/ SendLink(h)
  PROVE  Closing(c)'
<1> DEFINE r == request[h]
<1>1. PICK step \in {"saveCustomer", "portal", "link"} :
        At(h, step) /\ Becomes(h, Rest(r))
  BY DEF SaveCustomer, PortalUser, SendLink
<1>2. PICK q \in Request :
        /\ Becomes(h, q) /\ Now(r) = step
        /\ IF After(r.op, step) = "none" THEN q = Idle
           ELSE Same(r, q) /\ Now(q) = After(r.op, step)
  BY <1>1, StaffGrants, GoesOn
<1>3. r \in Request /\ Ordered(r) /\ r.plan # <<>> /\ Planned(r) /\ Copied(r)
  BY <1>1, StaffGrants
     DEF At, IInv, TypeOK, PlansKept, AllOrdered, InStaff, TotalsInv
<1>4. r.op = "register" /\ r # Idle /\ r.customer \in Customers
  BY <1>2, <1>3, OrderedSteps, IdleRests DEF Planned
<1>5. Turn = r /\ Turn' = q
  BY <1>2, <1>4, StaffGrants, TurnMoves
<1>6. c \notin closed /\ (step = "saveCustomer" => r.customer = c)
  <2>1. step = "saveCustomer" => r.customer = c
    <3> SUFFICES ASSUME step = "saveCustomer"  PROVE r.customer = c
      OBVIOUS
    <3>1. SaveCustomer(h)
      BY <1>2 DEF SaveCustomer, PortalUser, SendLink, At, Now
    <3> DEFINE row == [status |-> "pending", totals |-> 0]
    <3>2. customer' = [customer EXCEPT ![r.customer] = row]
      BY <3>1 DEF SaveCustomer
    <3>3. row.status = "pending"
      OBVIOUS
    <3> HIDE DEF row
    <3> QED  BY <1>4, <3>2, <3>3, StaffGrants, OnlyRow
  <2> QED  BY <1>2, <1>4, <1>5, <2>1, ClosedWaits
<1>7. c \notin closed'
  BY <1>6 DEF SaveCustomer, PortalUser, SendLink, history
<1>8. rows = <<>> /\ ~user.password
  BY <1>2, <1>3, <1>4, <1>5, <1>6 DEF Closing, Rooted, Copied
<1>9. ~user'.password
  <2>1. user'.password = user.password
    BY StaffGrants DEF SaveCustomer, PortalUser, SendLink, IInv, TypeOK, User
  <2> QED  BY <1>8, <2>1
<1>10. Rooted(c, q)'
  <2>1. CASE SaveCustomer(h) \/ PortalUser(h)
    <3>1. rows' = <<>>
      BY <1>8, <2>1 DEF SaveCustomer, PortalUser
    <3> QED  BY <1>9, <3>1 DEF Rooted
  <2>2. CASE SendLink(h)
    <3>1. step = "link"
      BY <1>2, <2>2 DEF SendLink, At, Now
    <3>2. q = Idle
      BY <1>2, <1>4, <3>1 DEF After
    <3>3. customer[c].status = "pending"
      BY <1>2, <1>5, <3>1 DEF Agreeing, Settled
    <3>4. UNCHANGED customer
      BY <2>2 DEF SendLink
    <3>5. rows' = <<Row("link", 0, "email")>>
      BY <1>8, <2>2 DEF SendLink
    <3>6. DOMAIN rows' = {1} /\ rows'[1].kind = "link"
      BY <3>5 DEF Row
    <3> QED  BY <1>9, <3>2, <3>3, <3>4, <3>6, IdleRests DEF Rooted
  <2> QED  BY <2>1, <2>2
<1> QED  BY <1>5, <1>7, <1>10 DEF Closing, Rooted

\* Every challenge leads to the one link.
LEMMA LinkIsFirst ==
  ASSUME IInv, NEW c, Rooted(c, Turn), NEW i \in DOMAIN rows
  PROVE  /\ LinkOf(i) = 1 /\ 1 \in DOMAIN rows /\ rows[1].kind = "link"
<1>1. LinkOf(i) = 1
  BY DEF LinkOf, Rooted
<1>2. 1 \in DOMAIN rows /\ rows[1].parent = 0
  BY DEF IInv, TypeOK
<1> QED  BY <1>1, <1>2 DEF IInv, RowsLinked

LEMMA ClosingCreates ==
  ASSUME InStaff, NEW c \in Customers, Agreeing(c), Closing(c),
         KindsMatch, NEW h \in Requests,
         SaveOtp(h) \/ SaveSetup(h)
  PROVE  Closing(c)'
<1> DEFINE r == request[h]
<1>1. PICK step \in {"saveOtp", "saveSetup"} :
        At(h, step) /\ Becomes(h, Rest(r))
  BY DEF SaveOtp, SaveSetup
<1>2. PICK q \in Request :
        /\ Becomes(h, q) /\ Now(r) = step
        /\ IF After(r.op, step) = "none" THEN q = Idle
           ELSE Same(r, q) /\ Now(q) = After(r.op, step)
  BY <1>1, StaffGrants, GoesOn
<1>3. q = Idle
  BY <1>1, <1>2 DEF After
<1>4. r \in Request /\ Ordered(r) /\ r.plan # <<>> /\ Planned(r)
  BY <1>1, StaffGrants DEF At, IInv, TypeOK, PlansKept, AllOrdered
<1>5. r # Idle /\ r.op = IF step = "saveOtp" THEN "otp" ELSE "verify"
  BY <1>2, <1>4, OrderedSteps, IdleRests
<1>6. Turn = r /\ Turn' = q
  BY <1>2, <1>5, StaffGrants, TurnMoves
<1>7. c \notin closed'
  <2>1. c \notin closed
    BY <1>1, <1>2, <1>5, <1>6, ClosedWaits
  <2> QED  BY <2>1 DEF SaveOtp, SaveSetup, history
<1>8. /\ r.id \in DOMAIN rows
      /\ step = "saveOtp" => rows[r.id].kind = "link"
  BY <1>4, <1>5 DEF Planned, KindsMatch, Kinds, Redeeming
<1>9. Rooted(c, r)
  BY <1>6 DEF Closing
<1>10. PICK row : /\ rows' = Append(rows, row)
                  /\ row.kind # "link" /\ row.parent = 1
  <2>1. CASE SaveOtp(h)
    <3>1. step = "saveOtp"
      BY <1>2, <2>1 DEF SaveOtp, At, Now
    <3>2. r.id = 1
      BY <1>8, <1>9, <3>1 DEF Rooted
    <3> QED  BY <2>1, <3>2 DEF SaveOtp, Row
  <2>2. CASE SaveSetup(h)
    <3>1. LinkOf(r.id) = 1
      BY <1>6, <1>8, <1>9, StaffGrants, LinkIsFirst
    <3> QED  BY <2>2, <3>1 DEF SaveSetup, Row
  <2> QED  BY <2>1, <2>2
<1>11. /\ \A i \in DOMAIN rows : rows'[i] = rows[i]
       /\ DOMAIN rows' = DOMAIN rows \union {Len(rows) + 1}
       /\ rows'[Len(rows) + 1] = row
  BY <1>10, StaffGrants, Appended
<1>12. 1 \in DOMAIN rows /\ rows # <<>> /\ rows' # <<>>
  BY <1>6, <1>8, <1>9, <1>11, StaffGrants, LinkIsFirst
<1>13. UNCHANGED <<customer, user>>
  BY DEF SaveOtp, SaveSetup
<1>14. Rooted(c, q)'
  <2>1. \A i \in DOMAIN rows' :
          IF rows'[i].kind = "link" THEN i = 1 ELSE rows'[i].parent = 1
    BY <1>9, <1>10, <1>11 DEF Rooted
  <2>2. customer'[c].status # "none"
    BY <1>9, <1>12, <1>13 DEF Rooted
  <2>3. user'.password => rows'[1].isUsed
    BY <1>5, <1>9, <1>11, <1>12, <1>13 DEF Rooted, Exempt
  <2> QED  BY <1>3, <1>12, <2>1, <2>2, <2>3, IdleRests DEF Rooted
<1> QED  BY <1>6, <1>7, <1>14 DEF Closing, Rooted

LEMMA ClosingUse ==
  ASSUME InStaff, NEW c \in Customers, Agreeing(c), Closing(c),
         NEW h \in Requests, Use(h) \/ UseParent(h)
  PROVE  Closing(c)'
<1> DEFINE r == request[h]
<1>1. PICK step \in {"use", "useParent"} : At(h, step) /\ Becomes(h, Rest(r))
  BY DEF Use, UseParent
<1>2. PICK q \in Request :
        /\ Becomes(h, q) /\ Now(r) = step
        /\ IF After(r.op, step) = "none" THEN q = Idle
           ELSE Same(r, q) /\ Now(q) = After(r.op, step)
  BY <1>1, StaffGrants, GoesOn
<1>3. r \in Request /\ Ordered(r) /\ r.plan # <<>> /\ Planned(r)
  BY <1>1, StaffGrants DEF At, IInv, TypeOK, PlansKept, AllOrdered
<1>4. /\ r # Idle /\ r.op \in {"verify", "password"}
      /\ step = "useParent" => r.op = "password"
  BY <1>2, <1>3, OrderedSteps, StaffGrants, IdleRests
<1>5. Turn = r /\ Turn' = q
  BY <1>2, <1>4, StaffGrants, TurnMoves
<1>6. c \notin closed'
  <2>1. c \notin closed
    BY <1>1, <1>2, <1>4, <1>5, ClosedWaits
  <2> QED  BY <2>1 DEF Use, UseParent
<1>7. r.id \in DOMAIN rows
  BY <1>3, <1>4 DEF Planned, Redeeming
<1>8. Rooted(c, r)
  BY <1>5 DEF Closing
<1>9. LinkOf(r.id) = 1 /\ 1 \in DOMAIN rows
  BY <1>5, <1>7, <1>8, StaffGrants, LinkIsFirst
<1>10. RowsKept /\ DOMAIN rows' = DOMAIN rows
  BY StaffGrants, Written DEF Use, UseParent
<1>11. UNCHANGED <<customer, user>>
  BY DEF Use, UseParent
<1>12. UseParent(h) => rows'[1].isUsed
  <2> SUFFICES ASSUME UseParent(h)  PROVE rows'[1].isUsed
    OBVIOUS
  <2>1. rows[1] \in Challenge
    BY <1>9, StaffGrants DEF IInv, TypeOK
  <2>2. rows' = [rows EXCEPT ![1].isUsed = TRUE]
    BY <1>9 DEF UseParent
  <2> QED  BY <1>9, <2>1, <2>2 DEF Challenge
<1>13. Rooted(c, q)'
  <2>1. \A i \in DOMAIN rows' :
          IF rows'[i].kind = "link" THEN i = 1 ELSE rows'[i].parent = 1
    BY <1>8, <1>10 DEF Rooted, RowsKept
  <2>2. /\ rows # <<>> /\ rows' # <<>>
    BY <1>7, <1>10
  <2>3. customer'[c].status # "none"
    BY <1>8, <1>11, <2>2 DEF Rooted
  <2>4. user'.password => rows'[1].isUsed \/ Exempt(q)
    <3>1. CASE rows[1].isUsed
      BY <1>9, <1>10, <3>1 DEF RowsKept
    <3>2. CASE UseParent(h)
      BY <1>12, <3>2
    <3>3. CASE Use(h) /\ r.op = "password"
      <4>1. step = "use"
        BY <1>2, <3>3 DEF Use, At, Now
      <4>2. Same(r, q) /\ Now(q) = "useParent"
        BY <1>2, <3>3, <4>1 DEF After
      <4> QED  BY <3>3, <4>2 DEF Exempt, Same
    <3> QED  BY <1>4, <1>8, <1>11, <3>1, <3>2, <3>3 DEF Rooted, Exempt
  <2>5. Now(q) \notin {"portal", "link"}
    BY <1>1, <1>2, <1>4, IdleRests DEF After
  <2> QED  BY <2>1, <2>2, <2>3, <2>4, <2>5 DEF Rooted, Exempt
<1> QED  BY <1>5, <1>6, <1>13 DEF Closing, Rooted

\* A closed account's tokens are refused.
LEMMA ClosingFind ==
  ASSUME InStaff, NEW c \in Customers, Agreeing(c), Closing(c),
         KindsMatch, NEW h \in Requests, Find(h)
  PROVE  Closing(c)'
<1> DEFINE r == request[h]
           i == IF r.op = "verify" THEN LinkOf(r.id) ELSE r.id
<1>1. PICK q \in Request :
        /\ Becomes(h, q) /\ Now(r) = "find" /\ r.op \in Redeeming
        /\ IF Open(i)
           THEN /\ Same(r, q)
                /\ q.op = "otp" => Now(q) = "saveOtp"
                /\ q.op = "verify" => Now(q) = "findOtp"
                /\ q.op \in {"password", "account"} => Now(q) = "findUser"
           ELSE q = Idle
  BY StaffGrants, FindMoves
<1>2. UNCHANGED <<customer, user, rows, closed>>
  BY DEF Find
<1>3. r # Idle
  BY <1>1, IdleRests
<1>4. Turn = r
  BY <1>1, <1>3, StaffGrants, TurnMoves
<1>5. r.id \in DOMAIN rows /\ rows[r.id].kind \in Kinds(r.op)
  BY <1>1, StaffGrants DEF IInv, PlansKept, Planned, KindsMatch
<1>6. i \in DOMAIN rows /\ rows[i].kind # "otp"
  <2>1. CASE r.op = "verify"
    BY <1>4, <1>5, <2>1, StaffGrants, LinkIsFirst DEF Closing
  <2>2. CASE r.op \in {"otp", "password", "account"}
    BY <1>5, <2>2 DEF Kinds
  <2> QED  BY <1>1, <2>1, <2>2 DEF Redeeming
<1>7. c \in closed => ~Open(i)
  BY <1>4, <1>6 DEF Closing, Locked
<1>8. Now(q) \notin {"portal", "link"}
  <2>1. CASE q = Idle
    BY <2>1, IdleRests
  <2>2. CASE Same(r, q)
    <3>1. q.op \in Redeeming
      BY <1>1, <2>2 DEF Same
    <3> QED  BY <1>1, <2>2, <3>1, IdleRests DEF Redeeming
  <2> QED  BY <1>1, <2>1, <2>2
<1>9. ~Exempt(r)
  BY <1>1 DEF Exempt, Midway
<1> QED  BY <1>1, <1>2, <1>3, <1>7, <1>8, <1>9, ClosingQuietly

LEMMA ClosingReads ==
  ASSUME InStaff, NEW c \in Customers, Agreeing(c), Closing(c),
         NEW h \in Requests,
         FindOtp(h) \/ FindUser(h) \/ GetUser(h) \/ FindCustomer(h)
  PROVE  Closing(c)'
<1> DEFINE r == request[h]
<1>1. UNCHANGED <<customer, user, rows, closed>>
  BY DEF FindOtp, FindUser, GetUser, FindCustomer, history
<1>2. PICK q \in Request :
        /\ Becomes(h, q)
        /\ Now(r) \in {"findOtp", "findUser", "getUser", "findCustomer"}
        /\ Now(q) \notin {"portal", "link"}
        /\ Exempt(r) => Exempt(q)
        /\ r.op = "status" => Same(r, q)
  <2>1. CASE FindOtp(h)
    <3>1. PICK q \in Request :
            /\ Becomes(h, q) /\ Now(r) = "findOtp" /\ r.op = "verify"
            /\ (Same(r, q) /\ Now(q) = "use") \/ q = Idle
      BY <2>1, StaffGrants, FindOtpMoves
    <3>2. Now(q) \notin {"portal", "link"} /\ ~Exempt(r)
      BY <3>1, IdleRests DEF Exempt
    <3> QED  BY <3>1, <3>2
  <2>2. CASE FindUser(h)
    <3>1. PICK q \in Request :
            /\ Becomes(h, q) /\ Now(r) = "findUser"
            /\ r.op \in {"password", "account"}
            /\ Now(q) \in {"use", "getUser"}
      BY <2>2, StaffGrants, FindUserMoves
    <3> QED  BY <3>1 DEF Exempt, Midway
  <2>3. CASE GetUser(h)
    <3>1. PICK q \in Request :
            /\ Becomes(h, q) /\ Now(r) = "getUser" /\ Same(r, q)
            /\ Now(q) = "saveUser"
      BY <2>3, StaffGrants, GetUserMoves
    <3> QED  BY <3>1 DEF Exempt, Midway, Same
  <2>4. CASE FindCustomer(h)
    <3>1. PICK q \in Request, d \in Customers :
            /\ Becomes(h, q) /\ Now(r) = "findCustomer" /\ r.op = "password"
            /\ q.op = r.op /\ Now(q) \in {"use", "saveLinked"}
      BY <2>4, StaffGrants, FindCustomerMoves
    <3> QED  BY <3>1 DEF Exempt, Midway
  <2> QED  BY <2>1, <2>2, <2>3, <2>4
<1>3. r # Idle
  BY <1>2, IdleRests
<1>4. Turn = r
  BY <1>2, <1>3, StaffGrants, TurnMoves
<1>5. c \in closed => q.op = "status" /\ q.entity.status = "deactivated"
  BY <1>2, <1>3, <1>4, ClosedWaits DEF Same
<1> QED  BY <1>1, <1>2, <1>3, <1>5, ClosingQuietly

\* An account is closed when a deactivation reaches the user.
LEMMA ClosingSaveUser ==
  ASSUME InStaff, NEW c \in Customers, Agreeing(c), Closing(c),
         NEW h \in Requests,
         SaveUser(h)
  PROVE  Closing(c)'
<1> DEFINE r == request[h]
           left == Tail(r.edits)
           plan == IF left = <<>> THEN AfterUser(r.op) ELSE <<"getUser">>
<1>1. PICK q \in Request :
        /\ Becomes(h, q) /\ Now(r) = "saveUser"
        /\ r.op \in {"password", "account", "status"}
        /\ IF left = <<>> /\ r.op = "status" THEN q = Idle
           ELSE /\ Same(r, q) /\ q.edits = left
                /\ Now(q) = IF q.edits # <<>> THEN "getUser"
                            ELSE IF q.op = "password" THEN "findCustomer"
                            ELSE "use"
  BY StaffGrants, SaveUserMoves
<1>2. UNCHANGED <<customer, rows>> /\ r # Idle /\ r.op \in {"password", "status"}
  BY <1>1, StaffGrants, IdleRests DEF SaveUser
<1>3. Turn = r /\ Turn' = q
  BY <1>1, <1>2, StaffGrants, TurnMoves
<1>4. Rooted(c, r) /\ Planned(r)
  BY <1>3, StaffGrants DEF Closing, IInv, PlansKept
<1>5. closed' = IF plan = <<>> /\ r.entity.status = "deactivated" /\ Dormant
                THEN closed \union {r.customer} ELSE closed
  BY DEF SaveUser
<1>6. CASE r.op = "password"
  <2>1. c \notin closed
    BY <1>1, <1>2, <1>3, <1>6, ClosedWaits
  <2>2. plan # <<>>
    BY <1>6, Tails DEF AfterUser
  <2>3. c \notin closed'
    BY <1>5, <2>1, <2>2
  <2>4. rows # <<>>
    <3>1. r.id \in DOMAIN rows
      BY <1>4, <1>6 DEF Planned, Redeeming
    <3> QED  BY <3>1
  <2>5. q.op = "password" /\ Now(q) \in {"getUser", "findCustomer"}
    BY <1>1, <1>6 DEF Same
  <2>6. Rooted(c, q)'
    BY <1>2, <1>4, <2>4, <2>5 DEF Rooted, Exempt, Midway
  <2> QED  BY <1>3, <2>3, <2>6 DEF Closing, Rooted
<1>7. CASE r.op = "status"
  <2>2. r.edits = <<"sync">> /\ customer[c] = r.entity
    BY <1>1, <1>3, <1>7 DEF Agreeing, Settled
  <2>3. user' = Edited("sync", user, r.entity) /\ user \in User /\ "sync" \in Edit
    BY <2>2, SavedUser DEF Edit
  <2>4. user'.password = user.password
    BY <2>3, EditedStatus
  <2>5. q = Idle
    BY <1>1, <1>7, <2>2
  <2>6. Rooted(c, q)'
    BY <1>2, <1>4, <1>7, <2>4, <2>5, IdleRests DEF Rooted, Exempt
  <2>7. ASSUME c \in closed'
        PROVE  Locked(c, q)'
    <3>1. CASE c \in closed
      <4>1. Locked(c, r)
        BY <1>3, <3>1 DEF Closing
      <4> QED  BY <1>2, <2>4, <2>5, <4>1, IdleRests DEF Locked, Open, Redeeming
    <3>2. CASE c \notin closed
      <4>1. r.entity.status = "deactivated" /\ Dormant
        BY <1>5, <2>7, <3>2
      <4>2. customer[c].status = "deactivated"
        BY <2>2, <4>1
      <4>3. user.password /\ rows[1].isUsed
        BY <1>4, <1>7, <4>1 DEF Dormant, Rooted, Exempt
      <4>4. ASSUME NEW i \in DOMAIN rows, rows[i].kind # "otp"
            PROVE  ~Open(i)
        <5>1. rows[i] \in Challenge
          BY StaffGrants DEF IInv, TypeOK
        <5>2. rows[i].kind \in {"link", "setup"}
          BY <4>4, <5>1 DEF Challenge
        <5> QED  BY <1>4, <4>1, <4>3, <5>2 DEF Dormant, Rooted, Open
      <4> QED  BY <1>2, <2>4, <2>5, <4>2, <4>3, <4>4, IdleRests
               DEF Locked, Open, Redeeming
    <3> QED  BY <3>1, <3>2
  <2> QED  BY <1>3, <2>6, <2>7 DEF Closing, Rooted, Locked
<1> QED  BY <1>2, <1>6, <1>7

\* The customer's row is saved.
LEMMA ClosingSaves ==
  ASSUME InStaff, NEW c \in Customers, Agreeing(c), Closing(c),
         OnlyKnown(c)', NEW h \in Requests,
         SaveLinked(h) \/ SaveStatus(h) \/ SaveTotals(h)
  PROVE  Closing(c)'
<1> DEFINE r == request[h]
<1>1. PICK step \in {"saveLinked", "saveStatus", "saveTotals"} : At(h, step)
  BY DEF SaveLinked, SaveStatus, SaveTotals
<1>2. /\ Now(r) = step /\ Copied(r) /\ r # Idle /\ r \in Request
      /\ r.op \in {"password", "status", "purchase"}
      /\ r.op = "password" => step = "saveLinked"
      /\ step = "saveLinked" => r.op = "password"
  BY <1>1, StaffGrants, Saving DEF Step, InStaff
<1>3. PICK q \in Request :
        /\ Becomes(h, q)
        /\ Exempt(r) => Exempt(q)
        /\ Now(q) \notin {"portal", "link"}
        /\ q = Idle \/ Same(r, q)
  <2>1. CASE SaveLinked(h) \/ SaveTotals(h)
    <3>1. Becomes(h, Rest(r)) /\ step \in {"saveLinked", "saveTotals"}
      BY <1>1, <2>1 DEF SaveLinked, SaveTotals, At
    <3>2. PICK q \in Request :
            /\ Becomes(h, q)
            /\ IF After(r.op, step) = "none" THEN q = Idle
               ELSE Same(r, q) /\ Now(q) = After(r.op, step)
      BY <1>1, <3>1, StaffGrants, GoesOn
    <3>3. CASE r.op = "password"
      <4>1. Same(r, q) /\ Now(q) = "use"
        BY <1>2, <3>2, <3>3 DEF After
      <4> QED  BY <3>2, <3>3, <4>1 DEF Exempt, Same
    <3>4. CASE r.op # "password"
      <4>1. q = Idle
        BY <1>2, <3>1, <3>2, <3>4 DEF After
      <4> QED  BY <3>2, <3>4, <4>1, IdleRests DEF Exempt
    <3> QED  BY <3>3, <3>4
  <2>2. CASE SaveStatus(h)
    <3>1. PICK q \in Request :
            /\ Becomes(h, q) /\ r.op = "status"
            /\ q = Idle \/ (Same(r, q) /\ Now(q) = "getUser")
      BY <2>2, StaffGrants, SaveStatusMoves
    <3> QED  BY <3>1, IdleRests DEF Exempt
  <2> QED  BY <2>1, <2>2
<1>4. Turn = r /\ Turn' = q
  BY <1>2, <1>3, StaffGrants, TurnMoves
<1>5. r.customer \in Customers /\ r.entity \in Customer
  BY <1>1, <1>2 DEF Copied, Request
<1>6. UNCHANGED <<user, rows, closed>>
  BY DEF SaveLinked, SaveStatus, SaveTotals, history
<1>7. PICK row \in Customer :
        /\ customer' = [customer EXCEPT ![r.customer] = row]
        /\ row.status # "none"
        /\ r.op = "status" => row.status = r.entity.status
  <2>1. CASE SaveLinked(h)
    <3>1. [r.entity EXCEPT !.status = "active"] \in Customer
      BY <1>5 DEF Customer
    <3>2. [r.entity EXCEPT !.status = "active"].status = "active"
      BY <1>5 DEF Customer
    <3>3. r.op = "password"
      BY <2>1, StaffGrants, Saving DEF SaveLinked, Step, InStaff
    <3> QED  BY <2>1, <3>1, <3>2, <3>3 DEF SaveLinked
  <2>2. CASE SaveStatus(h)
    <3>1. Now(r) = "saveStatus"
      BY <2>2, StaffGrants, Saving DEF SaveStatus, Step, InStaff
    <3> QED  BY <1>2, <1>5, <2>2, <3>1 DEF SaveStatus, Copied
  <2>3. CASE SaveTotals(h)
    <3>1. Now(r) = "saveTotals" /\ r.op = "purchase"
      BY <2>3, StaffGrants, Saving DEF SaveTotals, Step, InStaff
    <3> DEFINE row == [r.entity EXCEPT !.totals = r.entity.totals + 1]
    <3>2. customer' = [customer EXCEPT ![r.customer] = row]
      BY <2>3 DEF SaveTotals
    <3>3. r.entity.totals + 1 \in Nat
      BY <1>5 DEF Customer
    <3>4. row \in Customer /\ row.status = r.entity.status
      BY <1>5, <3>3 DEF Customer
    <3> HIDE DEF row
    <3> QED  BY <1>2, <3>1, <3>2, <3>4 DEF Copied
  <2> QED  BY <2>1, <2>2, <2>3
<1>8. customer'[c] = row
  BY <1>5, <1>7, StaffGrants, OnlyRow
<1>9. Rooted(c, q)'
  BY <1>3, <1>4, <1>6, <1>7, <1>8 DEF Closing, Rooted, Exempt
<1>10. ASSUME c \in closed'
       PROVE  Locked(c, q)'
  <2>1. Locked(c, r) /\ r.op = "status" /\ r.entity.status = "deactivated"
    BY <1>1, <1>2, <1>4, <1>6, <1>10, ClosedWaits DEF Closing
  <2>2. q = Idle \/ (q.op = "status" /\ q.entity = r.entity)
    BY <1>3, <2>1 DEF Same
  <2>3. row.status = "deactivated"
    BY <1>7, <2>1
  <2> QED  BY <1>6, <1>8, <2>1, <2>2, <2>3, IdleRests
           DEF Locked, Open, Redeeming
<1> QED  BY <1>4, <1>9, <1>10 DEF Closing, Rooted, Locked

LEMMA ClosingStarts ==
  ASSUME InStaff, NEW c \in Customers, Closing(c), OnlyKnown(c),
         NEW h \in Requests, NEW d \in Customers,
         \/ Register(h, d)
         \/ Purchase(h, d)
         \/ \E status \in {"active", "deactivated"} :
              ChangeStatus(h, d, status)
  PROVE  Closing(c)'
<1>1. UNCHANGED <<customer, user, rows>>
  BY DEF Register, Purchase, ChangeStatus
<1>2. ~Exempt(Idle)
  BY IdleRests DEF Exempt
<1>3. ASSUME NEW q \in Request, Becomes(h, q), request[h] = Idle, q # Idle,
             Now(q) \in {"saveCustomer", "saveTotals", "saveStatus"},
             c \in closed' => /\ c \in closed
                             /\ \/ q.op = "register"
                                \/ /\ q.op = "status"
                                   /\ q.entity.status = "deactivated"
      PROVE  Closing(c)'
  BY <1>1, <1>2, <1>3, ClosingQuietly
<1>4. c \in closed => customer[c].status = "deactivated"
  BY DEF Closing, Locked
<1>5. CASE Register(h, d)
  <2>1. \E q \in Request :
          /\ Becomes(h, q) /\ request[h] = Idle /\ q.op = "register"
          /\ Now(q) = "saveCustomer"
    BY <1>5, RegisterMoves
  <2>2. UNCHANGED closed
    BY <1>5 DEF Register, history
  <2> QED  BY <1>3, <2>1, <2>2, IdleRests
<1>6. CASE Purchase(h, d)
  <2>1. \E q \in Request :
          /\ Becomes(h, q) /\ request[h] = Idle /\ q.op = "purchase"
          /\ Now(q) = "saveTotals"
    BY <1>6, StaffGrants, PurchaseMoves
  <2>2. c \notin closed'
    BY <1>4, <1>6 DEF Purchase, OnlyKnown, history
  <2> QED  BY <1>3, <2>1, <2>2, IdleRests
<1>7. ASSUME NEW status \in {"active", "deactivated"}, ChangeStatus(h, d, status)
      PROVE  Closing(c)'
  <2>1. \E q \in Request :
          /\ Becomes(h, q) /\ request[h] = Idle /\ q.op = "status"
          /\ Now(q) = "saveStatus" /\ q.entity.status = status
    BY <1>7, StaffGrants, ChangeStatusMoves
  <2>2. c \in closed' => c \in closed /\ status = "deactivated"
    <3>1. closed' = IF status = "active" THEN closed \ {d} ELSE closed
      BY <1>7 DEF ChangeStatus
    <3>2. d = c
      BY <1>7 DEF ChangeStatus, OnlyKnown
    <3> QED  BY <3>1, <3>2
  <2> QED  BY <1>3, <2>1, <2>2, IdleRests
<1> QED  BY <1>5, <1>6, <1>7

LEMMA ClosingRedeem ==
  ASSUME InStaff, NEW c \in Customers, Closing(c),
         NEW h \in Requests, NEW op \in Redeeming,
         NEW i \in DOMAIN rows, NEW via \in Channels, Redeem(h, op, i, via)
  PROVE  Closing(c)'
<1>1. PICK q \in Request :
        /\ Becomes(h, q) /\ request[h] = Idle /\ q.op = op /\ Now(q) = "find"
  BY StaffGrants, RedeemMoves
<1>2. UNCHANGED <<customer, user, rows, closed>>
  BY DEF Redeem, history
<1>3. q # Idle /\ ~Exempt(request[h])
  BY <1>1, IdleRests DEF Exempt
<1> QED  BY <1>1, <1>2, <1>3, ClosingQuietly

\* Time and the job open nothing.
LEMMA ClosingRows ==
  ASSUME InStaff, NEW c \in Customers, Closing(c),
         (\E i \in 1 .. MaxRows : Expire(i)) \/ CleanUp
  PROVE  Closing(c)'
<1>1. UNCHANGED <<customer, user, request, closed>>
  BY DEF Expire, CleanUp, history
<1>2. RowsKept /\ DOMAIN rows' = DOMAIN rows
  <2>1. [Next]_vars
    BY DEF Next
  <2> QED  BY <2>1, StaffGrants, RowsStay DEF Expire, CleanUp
<1>3. \A j \in DOMAIN rows : rows[j] \in Challenge
  BY StaffGrants DEF IInv, TypeOK
<1>4. \A j \in DOMAIN rows : Open(j)' => Open(j)
  <2>1. ASSUME NEW i \in 1 .. MaxRows, Expire(i), NEW j \in DOMAIN rows
        PROVE  rows'[j] \in {rows[j], [rows[j] EXCEPT !.expired = TRUE]}
    BY <2>1 DEF Expire
  <2>2. ASSUME CleanUp, NEW j \in DOMAIN rows
        PROVE  rows'[j] \in {rows[j], [rows[j] EXCEPT !.deleted = TRUE]}
    BY <2>2 DEF CleanUp
  <2>3. ASSUME NEW j \in DOMAIN rows
        PROVE  rows'[j] \in {rows[j], [rows[j] EXCEPT !.expired = TRUE],
                             [rows[j] EXCEPT !.deleted = TRUE]}
    BY <2>1, <2>2, <2>3
  <2>4. ASSUME NEW j \in DOMAIN rows, Open(j)'
        PROVE  Open(j)
    <3>1. ~rows'[j].isUsed /\ ~rows'[j].expired /\ ~rows'[j].deleted
      BY <2>4 DEF Open
    <3>2. rows'[j] = rows[j]
      BY <1>3, <2>3, <2>4, <3>1 DEF Challenge
    <3> QED  BY <3>1, <3>2 DEF Open
  <2> QED  BY <2>4
<1>5. Turn' = Turn
  BY <1>1, TurnStays
<1>6. Rooted(c, Turn)'
  <2>1. Rooted(c, Turn)
    BY DEF Closing
  <2>2. \A i \in DOMAIN rows' :
          IF rows'[i].kind = "link" THEN i = 1 ELSE rows'[i].parent = 1
    BY <1>2, <2>1 DEF Rooted, RowsKept
  <2>3. rows = <<>> <=> rows' = <<>>
    BY <1>2, StaffGrants DEF IInv, TypeOK
  <2>4. rows # <<>> => 1 \in DOMAIN rows
    BY StaffGrants DEF IInv, TypeOK
  <2> QED  BY <1>1, <1>2, <1>5, <2>1, <2>2, <2>3, <2>4 DEF Rooted, RowsKept
<1>7. ASSUME c \in closed'  PROVE Locked(c, Turn)'
  <2>1. Locked(c, Turn)
    BY <1>1, <1>7 DEF Closing
  <2>2. \A i \in DOMAIN rows' : rows'[i].kind # "otp" => ~Open(i)'
    BY <1>2, <1>4, <2>1 DEF Locked, RowsKept
  <2> QED  BY <1>1, <1>5, <2>1, <2>2 DEF Locked
<1> QED  BY <1>6, <1>7 DEF Closing

LEMMA ClosingNext ==
  ASSUME InStaff, NEW c \in Customers, Agreeing(c), Closing(c),
         KindsMatch, OnlyKnown(c), OnlyKnown(c)', [Next]_vars
  PROVE  Closing(c)'
<1>1. ASSUME NEW h \in Requests, Proceeds(h)
      PROVE  Closing(c)'
  BY <1>1, ClosingRegistration, ClosingCreates, ClosingUse, ClosingFind,
     ClosingReads, ClosingSaveUser, ClosingSaves DEF Proceeds
<1>2. ASSUME NEW h \in Requests, Raise(h)
      PROVE  FALSE
  <2>1. faults' = faults + 1 /\ faults \in Nat /\ faults' = 0
    BY <1>2, StaffGrants DEF Raise, IInv, TypeOK
  <2> QED  BY <2>1
<1>3. UNCHANGED vars => Closing(c)'
  <2> SUFFICES ASSUME UNCHANGED vars  PROVE Closing(c)'
    OBVIOUS
  <2>1. UNCHANGED <<customer, user, rows, closed, Turn>>
    BY TurnStays DEF vars, history
  <2> QED  BY <2>1 DEF Closing, Rooted, Locked, Open
<1>4. CASE Next
  BY <1>1, <1>2, <1>4, ClosingStarts, ClosingRedeem, ClosingRows
     DEF Next, Redeeming
<1> QED  BY <1>3, <1>4

\* A customer whose status staff change, or whose account is closed, was
\* registered.
Known ==
  /\ \A h \in Requests : request[h].op = "status" =>
       customer[request[h].customer].status # "none"
  /\ \A c \in closed : customer[c].status # "none"

LEMMA KnownNext ==
  ASSUME IInv, AllOrdered, TotalsInv, Known, [Next]_vars
  PROVE  Known'
<1>1. \A c \in Customers :
        customer[c].status # "none" => customer'[c].status # "none"
  BY StaysKnown
<1>2. closed \subseteq Customers
  BY DEF IInv, TypeOK
<1>3. \A h \in Requests :
        request[h].op = "status" => request[h].customer \in Customers
  BY DEF IInv, PlansKept, Planned
<1>4. ASSUME NEW h \in Requests, NEW q, Becomes(h, q),
             \/ q.op # "status"
             \/ q.op = request[h].op /\ q.customer = request[h].customer
             \/ customer[q.customer].status # "none" /\ q.customer \in Customers,
             closed' \subseteq closed \union
               {c \in {request[h].customer} : request[h].op = "status"}
      PROVE  Known'
  <2>1. ASSUME NEW g \in Requests, request'[g].op = "status"
        PROVE  customer'[request'[g].customer].status # "none"
    <3>1. CASE g = h
      <4>1. request'[g] = q
        BY <1>4, <3>1, OneMoves
      <4> QED  BY <1>1, <1>3, <1>4, <2>1, <4>1 DEF Known
    <3>2. CASE g # h
      <4>1. request'[g] = request[g]
        BY <1>4, <3>2, OneMoves
      <4> QED  BY <1>1, <1>3, <2>1, <4>1 DEF Known
    <3> QED  BY <3>1, <3>2
  <2>2. \A c \in closed' : customer'[c].status # "none"
    BY <1>1, <1>2, <1>3, <1>4 DEF Known
  <2> QED  BY <2>1, <2>2 DEF Known
<1>5. ASSUME UNCHANGED <<customer, request, closed>>  PROVE Known'
  BY <1>5 DEF Known
<1>6. ASSUME NEW h \in Requests, NEW c \in Customers, Register(h, c)
      PROVE  Known'
  <2>1. \E q : Becomes(h, q) /\ q.op # "status"
    BY <1>6, RegisterMoves
  <2> QED  BY <1>4, <1>6, <2>1 DEF Register, history
<1>7. ASSUME NEW h \in Requests, NEW c \in Customers, Purchase(h, c)
      PROVE  Known'
  <2>1. \E q : Becomes(h, q) /\ q.op # "status"
    BY <1>7, PurchaseMoves
  <2> QED  BY <1>4, <1>7, <2>1 DEF Purchase, history
<1>8. ASSUME NEW h \in Requests, NEW c \in Customers,
             NEW status \in {"active", "deactivated"}, ChangeStatus(h, c, status)
      PROVE  Known'
  <2>1. \E q : Becomes(h, q) /\ q.customer = c
    BY <1>8, ChangeStatusMoves
  <2>2. customer[c].status # "none" /\ closed' \subseteq closed
    BY <1>8 DEF ChangeStatus
  <2> QED  BY <1>4, <2>1, <2>2
<1>9. ASSUME NEW h \in Requests, NEW op \in Redeeming, NEW i \in DOMAIN rows,
             NEW via \in Channels, Redeem(h, op, i, via)
      PROVE  Known'
  <2>1. \E q : Becomes(h, q) /\ q.op # "status"
    <3>1. \E q \in Request : Becomes(h, q) /\ q.op = op
      BY <1>9, RedeemMoves
    <3> QED  BY <3>1 DEF Redeeming
  <2> QED  BY <1>4, <1>9, <2>1 DEF Redeem, history
<1>10. ASSUME NEW h \in Requests, Proceeds(h)
       PROVE  Known'
  <2> DEFINE r == request[h]
  <2>1. \E q : /\ Becomes(h, q)
               /\ \/ q.op # "status"
                  \/ q.op = r.op /\ q.customer = r.customer
    <3>1. CASE \/ SaveCustomer(h) \/ PortalUser(h) \/ SendLink(h)
               \/ SaveOtp(h) \/ Use(h) \/ SaveSetup(h)
               \/ SaveLinked(h) \/ UseParent(h) \/ SaveTotals(h)
      <4>1. \E step \in Step : At(h, step) /\ Becomes(h, Rest(r))
        BY <3>1 DEF SaveCustomer, PortalUser, SendLink, SaveOtp, Use,
           SaveSetup, SaveLinked, UseParent, SaveTotals, Step
      <4>2. \A step \in Step : step # "none"
        BY DEF Step
      <4> QED  BY <4>1, <4>2, GoesOn, IdleRests DEF Same
    <3>2. CASE \/ Find(h) \/ FindOtp(h) \/ FindUser(h) \/ GetUser(h)
               \/ SaveUser(h) \/ SaveStatus(h)
      BY <3>2, FindMoves, FindOtpMoves, FindUserMoves, GetUserMoves,
         SaveUserMoves, SaveStatusMoves, IdleRests DEF Same
    <3>3. CASE FindCustomer(h)
      BY <3>3, FindCustomerMoves
    <3> QED  BY <1>10, <3>1, <3>2, <3>3 DEF Proceeds
  <2>2. closed' \subseteq closed \union {c \in {r.customer} : r.op = "status"}
    <3>1. CASE SaveUser(h)
      <4>1. r.op \in {"password", "account", "status"}
        BY <3>1, SaveUserMoves
      <4>2. r.op # "status" => AfterUser(r.op) # <<>>
        BY <4>1, Tails DEF AfterUser
      <4> QED  BY <3>1, <4>2 DEF SaveUser
    <3>2. CASE ~SaveUser(h)
      BY <1>10, <3>2
         DEF Proceeds, SaveCustomer, PortalUser, SendLink, Find, SaveOtp,
             FindOtp, Use, SaveSetup, FindUser, GetUser, FindCustomer,
             SaveLinked, UseParent, SaveStatus, SaveTotals, history
    <3> QED  BY <3>1, <3>2
  <2> QED  BY <1>4, <2>1, <2>2
<1>11. ASSUME NEW h \in Requests, Raise(h)
       PROVE  Known'
  <2>1. Becomes(h, Idle) /\ UNCHANGED closed
    BY <1>11 DEF Raise, history
  <2> QED  BY <1>4, <2>1, IdleRests
<1>12. CASE Next
  BY <1>5, <1>6, <1>7, <1>8, <1>9, <1>10, <1>11, <1>12
     DEF Next, Redeeming, Expire, CleanUp, history
<1> QED  BY <1>5, <1>12 DEF vars, history

\* What RowsAreSafe rests on.
RowsInv ==
  /\ TotalsInv /\ KindsMatch /\ Known
  /\ scenario = "staff" =>
       \A c \in Customers : OnlyKnown(c) => Agreeing(c) /\ Closing(c)

LEMMA RowsInit == MCInit => RowsInv
<1> SUFFICES ASSUME MCInit  PROVE RowsInv
  OBVIOUS
<1>1. TotalsInv
  BY TotalsInit
<1>2. KindsMatch /\ Known
  BY IdleRests DEF MCInit, Init, KindsMatch, Known, Redeeming
<1>3. Turn = Idle
  BY DEF MCInit, Init, Turn, Quiet
<1>4. /\ \A c \in Customers : customer[c].status = "none"
      /\ ~user.password /\ rows = <<>> /\ closed = {}
  BY DEF MCInit, Init, NoCustomer, NoUser
<1>5. \A c \in Customers : Agreeing(c)
  BY <1>3, <1>4, IdleRests DEF Agreeing, Settled, Agree, Midway
<1>6. \A c \in Customers : Closing(c)
  BY <1>3, <1>4 DEF Closing, Rooted
<1> QED  BY <1>1, <1>2, <1>5, <1>6 DEF RowsInv

LEMMA RowsNext ==
  MCInv /\ RowsInv /\ [MCNext]_<<vars, scenario>> => RowsInv'
<1> SUFFICES ASSUME MCInv, RowsInv, [MCNext]_<<vars, scenario>>
             PROVE  RowsInv'
  OBVIOUS
<1>1. UNCHANGED scenario /\ [Next]_vars /\ IInv /\ AllOrdered
  BY DEF MCInv, MCNext
<1>2. TotalsInv /\ KindsMatch /\ Known
  BY DEF RowsInv
<1>3. TotalsInv' /\ KindsMatch' /\ Known'
  BY <1>1, <1>2, TotalsNext, KindsNext, KnownNext
<1>4. ASSUME scenario = "staff", NEW c \in Customers, OnlyKnown(c)'
      PROVE  Agreeing(c)' /\ Closing(c)'
  <2>1. InStaff
    BY <1>1, <1>2, <1>4, NextMCInv DEF InStaff
  <2>2. OnlyKnown(c)
    BY <1>1, <1>2, <1>4, KnownBefore
  <2>3. Agreeing(c) /\ Closing(c)
    BY <1>4, <2>2 DEF RowsInv
  <2> QED  BY <1>1, <1>2, <1>4, <2>1, <2>2, <2>3, AgreeingNext, ClosingNext
<1> QED  BY <1>1, <1>3, <1>4 DEF RowsInv

\* What requests and staff write over one another's rows: spent challenges
\* stay spent, purchases are kept, and in turns, as long as one customer was
\* registered with the contact address, the customer's and the user's status
\* agree between requests and a closed account stays closed.  The argument of
\* the last two: a request that writes one of the rows is known by its plan to
\* write the other before it ends (Settled), and once an account is closed
\* there is no open link or setup token, so every request that redeems one
\* ends where it looks for it (Locked).  A registration of somebody else may
\* be in flight meanwhile, and of two registered customers only one would be
\* synchronised.
THEOREM RowsAreSafe == MCSpec => []RowsSafe
<1>1. MCInv /\ RowsInv => RowsSafe
  <2> SUFFICES ASSUME MCInv, RowsInv  PROVE RowsSafe
    OBVIOUS
  <2>1. TypeOK /\ SpentStaysSpent /\ TotalsKept
    BY DEF MCInv, RowsInv, IInv, TotalsInv
  <2>2. ASSUME scenario = "staff", Sole,
               NEW c \in Customers, customer[c].status # "none"
        PROVE  Agreeing(c) /\ Closing(c)
    <3>1. OnlyKnown(c)
      BY <2>2 DEF Sole, OnlyKnown
    <3> QED  BY <2>2, <3>1 DEF RowsInv
  <2>3. ASSUME scenario = "staff", Sole  PROVE StatusesAgree
    <3> SUFFICES ASSUME Quiet, NEW c \in Customers,
                        customer[c].status \in {"active", "deactivated"}
                 PROVE  Agree(customer[c], user)
      BY DEF StatusesAgree, Agree
    <3>1. Turn = Idle
      BY DEF Turn
    <3>2. Settled(Idle, customer[c], user)
      BY <2>2, <2>3, <3>1 DEF Agreeing
    <3> QED  BY <3>2, IdleRests DEF Settled
  <2>4. ASSUME scenario = "staff", Sole  PROVE ClosedStaysClosed
    <3> SUFFICES ASSUME NEW c \in closed
                 PROVE  customer[c].status = "deactivated"
      BY DEF ClosedStaysClosed
    <3>1. c \in Customers /\ customer[c].status # "none"
      BY <2>1 DEF TypeOK, RowsInv, Known
    <3> QED  BY <2>2, <2>4, <3>1 DEF Closing, Locked
  <2> QED  BY <2>1, <2>3, <2>4
           DEF RowsSafe, StatusesAgreeInTurns, ClosedStaysInTurns
<1> QED  BY <1>1, InitMCInv, NextMCInv, RowsInit, RowsNext, PTL DEF MCSpec

=============================================================================
