----------------------------- MODULE Activation -----------------------------
(***************************************************************************)
(* How a customer's account comes to life: ActivationService, with the     *)
(* parts of BulkDataCustomersService and UserService that write the two    *)
(* rows it brings together, the customer and the user of its portal.       *)
(*                                                                         *)
(* A registration sends a link.  With the link a one-time password is      *)
(* asked for, with the one-time password a token to set up a password,     *)
(* and setting it makes user and customer active.  All three are rows of   *)
(* auth_challenges.  Meanwhile staff change the customer's status, the     *)
(* customer buys, time passes, and an hourly job deletes old rows.         *)
(*                                                                         *)
(* A request is a plan of steps, one for each `await` on the database.     *)
(* UserService reads the user through its copy in Redis, which is          *)
(* LoginLockout's subject; here it reads the row.                          *)
(***************************************************************************)
EXTENDS FiniteSets, Naturals, Sequences

CONSTANTS
  Requests,     \* slots for requests in flight
  Customers,    \* customers registered with one contact address
  Uses,         \* the operations that happen
  MayOverlap,   \* operations that run beside any other; the rest take turns
  MaxRows,      \* bound: challenges created
  MaxChanges,   \* bound: status changes by staff
  MaxPurchases, \* bound: purchases
  MaxFaults,    \* bound: failed calls
  None          \* no customer

Operations ==
  {"register", "otp", "verify", "password", "account", "status", "purchase"}

Channels == {"email", "sms"}

ASSUME ActivationConstants ==
  /\ Uses \subseteq Operations
  /\ MayOverlap \subseteq Operations
  /\ {MaxRows, MaxChanges, MaxPurchases, MaxFaults} \subseteq Nat
  /\ None \notin Customers
  /\ IsFiniteSet(Requests)

VARIABLES
  customer,     \* rows of the customers
  user,         \* row of the portal's user
  rows,         \* auth_challenges, in the order of their creation
  request,      \* requests in flight
  changes,      \* status changes by staff
  faults,       \* failed calls
  \* history, read by properties only
  bought,       \* purchases each customer completed
  answered,     \* challenges that were redeemed by an answered request
  again,        \* a challenge was redeemed after it had been
  setups,       \* setup tokens made of each challenge
  passwords,    \* passwords set under each link
  closed        \* customers deactivated when no token was left

history == <<bought, answered, again, setups, passwords, closed>>
vars == <<customer, user, rows, request, changes, faults, history>>

Customer ==
  [status : {"none", "pending", "active", "deactivated"}, totals : Nat]

User ==
  [status : {"none", "pending", "active", "inactive"},
   email : BOOLEAN,              \* emailVerified
   phone : BOOLEAN,              \* phoneVerified
   password : BOOLEAN]           \* one is set

\* `parent` is the link a challenge belongs to, 0 for links.
Challenge ==
  [kind : {"link", "otp", "setup"}, parent : Nat, via : Channels,
   isUsed : BOOLEAN, expired : BOOLEAN, deleted : BOOLEAN]

Step ==
  {"saveCustomer", "portal", "link", "find", "saveOtp", "findOtp", "use",
   "saveSetup", "findUser", "getUser", "saveUser", "findCustomer",
   "saveLinked", "useParent", "saveStatus", "saveTotals"}

\* What a save of the user is for.
Edit == {"password", "activate", "email", "phone", "sync"}

Request ==
  [op : Operations \union {"none"},
   plan : Seq(Step),
   edits : Seq(Edit),            \* the saves of the user it has yet to make
   id : Nat,                     \* the challenge it redeems, 0 for none
   via : Channels,
   late : BOOLEAN,               \* the challenge had been redeemed before
   customer : Customers \union {None},
   entity : Customer,            \* its copy of the customer
   user : User]                  \* its copy of the user

NoUser ==
  [status |-> "none", email |-> FALSE, phone |-> FALSE, password |-> FALSE]

NoCustomer == [status |-> "none", totals |-> 0]

Idle ==
  [op |-> "none", plan |-> <<>>, edits |-> <<>>, id |-> 0, via |-> "email",
   late |-> FALSE, customer |-> None, entity |-> NoCustomer, user |-> NoUser]

(***************************************************************************)
(* One type invariant for the whole state.                                 *)
(***************************************************************************)
TypeOK ==
  /\ customer \in [Customers -> Customer]
  /\ user \in User
  /\ rows \in Seq(Challenge)
  /\ \A i \in DOMAIN rows : rows[i].parent \in 0 .. i - 1
  /\ request \in [Requests -> Request]
  /\ {changes, faults} \subseteq Nat
  /\ bought \in [Customers -> Nat]
  /\ answered \subseteq DOMAIN rows
  /\ again \in BOOLEAN
  /\ {setups, passwords} \subseteq [1 .. MaxRows -> Nat]
  /\ closed \subseteq Customers

Init ==
  /\ customer = [c \in Customers |-> NoCustomer]
  /\ user = NoUser
  /\ rows = <<>>
  /\ request = [h \in Requests |-> Idle]
  /\ changes = 0
  /\ faults = 0
  /\ bought = [c \in Customers |-> 0]
  /\ answered = {}
  /\ again = FALSE
  /\ setups = [i \in 1 .. MaxRows |-> 0]
  /\ passwords = [i \in 1 .. MaxRows |-> 0]
  /\ closed = {}

-----------------------------------------------------------------------------
(* Vocabulary of the actions                                               *)

Becomes(h, r) == request' = [request EXCEPT ![h] = r]

At(h, step) == request[h].plan # <<>> /\ Head(request[h].plan) = step

Rest(r) == IF Len(r.plan) = 1 THEN Idle ELSE [r EXCEPT !.plan = Tail(@)]

Last(r) == Len(r.plan) = 1

Quiet == \A h \in Requests : request[h] = Idle

\* The operations outside MayOverlap wait for one another.
Admitted(h, op) ==
  /\ op \in Uses
  /\ request[h] = Idle
  /\ op \in MayOverlap
     \/ \A g \in Requests : request[g].op \in MayOverlap \union {"none"}

\* Faulty variant of Row: a challenge names itself as its link.
RowOfItself(kind, parent, via) ==
  [kind |-> kind, parent |-> Len(rows) + 1, via |-> via, isUsed |-> FALSE,
   expired |-> FALSE, deleted |-> FALSE]

\* A challenge as it is created.
Row(kind, parent, via) ==
  [kind |-> kind, parent |-> parent, via |-> via, isUsed |-> FALSE,
   expired |-> FALSE, deleted |-> FALSE]

LinkOf(i) == IF rows[i].kind = "link" THEN i ELSE rows[i].parent

\* Within the bound: room for what the requests in flight create.
Room ==
  Len(rows) + Cardinality({h \in Requests :
                request[h].op \in {"register", "otp", "verify"}}) < MaxRows

\* A row that findOne({ isUsed: false }) finds and that has not expired.
Open(i) == ~rows[i].isUsed /\ ~rows[i].expired /\ ~rows[i].deleted

\* The account was activated with a password and no setup token is left:
\* nothing should make it active again but staff.
Dormant ==
  /\ user.password
  /\ \A i \in DOMAIN rows : rows[i].kind = "setup" => ~Open(i)
  /\ \A h \in Requests :
       request[h].op \notin {"password", "account", "register", "verify"}

-----------------------------------------------------------------------------
(* A business is registered                                                *)

\* registerCustomer, from its first save.
Register(h, c) ==
  /\ Admitted(h, "register")
  /\ customer[c].status = "none"
  /\ Room
  /\ \A g \in Requests : request[g].customer # c
  /\ Becomes(h, [Idle EXCEPT !.op = "register", !.customer = c,
                             !.plan = <<"saveCustomer", "portal", "link">>])
  /\ UNCHANGED <<customer, user, rows, changes, faults, history>>

SaveCustomer(h) ==
  LET r == request[h] IN
  /\ At(h, "saveCustomer")
  /\ customer' = [customer EXCEPT ![r.customer] =
       [status |-> "pending", totals |-> 0]]
  /\ Becomes(h, Rest(r))
  /\ UNCHANGED <<user, rows, changes, faults, history>>

\* createOrUpdateCustomerPortalUser: a user with this address is used again,
\* and is pending unless it is active.
PortalUser(h) ==
  LET active == user.status = "active" IN
  /\ At(h, "portal")
  /\ user' = [user EXCEPT !.status = IF active THEN @ ELSE "pending",
                          !.email = active /\ @, !.phone = active /\ @]
  /\ Becomes(h, Rest(request[h]))
  /\ UNCHANGED <<customer, rows, changes, faults, history>>

\* createActivationChallenge.
SendLink(h) ==
  /\ At(h, "link")
  /\ rows' = Append(rows, Row("link", 0, "email"))
  /\ Becomes(h, Rest(request[h]))
  /\ UNCHANGED <<customer, user, changes, faults, history>>

-----------------------------------------------------------------------------
(* Redeeming a challenge                                                   *)

\* OTPs are asked for with a link; the other endpoints take any open token.
Kinds(op) ==
  CASE op = "otp" -> {"link"}
    [] op = "verify" -> {"otp"}
    [] op \in {"password", "account"} -> {"link", "setup"}

Redeem(h, op, i, via) ==
  /\ Admitted(h, op)
  /\ i \in DOMAIN rows
  /\ rows[i].kind \in Kinds(op)
  /\ via = "email" \/ op = "otp"
  /\ op \in {"otp", "verify"} => Room
  /\ Becomes(h, [Idle EXCEPT !.op = op, !.id = i, !.via = via,
                             !.late = i \in answered, !.plan = <<"find">>])
  /\ UNCHANGED <<customer, user, rows, changes, faults, history>>

\* Where an accepted challenge leads.
Accepted(op) ==
  CASE op = "otp" -> <<"saveOtp">>
    [] op = "verify" -> <<"findOtp", "use", "saveSetup">>
    [] op \in {"password", "account"} -> <<"findUser">>

\* Faulty variant of Find: used challenges are found.
FindUsed(h) ==
  LET r == request[h] IN
  /\ At(h, "find")
  /\ IF rows[r.id].expired \/ rows[r.id].deleted
       THEN Becomes(h, Idle) /\ UNCHANGED again
       ELSE /\ Becomes(h, [r EXCEPT !.plan = Accepted(r.op)])
            /\ again' = (again \/ (r.late /\ r.op # "otp"))
  /\ UNCHANGED <<customer, user, rows, changes, faults, bought, answered,
                 setups, passwords, closed>>

\* The link, or what the token names, must be open.
Find(h) ==
  LET r == request[h]
      i == IF r.op = "verify" THEN LinkOf(r.id) ELSE r.id
  IN
  /\ At(h, "find")
  /\ IF Open(i)
       THEN /\ Becomes(h, [r EXCEPT !.plan = Accepted(r.op)])
            /\ again' = (again \/ (r.late /\ r.op \in {"password", "account"}))
       ELSE Becomes(h, Idle) /\ UNCHANGED again
  /\ UNCHANGED <<customer, user, rows, changes, faults, bought, answered,
                 setups, passwords, closed>>

\* requestActivationOtp.
SaveOtp(h) ==
  LET r == request[h] IN
  /\ At(h, "saveOtp")
  /\ rows' = Append(rows, Row("otp", r.id, r.via))
  /\ Becomes(h, Rest(r))
  /\ UNCHANGED <<customer, user, changes, faults, history>>

\* verifyActivationOtp: the OTP must be open as well.
FindOtp(h) ==
  LET r == request[h] IN
  /\ At(h, "findOtp")
  /\ IF Open(r.id)
       THEN /\ Becomes(h, Rest(r))
            /\ again' = (again \/ r.late)
       ELSE Becomes(h, Idle) /\ UNCHANGED again
  /\ UNCHANGED <<customer, user, rows, changes, faults, bought, answered,
                 setups, passwords, closed>>

\* Faulty variant of Use: the row of a redeemed OTP is left as it is.
UsePasswordsOnly(h) ==
  LET r == request[h] IN
  /\ At(h, "use")
  /\ rows' = IF r.op = "verify" THEN rows
             ELSE [rows EXCEPT ![r.id].isUsed = TRUE]
  /\ answered' = answered \union {r.id}
  /\ Becomes(h, Rest(r))
  /\ UNCHANGED <<customer, user, changes, faults, bought, again, setups,
                 passwords, closed>>

\* Saved as used; a row deleted meanwhile is inserted again.
Use(h) ==
  LET r == request[h] IN
  /\ At(h, "use")
  /\ rows' = [rows EXCEPT ![r.id].isUsed = TRUE, ![r.id].deleted = FALSE]
  /\ answered' = answered \union {r.id}
  /\ Becomes(h, Rest(r))
  /\ UNCHANGED <<customer, user, changes, faults, bought, again, setups,
                 passwords, closed>>

SaveSetup(h) ==
  LET r == request[h] IN
  /\ At(h, "saveSetup")
  /\ rows' = Append(rows, Row("setup", LinkOf(r.id), rows[r.id].via))
  /\ setups' = [setups EXCEPT ![r.id] = @ + 1]
  /\ Becomes(h, Rest(r))
  /\ UNCHANGED <<customer, user, changes, faults, bought, answered, again,
                 passwords, closed>>

-----------------------------------------------------------------------------
(* createPassword and activateAccount                                      *)

\* The saves a user needs, decided on one reading of it.
Edits(op, u, via) ==
  (IF op = "password" THEN <<"password">> ELSE <<>>)
  \o (IF u.status # "active" THEN <<"activate">> ELSE <<>>)
  \o (IF ~u.email /\ (via # "sms" \/ op = "account") THEN <<"email">>
                                                     ELSE <<>>)
  \o (IF ~u.phone /\ via = "sms" /\ op = "password" THEN <<"phone">>
                                                    ELSE <<>>)

\* Faulty variant of AfterUser: the tokens are used before the customer's row.
AfterUserTooSoon(op) ==
  CASE op = "password" -> <<"use", "useParent", "findCustomer", "saveLinked">>
    [] op = "account" -> <<"use">>
    [] op = "status" -> <<>>

\* What follows the saves of the user.
AfterUser(op) ==
  CASE op = "password" -> <<"findCustomer", "saveLinked", "use", "useParent">>
    [] op = "account" -> <<"use">>
    [] op = "status" -> <<>>

FindUser(h) ==
  LET r == request[h]
      edits == Edits(r.op, user, rows[r.id].via)
  IN
  /\ At(h, "findUser")
  /\ Becomes(h, [r EXCEPT !.edits = edits,
       !.plan = IF edits = <<>> THEN AfterUser(r.op) ELSE <<"getUser">>])
  /\ UNCHANGED <<customer, user, rows, changes, faults, history>>

\* requireById, at the start of each of UserService's writers.
GetUser(h) ==
  LET r == request[h] IN
  /\ At(h, "getUser")
  /\ Becomes(h, [r EXCEPT !.user = user, !.plan = <<"saveUser">>])
  /\ UNCHANGED <<customer, user, rows, changes, faults, history>>

Edited(edit, u, c) ==
  CASE edit = "password" -> [u EXCEPT !.password = TRUE]
    [] edit = "activate" -> [u EXCEPT !.status = "active"]
    [] edit = "email" -> [u EXCEPT !.email = TRUE]
    [] edit = "phone" -> [u EXCEPT !.phone = TRUE]
    [] edit = "sync" ->
         [u EXCEPT !.status = IF c.status = "active" THEN "active"
                                                     ELSE "inactive"]

\* The copy is saved whole, but for the password, which copies do not have.
SaveUser(h) ==
  LET r == request[h]
      edit == Head(r.edits)
      left == Tail(r.edits)
      plan == IF left = <<>> THEN AfterUser(r.op) ELSE <<"getUser">>
      u == [r.user EXCEPT !.password = user.password]
  IN
  /\ At(h, "saveUser")
  /\ user' = Edited(edit, u, r.entity)
  /\ passwords' = IF edit = "password"
                  THEN [passwords EXCEPT ![LinkOf(r.id)] = @ + 1]
                  ELSE passwords
  /\ Becomes(h, IF plan = <<>> THEN Idle
                ELSE [r EXCEPT !.edits = left, !.plan = plan, !.user = NoUser])
  /\ closed' = IF plan = <<>> /\ r.entity.status = "deactivated" /\ Dormant
               THEN closed \union {r.customer} ELSE closed
  /\ UNCHANGED <<customer, rows, changes, faults, bought, answered, again,
                 setups>>

\* Faulty variant of FindCustomer: an active customer is saved as well.
FindAnyCustomer(h) ==
  LET r == request[h] IN
  /\ At(h, "findCustomer")
  /\ \E c \in Customers :
       /\ customer[c].status # "none"
       /\ Becomes(h, [r EXCEPT !.plan = Tail(@), !.customer = c,
                               !.entity = customer[c]])
  /\ UNCHANGED <<customer, user, rows, changes, faults, history>>

\* activateLinkedCustomer: one of the customers with the user's address.
FindCustomer(h) ==
  LET r == request[h] IN
  /\ At(h, "findCustomer")
  /\ \E c \in Customers :
       /\ customer[c].status # "none"
       /\ Becomes(h,
            IF customer[c].status = "active"
            THEN [r EXCEPT !.plan = <<"use", "useParent">>]
            ELSE [r EXCEPT !.plan = Tail(@), !.customer = c,
                           !.entity = customer[c]])
  /\ UNCHANGED <<customer, user, rows, changes, faults, history>>

\* Faulty variant of SaveLinked: the customer's row is left alone.
SaveNotLinked(h) ==
  /\ At(h, "saveLinked")
  /\ Becomes(h, Rest(request[h]))
  /\ UNCHANGED <<customer, user, rows, changes, faults, history>>

SaveLinked(h) ==
  LET r == request[h] IN
  /\ At(h, "saveLinked")
  /\ customer' = [customer EXCEPT ![r.customer] =
                    [r.entity EXCEPT !.status = "active"]]
  /\ Becomes(h, Rest(r))
  /\ UNCHANGED <<user, rows, changes, faults, history>>

\* Faulty variant of UseParent: the link stays open.
UseNoParent(h) ==
  /\ At(h, "useParent")
  /\ Becomes(h, Rest(request[h]))
  /\ UNCHANGED <<customer, user, rows, changes, faults, history>>

\* The link of a setup token is used with it.
UseParent(h) ==
  LET r == request[h]
      i == LinkOf(r.id)
  IN
  /\ At(h, "useParent")
  /\ rows' = [rows EXCEPT ![i].isUsed = TRUE]
  /\ answered' = answered \union {i}
  /\ Becomes(h, Rest(r))
  /\ UNCHANGED <<customer, user, changes, faults, bought, again, setups,
                 passwords, closed>>

-----------------------------------------------------------------------------
(* Staff and purchases                                                     *)

\* changeCustomerStatus reads the row ...
ChangeStatus(h, c, status) ==
  /\ Admitted(h, "status")
  /\ customer[c].status # "none"
  /\ changes < MaxChanges
  /\ changes' = changes + 1
  /\ Becomes(h, [Idle EXCEPT !.op = "status", !.customer = c,
       !.entity = [customer[c] EXCEPT !.status = status],
       !.plan = <<"saveStatus">>])
  /\ closed' = IF status = "active" THEN closed \ {c} ELSE closed
  /\ UNCHANGED <<customer, user, rows, faults, bought, answered, again,
                 setups, passwords>>

\* ... saves it, and gives the user of the portal its status.
SaveStatus(h) ==
  LET r == request[h] IN
  /\ At(h, "saveStatus")
  /\ customer' = [customer EXCEPT ![r.customer] = r.entity]
  /\ Becomes(h, IF user.status = "none" THEN Idle
                ELSE [r EXCEPT !.edits = <<"sync">>, !.plan = <<"getUser">>])
  /\ UNCHANGED <<user, rows, changes, faults, history>>

\* A purchase of an active customer reads the row ...
Purchase(h, c) ==
  /\ Admitted(h, "purchase")
  /\ customer[c].status = "active"
  /\ bought[c] < MaxPurchases
  /\ \A g \in Requests : request[g].op # "purchase"
  /\ Becomes(h, [Idle EXCEPT !.op = "purchase", !.customer = c,
                             !.entity = customer[c],
                             !.plan = <<"saveTotals">>])
  /\ UNCHANGED <<customer, user, rows, changes, faults, history>>

\* ... and saves its totals.
SaveTotals(h) ==
  LET r == request[h] IN
  /\ At(h, "saveTotals")
  /\ customer' = [customer EXCEPT ![r.customer] =
                    [r.entity EXCEPT !.totals = @ + 1]]
  /\ bought' = [bought EXCEPT ![r.customer] = @ + 1]
  /\ Becomes(h, Rest(r))
  /\ UNCHANGED <<user, rows, changes, faults, answered, again, setups,
                 passwords, closed>>

-----------------------------------------------------------------------------
(* Time, the hourly job and failures                                       *)

\* OTPs live ten minutes, setup tokens an hour, links two days.
Expire(i) ==
  /\ i \in DOMAIN rows
  /\ ~rows[i].expired
  /\ rows' = [rows EXCEPT ![i].expired = TRUE]
  /\ UNCHANGED <<customer, user, request, changes, faults, history>>

\* Faulty variant of CleanUp: expired rows that were not used are kept.
CleanUpUsed ==
  /\ \E i \in DOMAIN rows : rows[i].isUsed /\ ~rows[i].deleted
  /\ rows' = [i \in DOMAIN rows |->
       IF rows[i].isUsed THEN [rows[i] EXCEPT !.deleted = TRUE] ELSE rows[i]]
  /\ UNCHANGED <<customer, user, request, changes, faults, history>>

\* cleanupExpiredActivationChallenges.
CleanUp ==
  LET old(i) == rows[i].isUsed \/ rows[i].expired IN
  /\ \E i \in DOMAIN rows : old(i) /\ ~rows[i].deleted
  /\ rows' = [i \in DOMAIN rows |->
       IF old(i) THEN [rows[i] EXCEPT !.deleted = TRUE] ELSE rows[i]]
  /\ UNCHANGED <<customer, user, request, changes, faults, history>>

\* A call to the database fails, and so does the request.
Raise(h) ==
  /\ faults < MaxFaults
  /\ request[h] # Idle
  /\ Becomes(h, Idle)
  /\ faults' = faults + 1
  /\ UNCHANGED <<customer, user, rows, changes, history>>

-----------------------------------------------------------------------------
Proceeds(h) ==
  \/ SaveCustomer(h) \/ PortalUser(h) \/ SendLink(h)
  \/ Find(h) \/ SaveOtp(h) \/ FindOtp(h) \/ Use(h) \/ SaveSetup(h)
  \/ FindUser(h) \/ GetUser(h) \/ SaveUser(h)
  \/ FindCustomer(h) \/ SaveLinked(h) \/ UseParent(h)
  \/ SaveStatus(h) \/ SaveTotals(h)

Next ==
  \/ \E h \in Requests :
       \/ \E c \in Customers :
            \/ Register(h, c)
            \/ Purchase(h, c)
            \/ \E status \in {"active", "deactivated"} :
                 ChangeStatus(h, c, status)
       \/ \E op \in {"otp", "verify", "password", "account"},
             i \in DOMAIN rows, via \in Channels : Redeem(h, op, i, via)
       \/ Proceeds(h)
       \/ Raise(h)
  \/ \E i \in 1 .. MaxRows : Expire(i)
  \/ CleanUp

Spec == Init /\ [][Next]_vars

\* Started requests go on, and the cron expression starts the job.
Fairness ==
  /\ \A h \in Requests : WF_vars(Proceeds(h))
  /\ WF_vars(CleanUp)

-----------------------------------------------------------------------------
(* Properties                                                              *)

\* A token that was redeemed by an answered request is accepted by none that
\* begins later, whatever runs beside it and although the job deletes rows
\* that requests in flight insert again.
SpentStaysSpent == ~again

\* One OTP is worth one setup token, also when requests fail half-way.
OneSetupPerOtp == \A i \in DOMAIN setups : setups[i] <= 1

\* Between requests a customer who may buy may log in, and one who was
\* deactivated may not.
StatusesAgree ==
  Quiet => \A c \in Customers :
    /\ customer[c].status = "active" => user.status = "active"
    /\ customer[c].status = "deactivated" => user.status # "active"

\* Once a customer has set his password and has no setup token left, he
\* stays deactivated until staff reactivate him: the link is used, too, and
\* so are its OTPs.
ClosedStaysClosed == \A c \in closed : customer[c].status = "deactivated"

\* Saves of the whole row of a customer lose no purchase.
TotalsKept == \A c \in Customers : customer[c].totals = bought[c]

\* An activation that failed half-way can be repeated: a customer who waits
\* has a token that was not used (it may have expired).
NotStranded ==
  Quiet /\ rows # <<>> /\ (\E c \in Customers : customer[c].status = "pending")
    => \E i \in DOMAIN rows : rows[i].kind # "otp" /\ ~rows[i].isUsed

-----------------------------------------------------------------------------
(* Promised, and not kept (the README tells how)                           *)

\* The link makes one password, the first.
FirstPasswordOnly == \A i \in DOMAIN passwords : passwords[i] <= 1

\* Only staff reactivate a customer.
ReactivatedByStaff ==
  [][\A c \in Customers :
       customer[c].status = "deactivated" /\ customer'[c].status = "active" =>
         \E h \in Requests : request[h].op = "status"]_vars

=============================================================================
