--------------------------- MODULE NumberRegistry ---------------------------
(***************************************************************************)
(* Customer accounts and the mobile numbers that belong to them:           *)
(* BulkDataCustomersService.  A primary number is an entry of the account  *)
(* row; a secondary number is a row of its own whose id is made of the     *)
(* number, so that there is one row per number, active or removed.         *)
(*                                                                         *)
(* As in Payments a request is interrupted at every `await` and works on   *)
(* the entities it read.  Several columns of one row depend on each other  *)
(* here, so repository.save is modelled in its two steps: it selects the   *)
(* row to see which columns of the entity differ, then inserts the row or  *)
(* updates those columns.                                                  *)
(***************************************************************************)
EXTENDS Integers, FiniteSets

CONSTANTS
  Customers,    \* account ids; the id is a slug of the business name
  Numbers,      \* mobile numbers
  Apns,         \* access point names an account may be registered with
  Requests,     \* slots for API requests in flight
  Owned,        \* primary numbers at the start; {}: not registered yet
  HomeApn,      \* the APN every account has at the start
  MaxUpload,    \* bound: numbers in one bulk upload
  MaxCount,     \* bound: secondaryCount at which no more numbers are added
  MaxFaults,    \* bound: failed database calls and process crashes
  None          \* no account, number or APN

Operations ==
  {"register", "addPrimary", "add", "remove", "update", "other", "balance",
   "purchase"}

ASSUME RegistryConstants ==
  /\ IsFiniteSet(Numbers)
  /\ Owned \in [Customers -> SUBSET Numbers]
  /\ \A c, d \in Customers : c # d => Owned[c] \cap Owned[d] = {}
  /\ HomeApn \in Apns
  /\ MaxUpload \in Nat
  /\ MaxCount \in Nat
  /\ MaxFaults \in Nat
  /\ None \notin Customers \union Numbers \union Apns

VARIABLES
  \* rows of the database
  customer,      \* account rows
  member,        \* the row of each number as a secondary number
  balance,       \* the balance row of each number
  \* memory of the process
  request,       \* requests in flight, with the entities they hold
  \* history, read by properties only
  verified,      \* <<number, APN>> pairs the APN provider confirmed
  unlinked,      \* numbers whose removal the PCRF acknowledged
  held,          \* secondary numbers each caller was told it has
  interrupted,   \* accounts a request left half saved
  faults         \* failed database calls and crashes so far

rows == <<customer, member, balance>>
history == <<verified, unlinked, held, interrupted>>
vars == <<rows, request, history, faults>>

CustomerRow ==
  [known : BOOLEAN, primaries : SUBSET Numbers, count : Nat,
   apn : Apns \union {None}]

MemberRow ==
  [known : BOOLEAN, status : {"active", "removed"},
   who : Customers \union {None}, primary : Numbers \union {None},
   apn : Apns \union {None}]

Columns ==
  {"known", "primaries", "count", "apn", "status", "who", "primary"}

NoCustomer == [known |-> FALSE, primaries |-> {}, count |-> 0, apn |-> None]

NoMember ==
  [known |-> FALSE, status |-> "removed", who |-> None, primary |-> None,
   apn |-> None]

Step ==
  {"idle", "readOwner", "readMember", "verify", "reverify", "readRow",
   "unlink", "selectMember", "writeMember", "selectCustomer",
   "writeCustomer", "zeroBalance", "readBalance", "deliver"}

Request ==
  [op : Operations \union {"none"},
   at : Step,
   who : Customers \union {None},
   number : Numbers \union {None},      \* the number at hand
   primary : Numbers \union {None},     \* the primary number of the family
   todo : SUBSET Numbers,               \* numbers still to be looked at
   added : SUBSET Numbers,              \* rows saved by a bulk upload
   cus : CustomerRow,                   \* its customer entity
   mem : MemberRow,                     \* its secondary number entity
   dirty : SUBSET Columns]              \* columns the save found different

Idle ==
  [op |-> "none", at |-> "idle", who |-> None, number |-> None,
   primary |-> None, todo |-> {}, added |-> {}, cus |-> NoCustomer,
   mem |-> NoMember, dirty |-> {}]

(***************************************************************************)
(* One type invariant for the whole state.                                 *)
(***************************************************************************)
TypeOK ==
  /\ customer \in [Customers -> CustomerRow]
  /\ member \in [Numbers -> MemberRow]
  /\ balance \in [Numbers -> {"none", "empty", "bundle"}]
  /\ request \in [Requests -> Request]
  /\ verified \subseteq Numbers \X Apns
  /\ unlinked \subseteq Numbers
  /\ held \in [Customers -> SUBSET Numbers]
  /\ interrupted \subseteq Customers
  /\ faults \in Nat

\* Accounts registered earlier, with verified primary numbers and balances.
Init ==
  /\ customer = [c \in Customers |->
       IF Owned[c] = {} THEN NoCustomer
       ELSE [known |-> TRUE, primaries |-> Owned[c], count |-> 0,
             apn |-> HomeApn]]
  /\ member = [n \in Numbers |-> NoMember]
  /\ balance = [n \in Numbers |->
       IF \E c \in Customers : n \in Owned[c] THEN "empty" ELSE "none"]
  /\ request = [h \in Requests |-> Idle]
  /\ verified = (UNION {Owned[c] : c \in Customers}) \X {HomeApn}
  /\ unlinked = {}
  /\ held = [c \in Customers |-> {}]
  /\ interrupted = {}
  /\ faults = 0

-----------------------------------------------------------------------------
(* Vocabulary of the actions                                               *)

\* requireCustomer: the account is read, and must be there.
Begin(op, at, c) ==
  [Idle EXCEPT !.op = op, !.at = at, !.who = c, !.cus = customer[c]]

Becomes(h, r) == request' = [request EXCEPT ![h] = r]

\* A request between the save of a secondary number and that of its account.
Halfway(r) ==
  \/ r.op = "add" /\ r.added # {}
  \/ r.op = "remove" /\ r.at \in {"selectCustomer", "writeCustomer"}

\* An exception ends the request; what it saved stays.
Raise(h) ==
  /\ Becomes(h, Idle)
  /\ interrupted' = IF Halfway(request[h])
                      THEN interrupted \union {request[h].who}
                      ELSE interrupted

\* repository.save, first step: the columns of the entity that differ.
Differing(row, entity) == {k \in DOMAIN row : row[k] # entity[k]}

\* Second step: those columns are written.
Merged(row, entity, dirty) ==
  [k \in DOMAIN row |-> IF k \in dirty THEN entity[k] ELSE row[k]]

\* The row was not there when it was looked up, and is now.
DuplicateKey(row, dirty) == "known" \in dirty /\ row.known

-----------------------------------------------------------------------------
(* Requests                                                                *)

\* registerCustomer.  The registration number is looked up, the name, of
\* which the id is made, is not.  The first save has no primary number yet.
RegisterCustomer(h, c, n, apn) ==
  /\ request[h] = Idle
  /\ Becomes(h, [Begin("register", "selectCustomer", c) EXCEPT
       !.number = n,
       !.cus = [known |-> TRUE, primaries |-> {}, count |-> 0, apn |-> apn]])
  /\ UNCHANGED <<rows, history, faults>>

AddPrimaryMsisdn(h, c, n) ==
  /\ request[h] = Idle
  /\ customer[c].known
  /\ n \notin customer[c].primaries
  /\ Becomes(h, [Begin("addPrimary", "readOwner", c) EXCEPT !.number = n])
  /\ UNCHANGED <<rows, history, faults>>

\* addSecondaryNumber (one number) and addSecondaryNumbersBulk.  The numbers
\* of an upload are looked at one after the other.
AddSecondaryNumbers(h, c, p, ns) ==
  /\ request[h] = Idle
  /\ customer[c].known
  /\ customer[c].count < MaxCount
  /\ p \in customer[c].primaries
  /\ \E n \in ns :
       Becomes(h, [Begin("add", "readOwner", c) EXCEPT
         !.primary = p, !.number = n, !.todo = ns \ {n}])
  /\ UNCHANGED <<rows, history, faults>>

RemoveSecondaryNumber(h, c, p, n) ==
  /\ request[h] = Idle
  /\ customer[c].known
  /\ p \in customer[c].primaries
  /\ Becomes(h, [Begin("remove", "readRow", c) EXCEPT
       !.primary = p, !.number = n])
  /\ UNCHANGED <<rows, history, faults>>

\* Faulty variant of ToVerifyAgain: the APN is taken as it comes.
NoneToVerify(c, apn) == {}

\* Primary numbers that must be verified again before an account changes
\* its APN.
ToVerifyAgain(c, apn) ==
  IF apn = customer[c].apn THEN {} ELSE customer[c].primaries

UpdateCustomer(h, c, apn) ==
  LET ns == ToVerifyAgain(c, apn) IN
  /\ request[h] = Idle
  /\ customer[c].known
  /\ Becomes(h, [Begin("update", "selectCustomer", c) EXCEPT
       !.at = IF ns = {} THEN @ ELSE "reverify",
       !.todo = ns, !.cus.apn = apn])
  /\ UNCHANGED <<rows, history, faults>>

\* changeCustomerStatus, finalizeConfirmedPurchase: they change columns that
\* are not modelled here, and save the whole entity.
OtherChange(h, c) ==
  /\ request[h] = Idle
  /\ customer[c].known
  /\ Becomes(h, Begin("other", "selectCustomer", c))
  /\ UNCHANGED <<rows, history, faults>>

\* getBalance and getSecondaryUsage.
GetBalance(h, c, n) ==
  /\ request[h] = Idle
  /\ customer[c].known
  /\ n \in customer[c].primaries
  /\ Becomes(h, [Begin("balance", "readBalance", c) EXCEPT !.number = n])
  /\ UNCHANGED <<rows, history, faults>>

\* updateBalanceAfterPurchase, for a purchase made on number n.
PurchaseDelivered(h, c, n) ==
  /\ request[h] = Idle
  /\ customer[c].known
  /\ n \in customer[c].primaries
  /\ Becomes(h, [Begin("purchase", "readBalance", c) EXCEPT !.number = n])
  /\ UNCHANGED <<rows, history, faults>>

-----------------------------------------------------------------------------
(* May the number be taken, and is it of the account's APN?                *)

\* What a request does next when it is done with one number: a bulk upload
\* goes on, or ends and counts the rows it saved.
AfterNumber(r) ==
  IF r.todo # {}
    THEN {[r EXCEPT !.at = "readOwner", !.number = n, !.todo = @ \ {n},
                    !.mem = NoMember] : n \in r.todo}
  ELSE IF r.added # {}
    THEN {[r EXCEPT !.at = "selectCustomer", !.number = None,
                    !.mem = NoMember,
                    !.cus.count = @ + Cardinality(r.added)]}
  ELSE {Idle}

\* The number is refused.  An upload skips it; a registration goes on
\* without it; the others end.
Refused(h) ==
  LET r == request[h] IN
  IF r.op = "add" THEN \E q \in AfterNumber(r) : Becomes(h, q)
                  ELSE Becomes(h, Idle)

\* Faulty variant of PrimaryElsewhere: nobody looks.
NoOwner(n) == FALSE

\* findPrimaryOwner reads the accounts.
PrimaryElsewhere(n) == \E c \in Customers : n \in customer[c].primaries

ReadOwner(h) ==
  LET r == request[h] IN
  /\ r.at = "readOwner"
  /\ \/ PrimaryElsewhere(r.number) /\ Refused(h)
     \/ /\ ~PrimaryElsewhere(r.number)
        /\ Becomes(h, [r EXCEPT !.at = "readMember"])
  /\ UNCHANGED <<rows, history, faults>>

\* findActiveByMsisdn.
Secondary(n) == member[n].known /\ member[n].status = "active"

ReadMember(h) ==
  LET r == request[h] IN
  /\ r.at = "readMember"
  /\ \/ Secondary(r.number) /\ Refused(h)
     \/ /\ ~Secondary(r.number)
        /\ Becomes(h, [r EXCEPT !.at = "verify"])
  /\ UNCHANGED <<rows, history, faults>>

\* The entity of a secondary number that is added.
NewMember(r) ==
  [known |-> TRUE, status |-> "active", who |-> r.who,
   primary |-> r.primary, apn |-> r.cus.apn]

\* validateMsisdnForCustomer accepts: the entities to save are built.
ApnMatches(h) ==
  LET r == request[h] IN
  /\ r.at = "verify"
  /\ verified' = verified \union {<<r.number, r.cus.apn>>}
  /\ Becomes(h,
       IF r.op = "add"
         THEN [r EXCEPT !.at = "selectMember", !.mem = NewMember(r)]
         ELSE [r EXCEPT !.at = "selectCustomer",
                 !.cus.primaries = @ \union {r.number}])
  /\ UNCHANGED <<rows, unlinked, held, interrupted, faults>>

\* Faulty variant of ApnDiffers: the answer is not looked at.
ApnIgnored(h) ==
  LET r == request[h] IN
  /\ r.at = "verify"
  /\ r.op = "add"
  /\ Becomes(h, [r EXCEPT !.at = "selectMember", !.mem = NewMember(r)])
  /\ UNCHANGED <<rows, history, faults>>

\* Another APN, several, or none.
ApnDiffers(h) ==
  /\ request[h].at = "verify"
  /\ Refused(h)
  /\ UNCHANGED <<rows, history, faults>>

\* updateCustomer verifies one primary number for the new APN ...
ReverifyPrimary(h) ==
  LET r == request[h] IN
  /\ r.at = "reverify"
  /\ \E n \in r.todo :
       /\ verified' = verified \union {<<n, r.cus.apn>>}
       /\ Becomes(h, [r EXCEPT !.todo = @ \ {n},
            !.at = IF r.todo = {n} THEN "selectCustomer" ELSE @])
  /\ UNCHANGED <<rows, unlinked, held, interrupted, faults>>

\* ... or gives up.
ReverifyRefused(h) ==
  /\ request[h].at = "reverify"
  /\ Becomes(h, Idle)
  /\ UNCHANGED <<rows, history, faults>>

-----------------------------------------------------------------------------
(* Removal: the PCRF first, the row afterwards                             *)

\* findActiveMember, of this account and family.
ReadRow(h) ==
  LET r == request[h]
      row == member[r.number]
  IN
  /\ r.at = "readRow"
  /\ \/ /\ Secondary(r.number) /\ row.who = r.who /\ row.primary = r.primary
        /\ Becomes(h, [r EXCEPT !.at = "unlink", !.mem = row])
     \/ /\ ~(Secondary(r.number) /\ row.who = r.who
              /\ row.primary = r.primary)
        /\ Becomes(h, Idle)
  /\ UNCHANGED <<rows, history, faults>>

Unlinked(h) ==
  LET r == request[h] IN
  /\ r.at = "unlink"
  /\ unlinked' = unlinked \union {r.number}
  /\ Becomes(h, [r EXCEPT !.at = "selectMember", !.mem.status = "removed"])
  /\ UNCHANGED <<rows, verified, held, interrupted, faults>>

\* Faulty variant of CallFails: a failed removal is logged and passed over.
UnlinkFailureIgnored(h) ==
  LET r == request[h] IN
  /\ r.at = "unlink"
  /\ Becomes(h, [r EXCEPT !.at = "selectMember", !.mem.status = "removed"])
  /\ UNCHANGED <<rows, history, faults>>

\* The APN provider or the PCRF is not reached, refuses, or times out: the
\* exception also ends a bulk upload half way.
CallFails(h) ==
  /\ request[h].at \in {"verify", "reverify", "unlink"}
  /\ Raise(h)
  /\ UNCHANGED <<rows, verified, unlinked, held, faults>>

-----------------------------------------------------------------------------
(* Saves                                                                   *)

SelectMember(h) ==
  LET r == request[h] IN
  /\ r.at = "selectMember"
  /\ Becomes(h, [r EXCEPT !.at = "writeMember",
                          !.dirty = Differing(member[r.number], r.mem)])
  /\ UNCHANGED <<rows, history, faults>>

\* Faulty variants of Fewer: the removed row stays counted; no lower limit.
Uncounted(count) == count
Unlimited(count) == count - 1

\* secondaryCount after a removal.
Fewer(count) == IF count = 0 THEN 0 ELSE count - 1

WriteMember(h) ==
  LET r == request[h]
      saved == [r EXCEPT !.dirty = {}, !.mem = NoMember]
  IN
  /\ r.at = "writeMember"
  /\ \/ /\ DuplicateKey(member[r.number], r.dirty)
        /\ Raise(h)
        /\ UNCHANGED member
     \/ /\ ~DuplicateKey(member[r.number], r.dirty)
        /\ member' = [member EXCEPT ![r.number] = Merged(@, r.mem, r.dirty)]
        /\ \/ /\ r.op = "add"
              /\ \E q \in AfterNumber(
                            [saved EXCEPT !.added = @ \union {r.number}]) :
                   Becomes(h, q)
           \/ /\ r.op = "remove"
              /\ Becomes(h, [saved EXCEPT !.at = "selectCustomer",
                                          !.cus.count = Fewer(@)])
        /\ UNCHANGED interrupted
  /\ UNCHANGED <<customer, balance, verified, unlinked, held, faults>>

\* A registration has no count in its entity; save leaves that column alone.
\* An insert puts the default into the entity, and from then on the request
\* is like addPrimaryMsisdn.
SelectCustomer(h) ==
  LET r == request[h] IN
  /\ r.at = "selectCustomer"
  /\ Becomes(h, [r EXCEPT !.at = "writeCustomer",
       !.dirty = Differing(customer[r.who], r.cus)
                   \ (IF r.op = "register" THEN {"count"} ELSE {})])
  /\ UNCHANGED <<rows, history, faults>>

\* What the caller is told when the request has ended.
Told(r) ==
  CASE r.op = "add"    -> held[r.who] \union r.added
    [] r.op = "remove" -> held[r.who] \ {r.number}
    [] OTHER           -> held[r.who]

WriteCustomer(h) ==
  LET r == request[h]
      saved == [r EXCEPT !.dirty = {}]
  IN
  /\ r.at = "writeCustomer"
  /\ \/ /\ DuplicateKey(customer[r.who], r.dirty)
        /\ Raise(h)
        /\ UNCHANGED <<customer, held>>
     \/ /\ ~DuplicateKey(customer[r.who], r.dirty)
        /\ customer' = [customer EXCEPT ![r.who] = Merged(@, r.cus, r.dirty)]
        /\ held' = [held EXCEPT ![r.who] = Told(r)]
        /\ \/ /\ r.op = "register" /\ r.number # None /\ r.cus.primaries = {}
              /\ Becomes(h, [saved EXCEPT !.at = "readOwner",
                   !.op = IF "known" \in r.dirty THEN "addPrimary" ELSE @])
           \/ /\ r.number \in r.cus.primaries
              /\ Becomes(h, [saved EXCEPT !.at = "zeroBalance"])
           \/ /\ r.number \notin r.cus.primaries
              /\ ~(r.op = "register" /\ r.number # None
                     /\ r.cus.primaries = {})
              /\ Becomes(h, Idle)
        /\ UNCHANGED interrupted
  /\ UNCHANGED <<member, balance, verified, unlinked, faults>>

\* Faulty variant of BalanceThere: an empty balance is enough to look for.
BundleMissing(n) == balance[n] = "empty"

\* getOrCreateBalance finds the row, or goes on to create it.
BalanceThere(n) == balance[n] # "none"

ReadBalance(h) ==
  LET r == request[h] IN
  /\ r.at = "readBalance"
  /\ Becomes(h,
       IF ~BalanceThere(r.number) THEN [r EXCEPT !.at = "zeroBalance"]
       ELSE IF r.op = "purchase" THEN [r EXCEPT !.at = "deliver"]
       ELSE Idle)
  /\ UNCHANGED <<rows, history, faults>>

\* createZeroBalance.
CreateZeroBalance(h) ==
  LET r == request[h] IN
  /\ r.at = "zeroBalance"
  /\ balance' = [balance EXCEPT ![r.number] = "empty"]
  /\ Becomes(h, IF r.op = "purchase" THEN [r EXCEPT !.at = "deliver"]
                                     ELSE Idle)
  /\ UNCHANGED <<customer, member, history, faults>>

DeliverBundle(h) ==
  /\ request[h].at = "deliver"
  /\ balance' = [balance EXCEPT ![request[h].number] = "bundle"]
  /\ Becomes(h, Idle)
  /\ UNCHANGED <<customer, member, history, faults>>

-----------------------------------------------------------------------------
(* Faults                                                                  *)

RequestFails(h) ==
  /\ request[h] # Idle
  /\ faults < MaxFaults
  /\ faults' = faults + 1
  /\ Raise(h)
  /\ UNCHANGED <<rows, verified, unlinked, held>>

Crash ==
  /\ faults < MaxFaults
  /\ faults' = faults + 1
  /\ request' = [h \in Requests |-> Idle]
  /\ interrupted' = interrupted \union
       {request[h].who : h \in {g \in Requests : Halfway(request[g])}}
  /\ UNCHANGED <<rows, verified, unlinked, held>>

-----------------------------------------------------------------------------
Uploads == {ns \in SUBSET Numbers : ns # {} /\ Cardinality(ns) <= MaxUpload}

Arrive(h) ==
  \E c \in Customers :
    \/ \E n \in Numbers \union {None}, apn \in Apns :
         RegisterCustomer(h, c, n, apn)
    \/ \E n \in Numbers : AddPrimaryMsisdn(h, c, n)
    \/ \E p \in Numbers, ns \in Uploads : AddSecondaryNumbers(h, c, p, ns)
    \/ \E p, n \in Numbers : RemoveSecondaryNumber(h, c, p, n)
    \/ \E apn \in Apns : UpdateCustomer(h, c, apn)
    \/ OtherChange(h, c)
    \/ \E n \in Numbers : GetBalance(h, c, n) \/ PurchaseDelivered(h, c, n)

Proceed(h) ==
  \/ ReadOwner(h) \/ ReadMember(h) \/ ApnMatches(h) \/ ApnDiffers(h)
  \/ ReverifyPrimary(h) \/ ReverifyRefused(h)
  \/ ReadRow(h) \/ Unlinked(h) \/ CallFails(h)
  \/ SelectMember(h) \/ WriteMember(h)
  \/ SelectCustomer(h) \/ WriteCustomer(h)
  \/ ReadBalance(h) \/ CreateZeroBalance(h) \/ DeliverBundle(h)

Next ==
  \/ \E h \in Requests : Arrive(h) \/ Proceed(h) \/ RequestFails(h)
  \/ Crash

Spec == Init /\ [][Next]_vars

-----------------------------------------------------------------------------
(* Safety, whatever overlaps, fails or crashes                             *)

\* openapi.yaml: the API removes a number at the PCRF "before marking the
\* local secondary-number flag as removed".  No row says `removed` unless
\* the PCRF acknowledged it, also when two removals, or a removal and a new
\* addition of the number, write the row by turns.
RemovedAtPcrf ==
  \A n \in Numbers :
    member[n].known /\ member[n].status = "removed" => n \in unlinked

\* openapi.yaml: a number whose APN does not match is rejected.  The row of
\* a secondary number never carries an APN that was not confirmed for that
\* number, whichever columns of which request were written last.
MembersVerified ==
  \A n \in Numbers : member[n].known => <<n, member[n].apn>> \in verified

-----------------------------------------------------------------------------
(* Kept when requests about one account or number do not overlap, and no   *)
(* two businesses have one name                                            *)

InFlight(c) == \E g \in Requests : request[g].who = c

Members(c) == {n \in Numbers : Secondary(n) /\ member[n].who = c}

\* Between requests the count of an account is the number of its rows, unless
\* a request about it was interrupted between the two saves.
CountExact ==
  \A c \in Customers :
    ~InFlight(c) /\ c \notin interrupted
      => customer[c].count = Cardinality(Members(c))

\* The primary numbers of an account are verified for the APN it has now,
\* also after the APN changed while numbers were being added.
PrimariesVerified ==
  \A c \in Customers :
    \A n \in customer[c].primaries : <<n, customer[c].apn>> \in verified

\* A bundle on a number is not wiped by the row of zeros that adding the
\* number, or looking at its balance, creates.
BundleKept ==
  [][\A n \in Numbers : balance[n] = "bundle" => balance'[n] = "bundle"]_vars

-----------------------------------------------------------------------------
(* Promised, and not kept (the README tells how)                           *)

\* api-business-rules-validation.md: a number "already in a family" is
\* rejected.  No two accounts were told that they have one number.
OneFamily ==
  \A c, d \in Customers : c # d => held[c] \cap held[d] = {}

\* The same, of bulk uploads "with validation report": between requests every
\* active row of an account is one its caller was told of.
RowsReported ==
  \A c \in Customers : ~InFlight(c) => Members(c) \subseteq held[c]

=============================================================================
