--------------------------- MODULE RegistryProofs ---------------------------
(***************************************************************************)
(* Proofs about NumberRegistry, for every value of its constants.          *)
(*                                                                         *)
(* Whatever overlaps, fails or crashes: rows of secondary numbers are put  *)
(* together column by column from entities of several requests.  IInv says *)
(* of every entity in flight what the invariants say of the rows, and of   *)
(* every save between its two steps that the columns it found different    *)
(* suffice to make a row whole that was not there.                         *)
(*                                                                         *)
(* While requests about an account or a number wait for one another:       *)
(* TurnInv says that the entities of the one request about an account are  *)
(* its row, but for what the request is about to change, and how many rows *)
(* of numbers the account's count is behind or ahead.  BookInv adds, for   *)
(* the scenario "turns", where the number at hand is and is not.           *)
(***************************************************************************)
EXTENDS MCRegistryScenarios, FiniteSetTheorems, TLAPS

\* A row that is not there has no columns, an account has an APN.
RowsWhole ==
  /\ \A c \in Customers : IF customer[c].known THEN customer[c].apn \in Apns
                                               ELSE customer[c] = NoCustomer
  /\ \A n \in Numbers : ~member[n].known => member[n] = NoMember

\* The entity of a secondary number may be saved.
Savable(r) ==
  /\ r.mem.known
  /\ <<r.number, r.mem.apn>> \in verified
  /\ r.mem.status = "removed" => r.number \in unlinked

\* The columns a save found different make a new row, or the row is there.
Complete(r) ==
  /\ r.at = "writeMember" =>
       IF "known" \in r.dirty
         THEN /\ "apn" \in r.dirty
              /\ r.mem.status = "active" => "status" \in r.dirty
         ELSE member[r.number].known
  /\ r.at = "writeCustomer" =>
       IF "known" \in r.dirty THEN "apn" \in r.dirty
                              ELSE customer[r.who].known

AboutNumber ==
  {"readOwner", "readMember", "verify", "readRow", "unlink", "selectMember",
   "writeMember", "readBalance", "zeroBalance", "deliver"}

Sound(r) ==
  /\ IF r.at = "idle" THEN r = Idle
     ELSE r.who \in Customers /\ r.cus.known /\ r.cus.apn \in Apns
  /\ r.at \in AboutNumber => r.number \in Numbers
  /\ r.at = "unlink" => r.mem.known /\ <<r.number, r.mem.apn>> \in verified
  /\ r.at \in {"selectMember", "writeMember"} => Savable(r)
  /\ Complete(r)

IInv ==
  /\ TypeOK
  /\ RowsWhole
  /\ RemovedAtPcrf
  /\ MembersVerified
  /\ \A h \in Requests : Sound(request[h])

-----------------------------------------------------------------------------
(* Rows and entities                                                       *)

LEMMA MergedMember ==
  ASSUME NEW row \in MemberRow, NEW entity \in MemberRow,
         NEW dirty \in SUBSET Columns
  PROVE  LET new == Merged(row, entity, dirty) IN
         /\ new \in MemberRow
         /\ new.apn = IF "apn" \in dirty THEN entity.apn ELSE row.apn
         /\ new.known = IF "known" \in dirty THEN entity.known ELSE row.known
         /\ new.status = IF "status" \in dirty THEN entity.status
                                               ELSE row.status
  BY DEF Merged, MemberRow

LEMMA MergedCustomer ==
  ASSUME NEW row \in CustomerRow, NEW entity \in CustomerRow,
         NEW dirty \in SUBSET Columns
  PROVE  LET new == Merged(row, entity, dirty) IN
         /\ new \in CustomerRow
         /\ new.apn = IF "apn" \in dirty THEN entity.apn ELSE row.apn
         /\ new.known = IF "known" \in dirty THEN entity.known ELSE row.known
  BY DEF Merged, CustomerRow

LEMMA DifferingMember ==
  ASSUME NEW row \in MemberRow, NEW entity \in MemberRow
  PROVE  /\ Differing(row, entity) \subseteq Columns
         /\ "apn" \in Differing(row, entity) <=> row.apn # entity.apn
         /\ "known" \in Differing(row, entity) <=> row.known # entity.known
         /\ "status" \in Differing(row, entity) <=> row.status # entity.status
  BY DEF Differing, MemberRow, Columns

LEMMA DifferingCustomer ==
  ASSUME NEW row \in CustomerRow, NEW entity \in CustomerRow
  PROVE  /\ Differing(row, entity) \subseteq Columns
         /\ "apn" \in Differing(row, entity) <=> row.apn # entity.apn
         /\ "known" \in Differing(row, entity) <=> row.known # entity.known
  BY DEF Differing, CustomerRow, Columns

LEMMA BlankRows == NoCustomer \in CustomerRow /\ NoMember \in MemberRow
  BY DEF NoCustomer, NoMember, CustomerRow, MemberRow

LEMMA IdleSound == Idle \in Request /\ Sound(Idle)
  BY BlankRows
     DEF Idle, Request, Step, Sound, Savable, Complete, AboutNumber

-----------------------------------------------------------------------------
(* The frame                                                               *)

\* An entity stays sound while rows stay and history grows.
LEMMA Frame ==
  ASSUME NEW r \in Request, Sound(r),
         verified \subseteq verified', unlinked \subseteq unlinked',
         \A n \in Numbers : member[n].known => member'[n].known,
         \A c \in Customers : customer[c].known => customer'[c].known
  PROVE  Sound(r)'
<1>1. Savable(r) => Savable(r)'
  BY DEF Savable
<1>2. Complete(r)'
  BY DEF Complete, Sound, AboutNumber
<1> QED
  BY <1>1, <1>2 DEF Sound

\* A step that changes one request, and of the rest only history.
LEMMA RequestStep ==
  ASSUME IInv, NEW h \in Requests, NEW q \in Request, Sound(q)',
         Becomes(h, q), UNCHANGED rows,
         verified' \subseteq Numbers \X Apns, verified \subseteq verified',
         unlinked' \subseteq Numbers, unlinked \subseteq unlinked',
         held' \in [Customers -> SUBSET Numbers],
         interrupted' \subseteq Customers, faults' \in Nat
  PROVE  IInv'
<1> USE DEF IInv
<1>1. request' = [request EXCEPT ![h] = q] /\ request \in [Requests -> Request]
  BY DEF Becomes, TypeOK
<1>2. /\ customer' = customer /\ member' = member /\ balance' = balance
  BY DEF rows
<1>3. TypeOK'
  BY <1>1, <1>2 DEF TypeOK
<1>4. ASSUME NEW g \in Requests
      PROVE  Sound(request[g])'
  <2>1. CASE g = h
    BY <1>1, <2>1
  <2>2. CASE g # h
    <3>1. PICK r \in Request : r = request[g]
      BY <1>1
    <3>2. request'[g] = r
      BY <1>1, <2>2, <3>1
    <3>3. Sound(r)
      BY <3>1
    <3>4. Sound(r)'
      BY <1>2, <3>3, Frame
    <3> QED
      BY <3>2, <3>4
  <2> QED
    BY <2>1, <2>2
<1>5. RemovedAtPcrf' /\ MembersVerified' /\ RowsWhole'
  BY <1>2 DEF RemovedAtPcrf, MembersVerified, RowsWhole
<1> QED
  BY <1>3, <1>4, <1>5

\* The same when history does not change either.
LEMMA QuietStep ==
  ASSUME IInv, NEW h \in Requests, NEW q \in Request, Sound(q),
         Becomes(h, q), UNCHANGED <<rows, history, faults>>
  PROVE  IInv'
<1>1. /\ customer' = customer /\ member' = member
      /\ verified' = verified /\ unlinked' = unlinked /\ held' = held
      /\ interrupted' = interrupted /\ faults' = faults
  BY DEF rows, history
<1>2. Sound(q)'
  BY <1>1, Frame
<1>3. /\ verified \subseteq Numbers \X Apns /\ unlinked \subseteq Numbers
      /\ held \in [Customers -> SUBSET Numbers]
      /\ interrupted \subseteq Customers /\ faults \in Nat
  BY DEF IInv, TypeOK
<1> QED
  BY <1>1, <1>2, <1>3, RequestStep

LEMMA InFlightSound ==
  ASSUME IInv, NEW h \in Requests
  PROVE  request[h] \in Request /\ Sound(request[h])
<1>1. request[h] \in Request
  BY DEF IInv, TypeOK
<1>2. Sound(request[h])
  BY DEF IInv
<1> QED
  BY <1>1, <1>2

-----------------------------------------------------------------------------
(* Requests that begin                                                     *)

\* What every other request reads first: an account that is there.
LEMMA AccountRead ==
  ASSUME IInv, NEW c \in Customers, customer[c].known
  PROVE  /\ customer[c] \in CustomerRow
         /\ customer[c].apn \in Apns
         /\ customer[c].primaries \subseteq Numbers
<1>1. customer[c] \in CustomerRow
  BY DEF IInv, TypeOK
<1>2. customer[c].apn \in Apns
  BY DEF IInv, RowsWhole
<1> QED
  BY <1>1, <1>2 DEF CustomerRow

LEMMA RegisterCustomerStep ==
  ASSUME IInv, NEW h \in Requests, NEW c \in Customers,
         NEW n \in Numbers \union {None}, NEW apn \in Apns,
         RegisterCustomer(h, c, n, apn)
  PROVE  IInv'
<1>1. PICK q : q = [Begin("register", "selectCustomer", c) EXCEPT
        !.number = n,
        !.cus = [known |-> TRUE, primaries |-> {}, count |-> 0, apn |-> apn]]
  OBVIOUS
<1>2. q = [op |-> "register", at |-> "selectCustomer", who |-> c,
           number |-> n, primary |-> None, todo |-> {}, added |-> {},
           cus |-> [known |-> TRUE, primaries |-> {}, count |-> 0,
                    apn |-> apn],
           mem |-> NoMember, dirty |-> {}]
  BY <1>1 DEF Begin, Idle
<1>3. q \in Request
  BY <1>2, BlankRows DEF Request, Step, Operations, CustomerRow
<1>4. Sound(q)
  BY <1>2 DEF Sound, Complete, AboutNumber
<1> QED
  BY <1>1, <1>3, <1>4, QuietStep DEF RegisterCustomer

LEMMA AddPrimaryMsisdnStep ==
  ASSUME IInv, NEW h \in Requests, NEW c \in Customers, NEW n \in Numbers,
         AddPrimaryMsisdn(h, c, n)
  PROVE  IInv'
<1>1. PICK q : q = [Begin("addPrimary", "readOwner", c) EXCEPT !.number = n]
  OBVIOUS
<1>2. "addPrimary" \in Operations /\ "readOwner" \in Step
  BY DEF Operations, Step
<1>3. customer[c].known
  BY DEF AddPrimaryMsisdn
<1>4. q = [op |-> "addPrimary", at |-> "readOwner", who |-> c, number |-> n,
           primary |-> None, todo |-> {}, added |-> {},
           cus |-> customer[c], mem |-> NoMember, dirty |-> {}]
  BY <1>1 DEF Begin, Idle
<1>5. q \in Request
  BY <1>2, <1>3, <1>4, AccountRead, BlankRows DEF Request
<1>6. Sound(q)
  BY <1>3, <1>4, AccountRead DEF Sound, Complete, AboutNumber
<1> QED
  BY <1>1, <1>5, <1>6, QuietStep DEF AddPrimaryMsisdn

LEMMA AddSecondaryNumbersStep ==
  ASSUME IInv, NEW h \in Requests, NEW c \in Customers, NEW p \in Numbers,
         NEW ns \in SUBSET Numbers, AddSecondaryNumbers(h, c, p, ns)
  PROVE  IInv'
<1>1. PICK n \in ns : Becomes(h, [Begin("add", "readOwner", c) EXCEPT
        !.primary = p, !.number = n, !.todo = ns \ {n}])
  BY DEF AddSecondaryNumbers
<1>2. PICK q : q = [Begin("add", "readOwner", c) EXCEPT
        !.primary = p, !.number = n, !.todo = ns \ {n}]
  OBVIOUS
<1>3. "add" \in Operations /\ "readOwner" \in Step
  BY DEF Operations, Step
<1>4. customer[c].known
  BY DEF AddSecondaryNumbers
<1>5. q = [op |-> "add", at |-> "readOwner", who |-> c, number |-> n,
           primary |-> p, todo |-> ns \ {n}, added |-> {},
           cus |-> customer[c], mem |-> NoMember, dirty |-> {}]
  BY <1>2 DEF Begin, Idle
<1>6. q \in Request
  BY <1>3, <1>4, <1>5, AccountRead, BlankRows DEF Request
<1>7. Sound(q)
  BY <1>4, <1>5, AccountRead DEF Sound, Complete, AboutNumber
<1> QED
  BY <1>1, <1>2, <1>6, <1>7, QuietStep DEF AddSecondaryNumbers

LEMMA RemoveSecondaryNumberStep ==
  ASSUME IInv, NEW h \in Requests, NEW c \in Customers, NEW p \in Numbers,
         NEW n \in Numbers, RemoveSecondaryNumber(h, c, p, n)
  PROVE  IInv'
<1>1. PICK q : q = [Begin("remove", "readRow", c) EXCEPT
        !.primary = p, !.number = n]
  OBVIOUS
<1>2. "remove" \in Operations /\ "readRow" \in Step
  BY DEF Operations, Step
<1>3. customer[c].known
  BY DEF RemoveSecondaryNumber
<1>4. q = [op |-> "remove", at |-> "readRow", who |-> c, number |-> n,
           primary |-> p, todo |-> {}, added |-> {},
           cus |-> customer[c], mem |-> NoMember, dirty |-> {}]
  BY <1>1 DEF Begin, Idle
<1>5. q \in Request
  BY <1>2, <1>3, <1>4, AccountRead, BlankRows DEF Request
<1>6. Sound(q)
  BY <1>3, <1>4, AccountRead DEF Sound, Complete, AboutNumber
<1> QED
  BY <1>1, <1>5, <1>6, QuietStep DEF RemoveSecondaryNumber

LEMMA UpdateCustomerStep ==
  ASSUME IInv, NEW h \in Requests, NEW c \in Customers, NEW apn \in Apns,
         UpdateCustomer(h, c, apn)
  PROVE  IInv'
<1>1. PICK at \in {"selectCustomer", "reverify"},
           ns \in {{}, customer[c].primaries} :
        Becomes(h, [Begin("update", "selectCustomer", c) EXCEPT
          !.at = at, !.todo = ns, !.cus.apn = apn])
  BY DEF UpdateCustomer, ToVerifyAgain, Begin, Idle
<1>2. PICK q : q = [Begin("update", "selectCustomer", c) EXCEPT
          !.at = at, !.todo = ns, !.cus.apn = apn]
  OBVIOUS
<1>3. "update" \in Operations /\ "selectCustomer" \in Step /\ at \in Step
  BY DEF Operations, Step
<1>4. customer[c].known
  BY DEF UpdateCustomer
<1>5. PICK row \in CustomerRow : row = [customer[c] EXCEPT !.apn = apn]
  BY <1>3, <1>4, AccountRead DEF CustomerRow
<1>6. q = [op |-> "update", at |-> at, who |-> c, number |-> None,
           primary |-> None, todo |-> ns, added |-> {}, cus |-> row,
           mem |-> NoMember, dirty |-> {}]
  BY <1>2, <1>5 DEF Begin, Idle
<1>7. row.known /\ row.apn = apn /\ ns \subseteq Numbers
  BY <1>3, <1>4, <1>5, AccountRead DEF CustomerRow
<1>8. q \in Request
  BY <1>3, <1>6, <1>7, BlankRows DEF Request
<1>9. Sound(q)
  BY <1>6, <1>7 DEF Sound, Complete, AboutNumber
<1> QED
  BY <1>1, <1>2, <1>8, <1>9, QuietStep DEF UpdateCustomer

LEMMA OtherChangeStep ==
  ASSUME IInv, NEW h \in Requests, NEW c \in Customers, OtherChange(h, c)
  PROVE  IInv'
<1>1. PICK q : q = Begin("other", "selectCustomer", c)
  OBVIOUS
<1>2. "other" \in Operations /\ "selectCustomer" \in Step
  BY DEF Operations, Step
<1>3. customer[c].known
  BY DEF OtherChange
<1>4. q = [op |-> "other", at |-> "selectCustomer", who |-> c, number |-> None,
           primary |-> None, todo |-> {}, added |-> {},
           cus |-> customer[c], mem |-> NoMember, dirty |-> {}]
  BY <1>1 DEF Begin, Idle
<1>5. q \in Request
  BY <1>2, <1>3, <1>4, AccountRead, BlankRows DEF Request
<1>6. Sound(q)
  BY <1>3, <1>4, AccountRead DEF Sound, Complete, AboutNumber
<1> QED
  BY <1>1, <1>5, <1>6, QuietStep DEF OtherChange

LEMMA BalanceRequestStep ==
  ASSUME IInv, NEW h \in Requests, NEW c \in Customers, NEW n \in Numbers,
         GetBalance(h, c, n) \/ PurchaseDelivered(h, c, n)
  PROVE  IInv'
<1>1. PICK op \in {"balance", "purchase"} :
        Becomes(h, [Begin(op, "readBalance", c) EXCEPT !.number = n])
  BY DEF GetBalance, PurchaseDelivered
<1>2. PICK q : q = [Begin(op, "readBalance", c) EXCEPT !.number = n]
  OBVIOUS
<1>3. op \in Operations /\ "readBalance" \in Step
  BY DEF Operations, Step
<1>4. customer[c].known
  BY DEF GetBalance, PurchaseDelivered
<1>5. q = [op |-> op, at |-> "readBalance", who |-> c, number |-> n,
           primary |-> None, todo |-> {}, added |-> {},
           cus |-> customer[c], mem |-> NoMember, dirty |-> {}]
  BY <1>2 DEF Begin, Idle
<1>6. q \in Request
  BY <1>3, <1>4, <1>5, AccountRead, BlankRows DEF Request
<1>7. Sound(q)
  BY <1>4, <1>5, AccountRead DEF Sound, Complete, AboutNumber
<1>8. UNCHANGED <<rows, history, faults>>
  BY DEF GetBalance, PurchaseDelivered
<1> QED
  BY <1>1, <1>2, <1>6, <1>7, <1>8, QuietStep

-----------------------------------------------------------------------------
(* Requests that read, call and decide                                     *)

LEMMA AfterNumberSound ==
  ASSUME NEW r \in Request, r.who \in Customers, r.cus.known,
         r.cus.apn \in Apns, NEW q \in AfterNumber(r)
  PROVE  q \in Request /\ Sound(q)
<1>1. CASE r.todo # {}
  <2>1. PICK n \in r.todo :
          q = [r EXCEPT !.at = "readOwner", !.number = n, !.todo = @ \ {n},
                        !.mem = NoMember]
    BY <1>1 DEF AfterNumber
  <2>2. n \in Numbers /\ "readOwner" \in Step
    BY DEF Request, Step
  <2>3. q \in Request
    BY <2>1, <2>2, BlankRows DEF Request
  <2>4. /\ q.at = "readOwner" /\ q.number = n /\ q.who = r.who
        /\ q.cus = r.cus
    BY <2>1 DEF Request
  <2> QED
    BY <2>2, <2>3, <2>4 DEF Sound, Complete, AboutNumber
<1>2. CASE r.todo = {} /\ r.added # {}
  <2>1. Cardinality(r.added) \in Nat
    BY FS_Subset, FS_CardinalityType, RegistryConstants
       DEF RegistryConstants, Request
  <2>2. PICK k \in Nat : k = r.cus.count + Cardinality(r.added)
    BY <2>1 DEF Request, CustomerRow
  <2>3. PICK cus \in CustomerRow : cus = [r.cus EXCEPT !.count = k]
    BY DEF Request, CustomerRow
  <2>4. q = [r EXCEPT !.at = "selectCustomer", !.number = None,
                      !.mem = NoMember, !.cus = cus]
    BY <1>2, <2>2, <2>3 DEF AfterNumber, Request
  <2>5. "selectCustomer" \in Step
    BY DEF Step
  <2>6. q \in Request
    BY <2>3, <2>4, <2>5, BlankRows DEF Request
  <2>7. q.at = "selectCustomer" /\ q.who = r.who /\ q.cus = cus
    BY <2>4 DEF Request
  <2>8. cus.known /\ cus.apn = r.cus.apn
    BY <2>3 DEF Request, CustomerRow
  <2> QED
    BY <2>6, <2>7, <2>8 DEF Sound, Complete, AboutNumber
<1>3. CASE r.todo = {} /\ r.added = {}
  BY <1>3, IdleSound DEF AfterNumber
<1> QED
  BY <1>1, <1>2, <1>3

\* A request in flight, as a constant, with what is known of its account.
LEMMA Holding ==
  ASSUME IInv, NEW h \in Requests, request[h].at # "idle"
  PROVE  \E r \in Request :
           /\ r = request[h] /\ Sound(r)
           /\ r.who \in Customers /\ r.cus.known /\ r.cus.apn \in Apns
           /\ r.cus \in CustomerRow /\ r.mem \in MemberRow
<1>1. PICK r \in Request : r = request[h] /\ Sound(r)
  BY InFlightSound
<1> QED
  BY <1>1 DEF Sound, Request

LEMMA RefusedSound ==
  ASSUME IInv, NEW h \in Requests, request[h].at # "idle", Refused(h)
  PROVE  \E q \in Request : Sound(q) /\ Becomes(h, q)
<1>1. PICK r \in Request :
        /\ r = request[h]
        /\ r.who \in Customers /\ r.cus.known /\ r.cus.apn \in Apns
  BY Holding
<1>2. CASE r.op = "add"
  <2>1. PICK q \in AfterNumber(r) : Becomes(h, q)
    BY <1>1, <1>2 DEF Refused
  <2> QED
    BY <1>1, <2>1, AfterNumberSound
<1>3. CASE r.op # "add"
  BY <1>1, <1>3, IdleSound DEF Refused
<1> QED
  BY <1>2, <1>3

\* A request that goes on to another step, with the entities it holds.
LEMMA GoesOn ==
  ASSUME NEW r \in Request, Sound(r), r.at # "idle", NEW at \in Step,
         at \notin {"idle", "unlink", "selectMember", "writeMember",
                   "writeCustomer"},
         at \in AboutNumber => r.number \in Numbers
  PROVE  /\ [r EXCEPT !.at = at] \in Request
         /\ Sound([r EXCEPT !.at = at])
<1>1. PICK q : q = [r EXCEPT !.at = at]
  OBVIOUS
<1>2. q \in Request
  BY <1>1 DEF Request
<1>3. /\ q.at = at /\ q.who = r.who /\ q.cus = r.cus
      /\ q.number = r.number
  BY <1>1 DEF Request
<1>4. Sound(q)
  BY <1>3 DEF Sound, Complete
<1> QED
  BY <1>1, <1>2, <1>4

LEMMA LookupStep ==
  ASSUME IInv, NEW h \in Requests,
         ReadOwner(h) \/ ReadMember(h) \/ ApnDiffers(h)
  PROVE  IInv'
<1>1. UNCHANGED <<rows, history, faults>>
  BY DEF ReadOwner, ReadMember, ApnDiffers
<1>2. request[h].at \in {"readOwner", "readMember", "verify"}
  BY DEF ReadOwner, ReadMember, ApnDiffers
<1>3. PICK r \in Request : r = request[h] /\ Sound(r)
  BY InFlightSound
<1>4. \/ Refused(h)
      \/ \E at \in {"readMember", "verify"} :
           Becomes(h, [r EXCEPT !.at = at])
  BY <1>3 DEF ReadOwner, ReadMember, ApnDiffers
<1>5. CASE Refused(h)
  BY <1>1, <1>2, <1>5, RefusedSound, QuietStep
<1>6. CASE \E at \in {"readMember", "verify"} :
             Becomes(h, [r EXCEPT !.at = at])
  <2>1. PICK at \in {"readMember", "verify"} :
          Becomes(h, [r EXCEPT !.at = at])
    BY <1>6
  <2>2. PICK q : q = [r EXCEPT !.at = at]
    OBVIOUS
  <2>3. r.number \in Numbers /\ r.at # "idle"
    BY <1>2, <1>3 DEF Sound, AboutNumber
  <2>4. /\ at \in Step
        /\ at \notin {"idle", "unlink", "selectMember", "writeMember",
                      "writeCustomer"}
    BY DEF Step
  <2>5. q \in Request /\ Sound(q)
    BY <1>3, <2>2, <2>3, <2>4, GoesOn
  <2> QED
    BY <1>1, <2>1, <2>2, <2>5, QuietStep
<1> QED
  BY <1>4, <1>5, <1>6

LEMMA ReverifyRefusedStep ==
  ASSUME IInv, NEW h \in Requests, ReverifyRefused(h)
  PROVE  IInv'
  BY IdleSound, QuietStep DEF ReverifyRefused

LEMMA ReadRowStep ==
  ASSUME IInv, NEW h \in Requests, ReadRow(h)
  PROVE  IInv'
<1>1. PICK r \in Request :
        /\ r = request[h] /\ Sound(r)
        /\ r.who \in Customers /\ r.cus.known /\ r.cus.apn \in Apns
  BY Holding DEF ReadRow
<1>2. UNCHANGED <<rows, history, faults>>
  BY DEF ReadRow
<1>3. r.number \in Numbers
  BY <1>1 DEF ReadRow, Sound, AboutNumber
<1>4. CASE Becomes(h, Idle)
  BY <1>2, <1>4, IdleSound, QuietStep
<1>5. CASE /\ Secondary(r.number)
           /\ Becomes(h, [r EXCEPT !.at = "unlink", !.mem = member[r.number]])
  <2>1. PICK row \in MemberRow : row = member[r.number]
    BY <1>3 DEF IInv, TypeOK
  <2>2. PICK q : q = [r EXCEPT !.at = "unlink", !.mem = row]
    OBVIOUS
  <2>3. "unlink" \in Step
    BY DEF Step
  <2>4. q \in Request
    BY <2>1, <2>2, <2>3 DEF Request
  <2>5. /\ q.at = "unlink" /\ q.who = r.who /\ q.cus = r.cus
        /\ q.number = r.number /\ q.mem = row
    BY <2>2 DEF Request
  <2>6. row.known /\ <<r.number, row.apn>> \in verified
    BY <1>3, <1>5, <2>1 DEF Secondary, IInv, MembersVerified
  <2>7. Sound(q)
    BY <1>1, <1>3, <2>5, <2>6 DEF Sound, Complete
  <2> QED
    BY <1>2, <1>5, <2>1, <2>2, <2>4, <2>7, QuietStep
<1> QED
  BY <1>1, <1>4, <1>5 DEF ReadRow

LEMMA ApnMatchesStep ==
  ASSUME IInv, NEW h \in Requests, ApnMatches(h)
  PROVE  IInv'
<1>1. PICK r \in Request :
        /\ r = request[h] /\ Sound(r)
        /\ r.who \in Customers /\ r.cus.known /\ r.cus.apn \in Apns
        /\ r.cus \in CustomerRow
  BY Holding DEF ApnMatches
<1>2. r.number \in Numbers
  BY <1>1 DEF ApnMatches, Sound, AboutNumber
<1>3. /\ verified' = verified \union {<<r.number, r.cus.apn>>}
      /\ UNCHANGED <<rows, unlinked, held, interrupted, faults>>
  BY <1>1 DEF ApnMatches
<1>4. /\ verified' \subseteq Numbers \X Apns /\ unlinked' \subseteq Numbers
      /\ held' \in [Customers -> SUBSET Numbers]
      /\ interrupted' \subseteq Customers /\ faults' \in Nat
  BY <1>1, <1>2, <1>3 DEF IInv, TypeOK
<1>5. CASE r.op = "add"
  <2>1. PICK mem : mem = NewMember(r)
    OBVIOUS
  <2>2. /\ mem \in MemberRow /\ mem.known /\ mem.status = "active"
        /\ mem.apn = r.cus.apn
    BY <1>1, <2>1 DEF NewMember, MemberRow, Request
  <2>3. PICK q : q = [r EXCEPT !.at = "selectMember", !.mem = mem]
    OBVIOUS
  <2>4. "selectMember" \in Step
    BY DEF Step
  <2>5. q \in Request
    BY <2>2, <2>3, <2>4 DEF Request
  <2>6. /\ q.at = "selectMember" /\ q.who = r.who /\ q.cus = r.cus
        /\ q.number = r.number /\ q.mem = mem
    BY <2>3 DEF Request
  <2>7. Sound(q)'
    BY <1>1, <1>2, <1>3, <2>2, <2>6 DEF Sound, Savable, Complete
  <2>8. Becomes(h, q)
    BY <1>1, <1>5, <2>1, <2>3 DEF ApnMatches
  <2> QED
    BY <1>3, <1>4, <2>5, <2>7, <2>8, RequestStep
<1>6. CASE r.op # "add"
  <2>1. PICK cus : cus = [r.cus EXCEPT !.primaries = @ \union {r.number}]
    OBVIOUS
  <2>2. /\ cus \in CustomerRow /\ cus.known /\ cus.apn \in Apns
    BY <1>1, <1>2, <2>1 DEF CustomerRow
  <2>3. PICK q : q = [r EXCEPT !.at = "selectCustomer", !.cus = cus]
    OBVIOUS
  <2>4. "selectCustomer" \in Step
    BY DEF Step
  <2>5. q \in Request
    BY <2>2, <2>3, <2>4 DEF Request
  <2>6. q.at = "selectCustomer" /\ q.who = r.who /\ q.cus = cus
    BY <2>3 DEF Request
  <2>7. Sound(q)'
    BY <1>1, <2>2, <2>6 DEF Sound, AboutNumber, Complete
  <2>8. Becomes(h, q)
    BY <1>1, <1>6, <2>1, <2>3 DEF ApnMatches, Request
  <2> QED
    BY <1>3, <1>4, <2>5, <2>7, <2>8, RequestStep
<1> QED
  BY <1>5, <1>6

LEMMA ReverifyPrimaryStep ==
  ASSUME IInv, NEW h \in Requests, ReverifyPrimary(h)
  PROVE  IInv'
<1>1. PICK r \in Request :
        /\ r = request[h] /\ Sound(r)
        /\ r.who \in Customers /\ r.cus.known /\ r.cus.apn \in Apns
  BY Holding DEF ReverifyPrimary
<1>2. r.at = "reverify" /\ "selectCustomer" \in Step
  BY <1>1 DEF ReverifyPrimary, Step
<1>3. PICK n \in r.todo, at \in {"reverify", "selectCustomer"} :
        /\ verified' = verified \union {<<n, r.cus.apn>>}
        /\ Becomes(h, [r EXCEPT !.todo = @ \ {n}, !.at = at])
  BY <1>1, <1>2 DEF ReverifyPrimary
<1>4. UNCHANGED <<rows, unlinked, held, interrupted, faults>>
  BY DEF ReverifyPrimary
<1>5. n \in Numbers
  BY DEF Request
<1>6. /\ verified' \subseteq Numbers \X Apns /\ unlinked' \subseteq Numbers
      /\ held' \in [Customers -> SUBSET Numbers]
      /\ interrupted' \subseteq Customers /\ faults' \in Nat
  BY <1>1, <1>3, <1>4, <1>5 DEF IInv, TypeOK
<1>7. PICK q : q = [r EXCEPT !.todo = @ \ {n}, !.at = at]
  OBVIOUS
<1>8. q \in Request
  BY <1>2, <1>7 DEF Request
<1>9. q.at = at /\ q.who = r.who /\ q.cus = r.cus
  BY <1>7 DEF Request
<1>10. Sound(q)'
  BY <1>1, <1>9 DEF Sound, AboutNumber, Complete
<1> QED
  BY <1>3, <1>4, <1>6, <1>7, <1>8, <1>10, RequestStep

LEMMA UnlinkedStep ==
  ASSUME IInv, NEW h \in Requests, Unlinked(h)
  PROVE  IInv'
<1>1. PICK r \in Request :
        /\ r = request[h] /\ Sound(r)
        /\ r.who \in Customers /\ r.cus.known /\ r.cus.apn \in Apns
        /\ r.mem \in MemberRow
  BY Holding DEF Unlinked
<1>2. /\ r.number \in Numbers /\ r.mem.known
      /\ <<r.number, r.mem.apn>> \in verified
  BY <1>1 DEF Unlinked, Sound, AboutNumber
<1>3. /\ unlinked' = unlinked \union {r.number}
      /\ UNCHANGED <<rows, verified, held, interrupted, faults>>
  BY <1>1 DEF Unlinked
<1>4. /\ verified' \subseteq Numbers \X Apns /\ unlinked' \subseteq Numbers
      /\ held' \in [Customers -> SUBSET Numbers]
      /\ interrupted' \subseteq Customers /\ faults' \in Nat
  BY <1>2, <1>3 DEF IInv, TypeOK
<1>5. PICK mem : mem = [r.mem EXCEPT !.status = "removed"]
  OBVIOUS
<1>6. mem \in MemberRow /\ mem.known /\ mem.apn = r.mem.apn
  BY <1>1, <1>2, <1>5 DEF MemberRow
<1>7. PICK q : q = [r EXCEPT !.at = "selectMember", !.mem = mem]
  OBVIOUS
<1>8. "selectMember" \in Step
  BY DEF Step
<1>9. q \in Request
  BY <1>6, <1>7, <1>8 DEF Request
<1>10. /\ q.at = "selectMember" /\ q.who = r.who /\ q.cus = r.cus
       /\ q.number = r.number /\ q.mem = mem
  BY <1>7 DEF Request
<1>11. Sound(q)'
  BY <1>1, <1>2, <1>3, <1>6, <1>10 DEF Sound, Savable, Complete
<1>12. Becomes(h, q)
  BY <1>1, <1>5, <1>7 DEF Unlinked, Request
<1> QED
  BY <1>3, <1>4, <1>9, <1>11, <1>12, RequestStep

-----------------------------------------------------------------------------
(* Failures                                                                *)

\* What is interrupted is an account: only requests in flight are halfway.
LEMMA HalfwayAccount ==
  ASSUME IInv, NEW h \in Requests, request[h].at # "idle"
  PROVE  request[h].who \in Customers
  BY InFlightSound DEF Sound

LEMMA RaiseStep ==
  ASSUME IInv, NEW h \in Requests, request[h].at # "idle", Raise(h),
         UNCHANGED <<rows, verified, unlinked, held>>, faults' \in Nat
  PROVE  IInv'
<1>1. interrupted' \subseteq Customers
  BY HalfwayAccount DEF Raise, IInv, TypeOK
<1>2. /\ verified' = verified /\ unlinked' = unlinked /\ held' = held
      /\ UNCHANGED rows
  OBVIOUS
<1>3. /\ verified' \subseteq Numbers \X Apns /\ unlinked' \subseteq Numbers
      /\ held' \in [Customers -> SUBSET Numbers]
  BY <1>2 DEF IInv, TypeOK
<1>4. Sound(Idle)'
  BY <1>2, IdleSound, Frame DEF rows
<1> QED
  BY <1>1, <1>2, <1>3, <1>4, IdleSound, RequestStep DEF Raise

LEMMA CallFailsStep ==
  ASSUME IInv, NEW h \in Requests, CallFails(h)
  PROVE  IInv'
<1>1. request[h].at # "idle" /\ Raise(h) /\ faults' \in Nat
  BY DEF CallFails, IInv, TypeOK
<1> QED
  BY <1>1, RaiseStep DEF CallFails

LEMMA RequestFailsStep ==
  ASSUME IInv, NEW h \in Requests, RequestFails(h)
  PROVE  IInv'
<1>1. request[h].at # "idle"
  BY InFlightSound DEF RequestFails, Sound
<1>2. Raise(h) /\ faults' \in Nat
  BY DEF RequestFails, IInv, TypeOK
<1> QED
  BY <1>1, <1>2, RaiseStep DEF RequestFails

LEMMA CrashStep ==
  ASSUME IInv, Crash
  PROVE  IInv'
<1>1. /\ customer' = customer /\ member' = member /\ balance' = balance
      /\ verified' = verified /\ unlinked' = unlinked /\ held' = held
  BY DEF Crash, rows
<1>2. ASSUME NEW h \in Requests, Halfway(request[h])
      PROVE  request[h].who \in Customers
  <2>1. PICK r \in Request : r = request[h] /\ Sound(r)
    BY InFlightSound
  <2>2. r.op \in {"add", "remove"}
    BY <1>2, <2>1 DEF Halfway
  <2>3. Idle.op = "none"
    BY DEF Idle
  <2>4. r.at # "idle"
    BY <2>1, <2>2, <2>3 DEF Sound
  <2> QED
    BY <2>1, <2>4, HalfwayAccount
<1>3. interrupted' \subseteq Customers
  BY <1>2 DEF Crash, IInv, TypeOK
<1>4. request' \in [Requests -> Request]
  BY IdleSound DEF Crash
<1>5. faults' \in Nat
  BY DEF Crash, IInv, TypeOK
<1>6. TypeOK'
  BY <1>1, <1>3, <1>4, <1>5 DEF IInv, TypeOK
<1>7. Sound(Idle)'
  BY <1>1, IdleSound, Frame
<1>8. \A h \in Requests : Sound(request[h])'
  <2> TAKE h \in Requests
  <2>1. request'[h] = Idle
    BY DEF Crash
  <2> QED
    BY <1>7, <2>1
<1>9. RowsWhole' /\ RemovedAtPcrf' /\ MembersVerified'
  BY <1>1 DEF IInv, RowsWhole, RemovedAtPcrf, MembersVerified
<1> QED
  BY <1>6, <1>8, <1>9 DEF IInv

-----------------------------------------------------------------------------
(* Saves                                                                   *)

\* A step that changes one request and rows, which stay when they are there.
LEMMA RowStep ==
  ASSUME IInv, NEW h \in Requests, NEW q \in Request, Sound(q)',
         Becomes(h, q),
         customer' \in [Customers -> CustomerRow],
         member' \in [Numbers -> MemberRow],
         balance' \in [Numbers -> {"none", "empty", "bundle"}],
         held' \in [Customers -> SUBSET Numbers],
         UNCHANGED <<verified, unlinked, interrupted, faults>>,
         \A n \in Numbers : member[n].known => member'[n].known,
         \A c \in Customers : customer[c].known => customer'[c].known,
         RowsWhole', RemovedAtPcrf', MembersVerified'
  PROVE  IInv'
<1>1. request' = [request EXCEPT ![h] = q] /\ request \in [Requests -> Request]
  BY DEF Becomes, IInv, TypeOK
<1>2. TypeOK'
  BY <1>1 DEF IInv, TypeOK
<1>3. ASSUME NEW g \in Requests
      PROVE  Sound(request[g])'
  <2>1. CASE g = h
    BY <1>1, <2>1
  <2>2. CASE g # h
    <3>1. PICK r \in Request : r = request[g] /\ Sound(r)
      BY InFlightSound
    <3>2. request'[g] = r
      BY <1>1, <2>2, <3>1
    <3>3. Sound(r)'
      BY <3>1, Frame
    <3> QED
      BY <3>2, <3>3
  <2> QED
    BY <2>1, <2>2
<1> QED
  BY <1>2, <1>3 DEF IInv

\* What the rows are, when they do not change.
LEMMA RowsStay ==
  ASSUME IInv
  PROVE  /\ customer \in [Customers -> CustomerRow]
         /\ member \in [Numbers -> MemberRow]
         /\ balance \in [Numbers -> {"none", "empty", "bundle"}]
         /\ held \in [Customers -> SUBSET Numbers]
  BY DEF IInv, TypeOK

LEMMA SelectMemberStep ==
  ASSUME IInv, NEW h \in Requests, SelectMember(h)
  PROVE  IInv'
<1>1. PICK r \in Request :
        /\ r = request[h] /\ Sound(r)
        /\ r.who \in Customers /\ r.cus.known /\ r.cus.apn \in Apns
        /\ r.mem \in MemberRow
  BY Holding DEF SelectMember
<1>2. r.number \in Numbers /\ Savable(r)
  BY <1>1 DEF SelectMember, Sound, AboutNumber
<1>3. PICK row \in MemberRow : row = member[r.number]
  BY <1>2, RowsStay
<1>4. PICK dirty \in SUBSET Columns : dirty = Differing(row, r.mem)
  BY <1>1, DifferingMember
<1>5. PICK q : q = [r EXCEPT !.at = "writeMember", !.dirty = dirty]
  OBVIOUS
<1>6. "writeMember" \in Step
  BY DEF Step
<1>7. q \in Request
  BY <1>5, <1>6 DEF Request
<1>8. /\ q.at = "writeMember" /\ q.who = r.who /\ q.cus = r.cus
      /\ q.number = r.number /\ q.mem = r.mem /\ q.dirty = dirty
  BY <1>5 DEF Request
<1>9. IF "known" \in dirty
        THEN "apn" \in dirty /\ (r.mem.status = "active" => "status" \in dirty)
        ELSE row.known
  <2>1. r.mem.known /\ r.mem.apn # None
    BY <1>2, RegistryConstants DEF Savable, IInv, TypeOK, RegistryConstants
  <2>2. ~row.known => row.apn = None /\ row.status = "removed"
    BY <1>2, <1>3 DEF IInv, RowsWhole, NoMember
  <2>3. row.known \in BOOLEAN /\ r.mem.known \in BOOLEAN
    BY <1>1 DEF MemberRow
  <2> QED
    BY <1>1, <1>4, <2>1, <2>2, <2>3, DifferingMember
<1>10. Savable(q)
  BY <1>2, <1>8 DEF Savable
<1>11. Complete(q)
  BY <1>3, <1>8, <1>9 DEF Complete
<1>12. Sound(q)
  BY <1>1, <1>2, <1>8, <1>10, <1>11 DEF Sound
<1>13. Becomes(h, q) /\ UNCHANGED <<rows, history, faults>>
  BY <1>1, <1>3, <1>4, <1>5 DEF SelectMember
<1> QED
  BY <1>7, <1>12, <1>13, QuietStep

LEMMA SelectCustomerStep ==
  ASSUME IInv, NEW h \in Requests, SelectCustomer(h)
  PROVE  IInv'
<1>1. PICK r \in Request :
        /\ r = request[h] /\ Sound(r)
        /\ r.who \in Customers /\ r.cus.known /\ r.cus.apn \in Apns
        /\ r.cus \in CustomerRow
  BY Holding DEF SelectCustomer
<1>2. PICK row \in CustomerRow : row = customer[r.who]
  BY <1>1, RowsStay
<1>3. PICK left \in {{"count"}, {}} :
        Becomes(h, [r EXCEPT !.at = "writeCustomer",
                             !.dirty = Differing(row, r.cus) \ left])
  BY <1>1, <1>2 DEF SelectCustomer
<1>4. PICK dirty \in SUBSET Columns : dirty = Differing(row, r.cus) \ left
  BY <1>1, DifferingCustomer
<1>5. PICK q : q = [r EXCEPT !.at = "writeCustomer", !.dirty = dirty]
  OBVIOUS
<1>6. "writeCustomer" \in Step
  BY DEF Step
<1>7. q \in Request
  BY <1>5, <1>6 DEF Request
<1>8. /\ q.at = "writeCustomer" /\ q.who = r.who /\ q.cus = r.cus
      /\ q.dirty = dirty
  BY <1>5 DEF Request
<1>9. IF "known" \in dirty THEN "apn" \in dirty ELSE row.known
  <2>1. r.cus.apn # None
    BY <1>1, RegistryConstants DEF RegistryConstants
  <2>2. ~row.known => row.apn = None
    BY <1>1, <1>2 DEF IInv, RowsWhole, NoCustomer
  <2>3. row.known \in BOOLEAN /\ r.cus.known \in BOOLEAN
    BY <1>1 DEF CustomerRow
  <2>4. /\ "apn" \in dirty <=> row.apn # r.cus.apn
        /\ "known" \in dirty <=> row.known # r.cus.known
    BY <1>1, <1>4, DifferingCustomer
  <2> QED
    BY <1>1, <2>1, <2>2, <2>3, <2>4
<1>10. Complete(q)
  BY <1>2, <1>8, <1>9 DEF Complete
<1>11. Sound(q)
  BY <1>1, <1>8, <1>10 DEF Sound, AboutNumber
<1>12. Becomes(h, q) /\ UNCHANGED <<rows, history, faults>>
  BY <1>3, <1>4, <1>5 DEF SelectCustomer
<1> QED
  BY <1>7, <1>11, <1>12, QuietStep

\* A member row that is written is whole, its removal acknowledged, its APN
\* verified.
LEMMA MemberWritten ==
  ASSUME IInv, NEW r \in Request, Sound(r), r.at = "writeMember",
         ~DuplicateKey(member[r.number], r.dirty),
         member' = [member EXCEPT ![r.number] = Merged(@, r.mem, r.dirty)],
         UNCHANGED <<customer, verified, unlinked>>
  PROVE  /\ member' \in [Numbers -> MemberRow]
         /\ \A n \in Numbers : member[n].known => member'[n].known
         /\ RowsWhole' /\ RemovedAtPcrf' /\ MembersVerified'
<1>1. r.number \in Numbers /\ Savable(r) /\ Complete(r)
  BY DEF Sound, AboutNumber
<1>2. PICK n \in Numbers : n = r.number
  BY <1>1
<1>3. PICK row \in MemberRow : row = member[n]
  BY RowsStay
<1>4. r.mem \in MemberRow /\ r.dirty \in SUBSET Columns
  BY DEF Request
<1>5. PICK new \in MemberRow : new = Merged(row, r.mem, r.dirty)
  BY <1>4, MergedMember
<1>6. /\ new.apn = IF "apn" \in r.dirty THEN r.mem.apn ELSE row.apn
      /\ new.known = IF "known" \in r.dirty THEN r.mem.known ELSE row.known
      /\ new.status = IF "status" \in r.dirty THEN r.mem.status
                                               ELSE row.status
  BY <1>4, <1>5, MergedMember
<1>7. member' = [member EXCEPT ![n] = new]
  BY <1>2, <1>3, <1>5
<1>8. /\ member' \in [Numbers -> MemberRow] /\ member'[n] = new
      /\ \A k \in Numbers \ {n} : member'[k] = member[k]
  BY <1>7, RowsStay
<1>9. "known" \in r.dirty \/ row.known
  BY <1>1, <1>2, <1>3 DEF Complete
<1>10. new.known
  BY <1>1, <1>6, <1>9 DEF Savable
<1>11. <<n, r.mem.apn>> \in verified /\ (row.known => <<n, row.apn>> \in verified)
  BY <1>1, <1>2, <1>3 DEF Savable, IInv, MembersVerified
<1>12. <<n, new.apn>> \in verified
  BY <1>1, <1>6, <1>9, <1>11 DEF Complete
<1>13. /\ r.mem.status = "removed" => n \in unlinked
       /\ row.known /\ row.status = "removed" => n \in unlinked
  BY <1>1, <1>2, <1>3 DEF Savable, IInv, RemovedAtPcrf
<1>14. r.mem.status \in {"active", "removed"}
  BY <1>4 DEF MemberRow
<1>15. new.status = "removed" => n \in unlinked
  BY <1>1, <1>6, <1>9, <1>13, <1>14 DEF Complete
<1>16. RemovedAtPcrf'
  BY <1>8, <1>15 DEF IInv, RemovedAtPcrf
<1>17. MembersVerified'
  BY <1>8, <1>12 DEF IInv, MembersVerified
<1>18. RowsWhole'
  BY <1>8, <1>10 DEF IInv, RowsWhole
<1> QED
  BY <1>8, <1>10, <1>16, <1>17, <1>18

LEMMA WriteMemberStep ==
  ASSUME IInv, NEW h \in Requests, WriteMember(h)
  PROVE  IInv'
<1>1. PICK r \in Request :
        /\ r = request[h] /\ Sound(r)
        /\ r.who \in Customers /\ r.cus.known /\ r.cus.apn \in Apns
        /\ r.cus \in CustomerRow
  BY Holding DEF WriteMember
<1>2. /\ r.at = "writeMember"
      /\ customer' = customer /\ balance' = balance /\ held' = held
      /\ verified' = verified /\ unlinked' = unlinked /\ faults' = faults
  BY <1>1 DEF WriteMember
<1>3. r.number \in Numbers
  BY <1>1, <1>2 DEF Sound, AboutNumber
<1>4. CASE DuplicateKey(member[r.number], r.dirty)
  <2>1. Raise(h) /\ UNCHANGED member /\ faults' \in Nat
    BY <1>1, <1>2, <1>4 DEF WriteMember, IInv, TypeOK
  <2> QED
    BY <1>1, <1>2, <2>1, RaiseStep DEF rows
<1>5. CASE ~DuplicateKey(member[r.number], r.dirty)
  <2>1. PICK saved : saved = [r EXCEPT !.dirty = {}, !.mem = NoMember]
    OBVIOUS
  <2>2. saved \in Request
    BY <2>1, BlankRows DEF Request
  <2>3. saved.who = r.who /\ saved.cus = r.cus /\ saved.added = r.added
    BY <2>1 DEF Request
  <2>4. /\ member' = [member EXCEPT ![r.number] = Merged(@, r.mem, r.dirty)]
        /\ interrupted' = interrupted
        /\ \/ \E q \in AfterNumber([saved EXCEPT
                                 !.added = @ \union {r.number}]) :
                Becomes(h, q)
           \/ Becomes(h, [saved EXCEPT !.at = "selectCustomer",
                                       !.cus.count = Fewer(@)])
    BY <1>1, <1>5, <2>1 DEF WriteMember
  <2>5. /\ member' \in [Numbers -> MemberRow]
        /\ \A n \in Numbers : member[n].known => member'[n].known
        /\ RowsWhole' /\ RemovedAtPcrf' /\ MembersVerified'
    BY <1>1, <1>2, <1>5, <2>4, MemberWritten
  <2>6. \E q \in Request : Sound(q) /\ Becomes(h, q)
    <3>1. CASE \E q \in AfterNumber([saved EXCEPT
                                 !.added = @ \union {r.number}]) :
                 Becomes(h, q)
      <4>1. PICK more : more = [saved EXCEPT !.added = @ \union {r.number}]
        OBVIOUS
      <4>2. /\ more \in Request
            /\ more.who = r.who /\ more.cus = r.cus
        BY <1>3, <2>2, <2>3, <4>1 DEF Request
      <4>3. PICK q \in AfterNumber(more) : Becomes(h, q)
        BY <3>1, <4>1
      <4> QED
        BY <1>1, <4>2, <4>3, AfterNumberSound
    <3>2. CASE Becomes(h, [saved EXCEPT !.at = "selectCustomer",
                                        !.cus.count = Fewer(@)])
      <4>1. PICK k \in Nat : k = Fewer(r.cus.count)
        BY <1>1 DEF Fewer, CustomerRow
      <4>2. PICK cus \in CustomerRow : cus = [r.cus EXCEPT !.count = k]
        BY <1>1 DEF CustomerRow
      <4>3. PICK q : q = [saved EXCEPT !.at = "selectCustomer", !.cus = cus]
        OBVIOUS
      <4>4. "selectCustomer" \in Step
        BY DEF Step
      <4>5. q \in Request
        BY <2>2, <4>3, <4>4 DEF Request
      <4>6. q.at = "selectCustomer" /\ q.who = r.who /\ q.cus = cus
        BY <2>2, <2>3, <4>3 DEF Request
      <4>7. cus.known /\ cus.apn = r.cus.apn
        BY <1>1, <4>2 DEF CustomerRow
      <4>8. Sound(q)
        BY <1>1, <4>6, <4>7 DEF Sound, AboutNumber, Complete
      <4>9. Becomes(h, q)
        BY <2>2, <2>3, <3>2, <4>1, <4>2, <4>3 DEF Request
      <4> QED
        BY <4>5, <4>8, <4>9
    <3> QED
      BY <2>4, <3>1, <3>2
  <2>7. PICK q \in Request : Sound(q) /\ Becomes(h, q)
    BY <2>6
  <2>8. Sound(q)'
    BY <1>2, <2>5, <2>7, Frame
  <2> QED
    BY <1>2, <2>4, <2>5, <2>7, <2>8, RowsStay, RowStep
<1> QED
  BY <1>4, <1>5

\* An account row that is written has an APN.
LEMMA CustomerWritten ==
  ASSUME IInv, NEW r \in Request, Sound(r), r.at = "writeCustomer",
         ~DuplicateKey(customer[r.who], r.dirty),
         customer' = [customer EXCEPT ![r.who] = Merged(@, r.cus, r.dirty)],
         UNCHANGED <<member, verified, unlinked>>
  PROVE  /\ customer' \in [Customers -> CustomerRow]
         /\ \A c \in Customers : customer[c].known => customer'[c].known
         /\ RowsWhole' /\ RemovedAtPcrf' /\ MembersVerified'
<1>1. /\ r.who \in Customers /\ r.cus.known /\ r.cus.apn \in Apns
      /\ Complete(r)
  BY DEF Sound
<1>2. PICK c \in Customers : c = r.who
  BY <1>1
<1>3. PICK row \in CustomerRow : row = customer[c]
  BY RowsStay
<1>4. r.cus \in CustomerRow /\ r.dirty \in SUBSET Columns
  BY DEF Request
<1>5. PICK new \in CustomerRow : new = Merged(row, r.cus, r.dirty)
  BY <1>4, MergedCustomer
<1>6. /\ new.apn = IF "apn" \in r.dirty THEN r.cus.apn ELSE row.apn
      /\ new.known = IF "known" \in r.dirty THEN r.cus.known ELSE row.known
  BY <1>4, <1>5, MergedCustomer
<1>7. customer' = [customer EXCEPT ![c] = new]
  BY <1>2, <1>3, <1>5
<1>8. /\ customer' \in [Customers -> CustomerRow] /\ customer'[c] = new
      /\ \A d \in Customers \ {c} : customer'[d] = customer[d]
  BY <1>7, RowsStay
<1>9. IF "known" \in r.dirty THEN "apn" \in r.dirty ELSE row.known
  BY <1>1, <1>2, <1>3 DEF Complete
<1>10. new.known
  BY <1>1, <1>6, <1>9
<1>11. row.known => row.apn \in Apns
  BY <1>3 DEF IInv, RowsWhole
<1>12. new.apn \in Apns
  BY <1>1, <1>6, <1>9, <1>11
<1>13. RowsWhole'
  <2>1. ASSUME NEW d \in Customers
        PROVE  IF customer'[d].known THEN customer'[d].apn \in Apns
                                     ELSE customer'[d] = NoCustomer
    <3>1. CASE d = c
      BY <1>8, <1>10, <1>12, <3>1
    <3>2. CASE d # c
      BY <1>8, <3>2 DEF IInv, RowsWhole
    <3> QED
      BY <3>1, <3>2
  <2> QED
    BY <2>1 DEF IInv, RowsWhole
<1>14. RemovedAtPcrf' /\ MembersVerified'
  BY DEF IInv, RemovedAtPcrf, MembersVerified
<1> QED
  BY <1>8, <1>10, <1>13, <1>14

LEMMA WriteCustomerStep ==
  ASSUME IInv, NEW h \in Requests, WriteCustomer(h)
  PROVE  IInv'
<1>1. PICK r \in Request :
        /\ r = request[h] /\ Sound(r)
        /\ r.who \in Customers /\ r.cus.known /\ r.cus.apn \in Apns
        /\ r.cus \in CustomerRow
  BY Holding DEF WriteCustomer
<1>2. /\ r.at = "writeCustomer"
      /\ member' = member /\ balance' = balance
      /\ verified' = verified /\ unlinked' = unlinked /\ faults' = faults
  BY <1>1 DEF WriteCustomer
<1>3. CASE DuplicateKey(customer[r.who], r.dirty)
  <2>1. Raise(h) /\ customer' = customer /\ held' = held /\ faults' \in Nat
    BY <1>1, <1>2, <1>3 DEF WriteCustomer, IInv, TypeOK
  <2> QED
    BY <1>1, <1>2, <2>1, RaiseStep DEF rows
<1>4. CASE ~DuplicateKey(customer[r.who], r.dirty)
  <2>1. PICK saved : saved = [r EXCEPT !.dirty = {}]
    OBVIOUS
  <2>2. /\ saved \in Request
        /\ saved.who = r.who /\ saved.cus = r.cus
        /\ saved.number = r.number
    BY <2>1 DEF Request
  <2>3. /\ customer' = [customer EXCEPT ![r.who] = Merged(@, r.cus, r.dirty)]
        /\ held' = [held EXCEPT ![r.who] = Told(r)]
        /\ interrupted' = interrupted
    BY <1>1, <1>4 DEF WriteCustomer
  <2>4. Told(r) \subseteq Numbers
    BY <1>1, RowsStay DEF Told, Request
  <2>5. held' \in [Customers -> SUBSET Numbers]
    BY <1>1, <2>3, <2>4, RowsStay
  <2>6. /\ customer' \in [Customers -> CustomerRow]
        /\ \A c \in Customers : customer[c].known => customer'[c].known
        /\ RowsWhole' /\ RemovedAtPcrf' /\ MembersVerified'
    BY <1>1, <1>2, <1>4, <2>3, CustomerWritten
  <2>7. \/ \E at \in {"readOwner", "zeroBalance"}, op \in {"addPrimary", r.op} :
             /\ r.number \in Numbers
             /\ Becomes(h, [saved EXCEPT !.at = at, !.op = op])
        \/ Becomes(h, Idle)
    <3>1. /\ r.number \in Numbers \union {None}
          /\ r.cus.primaries \subseteq Numbers
      BY <1>1 DEF Request, CustomerRow
    <3>2. \/ /\ r.number # None
             /\ Becomes(h, [saved EXCEPT !.at = "readOwner",
                  !.op = IF "known" \in r.dirty THEN "addPrimary" ELSE r.op])
          \/ /\ r.number \in r.cus.primaries
             /\ Becomes(h, [saved EXCEPT !.at = "zeroBalance"])
          \/ Becomes(h, Idle)
      <4>1. saved.op = r.op
        BY <2>1 DEF Request
      <4> QED
        BY <1>1, <1>4, <2>1, <4>1 DEF WriteCustomer
    <3>3. [saved EXCEPT !.at = "zeroBalance"]
            = [saved EXCEPT !.at = "zeroBalance", !.op = r.op]
      BY <2>1, <2>2 DEF Request
    <3> QED
      BY <3>1, <3>2, <3>3
  <2>8. \E q \in Request : Sound(q) /\ Becomes(h, q)
    <3>1. CASE Becomes(h, Idle)
      BY <3>1, IdleSound
    <3>2. CASE \E at \in {"readOwner", "zeroBalance"}, op \in {"addPrimary", r.op} :
                 /\ r.number \in Numbers
                 /\ Becomes(h, [saved EXCEPT !.at = at, !.op = op])
      <4>1. PICK at \in {"readOwner", "zeroBalance"}, op \in {"addPrimary", r.op} :
              /\ r.number \in Numbers
              /\ Becomes(h, [saved EXCEPT !.at = at, !.op = op])
        BY <3>2
      <4>2. PICK q : q = [saved EXCEPT !.at = at, !.op = op]
        OBVIOUS
      <4>3. at \in Step /\ op \in Operations \union {"none"}
        BY DEF Step, Operations, Request
      <4>4. q \in Request
        BY <2>2, <4>2, <4>3 DEF Request
      <4>5. /\ q.at = at /\ q.who = r.who /\ q.cus = r.cus
            /\ q.number = r.number
        BY <2>2, <4>2 DEF Request
      <4>6. Sound(q)
        BY <1>1, <4>1, <4>5 DEF Sound, Complete
      <4> QED
        BY <4>1, <4>2, <4>4, <4>6
    <3> QED
      BY <2>7, <3>1, <3>2
  <2>9. PICK q \in Request : Sound(q) /\ Becomes(h, q)
    BY <2>8
  <2>10. Sound(q)'
    BY <1>2, <2>6, <2>9, Frame
  <2> QED
    BY <1>2, <2>3, <2>5, <2>6, <2>9, <2>10, RowsStay, RowStep
<1> QED
  BY <1>3, <1>4

\* A request that goes on to a step about a balance, or ends.
LEMMA BalanceSound ==
  ASSUME IInv, NEW h \in Requests, request[h].at \in AboutNumber,
         NEW at \in {"zeroBalance", "deliver"}
  PROVE  LET q == [request[h] EXCEPT !.at = at] IN q \in Request /\ Sound(q)
<1>1. PICK r \in Request : r = request[h] /\ Sound(r)
  BY InFlightSound
<1>2. r.number \in Numbers /\ r.at # "idle" /\ at \in Step
  BY <1>1 DEF Sound, AboutNumber, Step
<1> QED
  BY <1>1, <1>2, GoesOn

LEMMA ReadBalanceStep ==
  ASSUME IInv, NEW h \in Requests, ReadBalance(h)
  PROVE  IInv'
<1>1. request[h].at \in AboutNumber
  BY DEF ReadBalance, AboutNumber
<1>2. \/ \E at \in {"zeroBalance", "deliver"} :
           Becomes(h, [request[h] EXCEPT !.at = at])
      \/ Becomes(h, Idle)
  BY DEF ReadBalance
<1>3. \E q \in Request : Sound(q) /\ Becomes(h, q)
  BY <1>1, <1>2, IdleSound, BalanceSound
<1> QED
  BY <1>3, QuietStep DEF ReadBalance

LEMMA BalanceWriteStep ==
  ASSUME IInv, NEW h \in Requests, CreateZeroBalance(h) \/ DeliverBundle(h)
  PROVE  IInv'
<1>1. request[h].at \in AboutNumber
  BY DEF CreateZeroBalance, DeliverBundle, AboutNumber
<1>2. \/ Becomes(h, [request[h] EXCEPT !.at = "deliver"])
      \/ Becomes(h, Idle)
  BY DEF CreateZeroBalance, DeliverBundle
<1>3. PICK q \in Request : Sound(q) /\ Becomes(h, q)
  BY <1>1, <1>2, IdleSound, BalanceSound
<1>4. /\ customer' = customer /\ member' = member
      /\ verified' = verified /\ unlinked' = unlinked /\ held' = held
      /\ interrupted' = interrupted /\ faults' = faults
  BY DEF CreateZeroBalance, DeliverBundle, history
<1>5. balance' \in [Numbers -> {"none", "empty", "bundle"}]
  BY RowsStay DEF CreateZeroBalance, DeliverBundle
<1>6. Sound(q)'
  BY <1>3, <1>4, Frame
<1>7. RowsWhole' /\ RemovedAtPcrf' /\ MembersVerified'
  BY <1>4 DEF IInv, RowsWhole, RemovedAtPcrf, MembersVerified
<1> QED
  BY <1>3, <1>4, <1>5, <1>6, <1>7, RowsStay, RowStep

-----------------------------------------------------------------------------
(* The specification                                                       *)

LEMMA InitIInv == Init => IInv
<1> SUFFICES ASSUME Init PROVE IInv
  OBVIOUS
<1> USE RegistryConstants DEF RegistryConstants
<1>1. customer \in [Customers -> CustomerRow]
  BY BlankRows DEF Init, CustomerRow
<1>2. member \in [Numbers -> MemberRow]
  BY BlankRows DEF Init
<1>3. request \in [Requests -> Request]
  BY IdleSound DEF Init
<1>4. verified \subseteq Numbers \X Apns
  BY DEF Init
<1>5. TypeOK
  BY <1>1, <1>2, <1>3, <1>4 DEF Init, TypeOK
<1>6. RowsWhole
  BY DEF Init, RowsWhole, NoCustomer
<1>7. RemovedAtPcrf /\ MembersVerified
  BY DEF Init, RemovedAtPcrf, MembersVerified, NoMember
<1>8. \A h \in Requests : Sound(request[h])
  BY IdleSound DEF Init
<1> QED
  BY <1>5, <1>6, <1>7, <1>8 DEF IInv

LEMMA ArriveStep ==
  ASSUME IInv, NEW h \in Requests, Arrive(h)
  PROVE  IInv'
<1>1. PICK c \in Customers :
        \/ \E n \in Numbers \union {None}, apn \in Apns :
             RegisterCustomer(h, c, n, apn)
        \/ \E n \in Numbers : AddPrimaryMsisdn(h, c, n)
        \/ \E p \in Numbers, ns \in Uploads : AddSecondaryNumbers(h, c, p, ns)
        \/ \E p, n \in Numbers : RemoveSecondaryNumber(h, c, p, n)
        \/ \E apn \in Apns : UpdateCustomer(h, c, apn)
        \/ OtherChange(h, c)
        \/ \E n \in Numbers : GetBalance(h, c, n) \/ PurchaseDelivered(h, c, n)
  BY DEF Arrive
<1>2. Uploads \subseteq SUBSET Numbers
  BY DEF Uploads
<1> QED
  BY <1>1, <1>2, RegisterCustomerStep, AddPrimaryMsisdnStep,
     AddSecondaryNumbersStep, RemoveSecondaryNumberStep, UpdateCustomerStep,
     OtherChangeStep, BalanceRequestStep

LEMMA NextIInv == IInv /\ [Next]_vars => IInv'
<1> SUFFICES ASSUME IInv, [Next]_vars PROVE IInv'
  OBVIOUS
<1>1. ASSUME NEW h \in Requests, Arrive(h)
      PROVE  IInv'
  BY <1>1, ArriveStep
<1>2. ASSUME NEW h \in Requests, Proceed(h)
      PROVE  IInv'
  BY <1>2, LookupStep, ApnMatchesStep, ReverifyPrimaryStep,
     ReverifyRefusedStep, ReadRowStep, UnlinkedStep, CallFailsStep,
     SelectMemberStep, WriteMemberStep, SelectCustomerStep,
     WriteCustomerStep, ReadBalanceStep, BalanceWriteStep
     DEF Proceed
<1>3. ASSUME NEW h \in Requests, RequestFails(h)
      PROVE  IInv'
  BY <1>3, RequestFailsStep
<1>4. CASE Crash
  BY <1>4, CrashStep
<1>5. CASE UNCHANGED vars
  BY <1>5 DEF vars, rows, history, IInv, TypeOK, RowsWhole, RemovedAtPcrf,
     MembersVerified, Sound, Savable, Complete
<1> QED
  BY <1>1, <1>2, <1>3, <1>4, <1>5 DEF Next

\* The inductive invariant holds: what every entity in flight may save, and
\* what the rows may say, whatever overlaps, fails or crashes.
THEOREM SpecIInv == Spec => []IInv
  BY InitIInv, NextIInv, PTL DEF Spec

\* Type correctness of the registry.
THEOREM RegistryTypeCorrect == Spec => []TypeOK
<1>1. IInv => TypeOK
  BY DEF IInv
<1> QED
  BY <1>1, SpecIInv, PTL

\* removeSecondaryNumber: a row says `removed` only of a number whose removal
\* the PCRF acknowledged, whatever requests write the row by turns.
THEOREM RemovalsAcknowledged == Spec => []RemovedAtPcrf
<1>1. IInv => RemovedAtPcrf
  BY DEF IInv
<1> QED
  BY <1>1, SpecIInv, PTL

\* addSecondaryNumber and addSecondaryNumbersBulk: the APN in the row of a
\* number was confirmed for it, whichever columns were written by whom.
THEOREM MembersAreVerified == Spec => []MembersVerified
<1>1. IInv => MembersVerified
  BY DEF IInv
<1> QED
  BY <1>1, SpecIInv, PTL

-----------------------------------------------------------------------------
(* One request at a time about an account or a number                      *)

Saving == {"selectCustomer", "writeCustomer"}

\* The steps of each operation.
Stages(op) ==
  CASE op = "register" ->
         {"readOwner", "readMember", "verify", "zeroBalance"} \union Saving
    [] op = "addPrimary" ->
         {"readOwner", "readMember", "verify", "zeroBalance"} \union Saving
    [] op = "add" ->
         {"readOwner", "readMember", "verify", "selectMember", "writeMember"}
           \union Saving
    [] op = "remove" ->
         {"readRow", "unlink", "selectMember", "writeMember", "zeroBalance"}
           \union Saving
    [] op = "update" -> {"reverify"} \union Saving
    [] op = "other" -> Saving
    [] op \in {"balance", "purchase"} ->
         {"readBalance", "zeroBalance", "deliver"}
    [] op = "none" -> {}

\* Requests in flight are about different accounts and numbers.
Apart ==
  \A g, h \in Requests :
    g # h /\ request[g] # Idle /\ request[h] # Idle =>
      /\ request[g].who # request[h].who
      /\ Concerns(request[g]) \cap Concerns(request[h]) = {}

\* The count of an account is right, but for what its request has not counted
\* yet.
Balances(r, c) ==
  c \notin interrupted =>
    IF r.op = "add"
      THEN Cardinality(Members(c)) = customer[c].count + Cardinality(r.added)
    ELSE IF r.op = "remove" /\ r.at \in Saving
      THEN Cardinality(Members(c)) + 1 = customer[c].count
    ELSE Cardinality(Members(c)) = customer[c].count

\* The count in its entity is the row's, or what the row's will be.
Counting(r) ==
  LET count == customer[r.who].count IN
  /\ r.op = "register" => r.cus.count = 0
  /\ r.op \in {"addPrimary", "update", "other"} /\ r.at # "zeroBalance" =>
       r.cus.count = count
  /\ r.op = "add" =>
       r.cus.count = IF r.at \in Saving THEN count + Cardinality(r.added)
                                        ELSE count
  /\ r.op = "remove" /\ r.at # "zeroBalance" =>
       r.cus.count = IF r.at \in Saving THEN Fewer(count) ELSE count

\* The number at hand is free until it is added, and the account's until it
\* is removed.
Handling(r) ==
  /\ r.added \subseteq Members(r.who)
  /\ r.op # "add" => r.added = {}
  /\ r.op \in {"update", "other"} => r.number = None
  /\ r.op = "add" =>
       /\ r.at \in {"verify", "selectMember", "writeMember"} =>
            ~Secondary(r.number)
       /\ r.at \in {"selectMember", "writeMember"} =>
            r.mem.status = "active" /\ r.mem.who = r.who
       /\ r.at \in Saving => r.number = None
  /\ r.op = "remove" =>
       /\ r.at \in {"unlink", "selectMember", "writeMember"} =>
            r.number \in Members(r.who) /\ r.mem.who = r.who
       /\ r.at \in {"selectMember", "writeMember"} => r.mem.status = "removed"

\* What a save found different still is.
Compared(r) ==
  /\ r.at = "writeMember" => r.dirty = Differing(member[r.number], r.mem)
  /\ r.at = "writeCustomer" =>
       r.dirty = Differing(customer[r.who], r.cus)
                 \ (IF r.op = "register" THEN {"count"} ELSE {})

\* The primary numbers in its entity are verified for the APN in it, or the
\* update has yet to verify them.
Vouched(r) ==
  /\ \A n \in r.cus.primaries :
       <<n, r.cus.apn>> \in verified \/ (r.op = "update" /\ n \in r.todo)
  /\ r.op = "update" /\ r.at # "reverify" => r.todo = {}

\* What the one request about an account knows.
Informed(r) ==
  /\ r.at \in Stages(r.op)
  /\ Vouched(r)
  /\ Counting(r)
  /\ Handling(r)
  /\ Compared(r)
  /\ Balances(r, r.who)

TurnInv ==
  /\ Apart
  /\ \A h \in Requests : request[h] # Idle => Informed(request[h])
  /\ \A c \in Customers : ~InFlight(c) => Balances(Idle, c)
  /\ PrimariesVerified

LEMMA IdleOrNot ==
  ASSUME IInv, NEW h \in Requests, request[h] # Idle
  PROVE  /\ request[h] \in Request /\ Sound(request[h])
         /\ request[h].at # "idle" /\ request[h].who \in Customers
<1>1. request[h] \in Request /\ Sound(request[h])
  BY InFlightSound
<1> QED
  BY <1>1 DEF Sound

\* The account of a request, its rows and its own columns.
LEMMA MembersFinite ==
  ASSUME NEW c
  PROVE  IsFiniteSet(Members(c)) /\ Cardinality(Members(c)) \in Nat
<1>1. Members(c) \in SUBSET Numbers
  BY DEF Members
<1> QED
  BY <1>1, FS_Subset, FS_CardinalityType, RegistryConstants
     DEF RegistryConstants

\* A request that goes on, while rows stay, with the count it holds.
LEMMA GoesOnInformed ==
  ASSUME NEW r \in Request, NEW q \in Request, Informed(r),
         UNCHANGED <<customer, member, interrupted>>,
         q.who = r.who, q.op = r.op, q.added = r.added,
         q.cus.count = r.cus.count, r.at # "zeroBalance",
         r.op \in {"add", "remove"} => (q.at \in Saving <=> r.at \in Saving),
         q.at \in Stages(q.op), Vouched(q)', Handling(q)', Compared(q)'
  PROVE  Informed(q)'
<1>1. Counting(r) /\ Balances(r, r.who)
  BY DEF Informed
<1>2. Counting(q)'
  BY <1>1 DEF Counting
<1>3. Members(r.who)' = Members(r.who)
  BY DEF Members, Secondary
<1>4. Balances(q, q.who)'
  BY <1>1, <1>3 DEF Balances
<1> QED
  BY <1>2, <1>4 DEF Informed

\* What a request knows stays true of other accounts and numbers.
LEMMA OthersInformed ==
  ASSUME NEW r \in Request, Sound(r), r # Idle, Informed(r),
         NEW c \in Customers, r.who # c,
         NEW ns, Concerns(r) \cap ns = {},
         \A d \in Customers \ {c} :
           customer'[d] = customer[d] /\ Members(d)' = Members(d),
         \A n \in Numbers \ ns : member'[n] = member[n],
         verified \subseteq verified', interrupted \subseteq interrupted',
         interrupted' \subseteq interrupted \union {c}
  PROVE  Informed(r)'
<1>1. /\ r.who \in Customers
      /\ r.at \in AboutNumber => r.number \in Numbers
  BY DEF Sound
<1>2. /\ customer'[r.who] = customer[r.who]
      /\ Members(r.who)' = Members(r.who)
      /\ r.who \in interrupted' <=> r.who \in interrupted
  BY <1>1
<1>3. r.at \in AboutNumber => member'[r.number] = member[r.number]
  BY <1>1, RegistryConstants DEF Concerns, RegistryConstants
<1>4. Vouched(r)'
  BY DEF Informed, Vouched
<1>5. Counting(r)'
  BY <1>2 DEF Informed, Counting
<1>6. Handling(r)'
  BY <1>2, <1>3 DEF Informed, Handling, Secondary, AboutNumber
<1>7. Compared(r)'
  BY <1>2, <1>3 DEF Informed, Compared, AboutNumber
<1>8. Balances(r, r.who)'
  BY <1>2 DEF Informed, Balances
<1> QED
  BY <1>4, <1>5, <1>6, <1>7, <1>8 DEF Informed

\* A request that is not halfway leaves a right count behind.
LEMMA Settled ==
  ASSUME IInv, NEW r \in Request, r.who \in Customers, Informed(r),
         ~Halfway(r)
  PROVE  Balances(Idle, r.who)
<1>1. customer[r.who].count \in Nat
  BY RowsStay DEF CustomerRow
<1>2. Balances(r, r.who)
  BY DEF Informed
<1>3. Cardinality({}) = 0
  BY FS_EmptySet
<1>4. Idle.op = "none"
  BY DEF Idle
<1> QED
  BY <1>1, <1>2, <1>3, <1>4 DEF Balances, Halfway, Saving

\* A step of the one request about an account, which may change the rows of
\* the account and of the numbers it concerns.
LEMMA TurnStep ==
  ASSUME IInv, TurnInv, NEW h \in Requests, request[h] # Idle,
         NEW c \in Customers, c = request[h].who,
         NEW ns, ns = Concerns(request[h]),
         NEW q \in Request, Becomes(h, q),
         \/ q = Idle /\ Balances(Idle, c)'
         \/ q.who = c /\ Concerns(q) \subseteq ns /\ Informed(q)',
         \A d \in Customers \ {c} :
           customer'[d] = customer[d] /\ Members(d)' = Members(d),
         \A n \in Numbers \ ns : member'[n] = member[n],
         verified \subseteq verified', interrupted \subseteq interrupted',
         interrupted' \subseteq interrupted \union {c},
         \A n \in customer'[c].primaries :
           <<n, customer'[c].apn>> \in verified'
  PROVE  TurnInv'
<1>1. /\ request'[h] = q
      /\ \A g \in Requests \ {h} : request'[g] = request[g]
  BY DEF Becomes, IInv, TypeOK
<1>2. \A g \in Requests \ {h} : request[g] # Idle =>
        request[g].who # c /\ Concerns(request[g]) \cap ns = {}
  BY DEF TurnInv, Apart
<1>3. Apart'
  BY <1>1, <1>2 DEF TurnInv, Apart, Concerns
<1>4. ASSUME NEW g \in Requests, request'[g] # Idle
      PROVE  Informed(request[g])'
  <2>1. CASE g = h
    BY <1>1, <1>4, <2>1
  <2>2. CASE g # h
    <3>1. PICK r \in Request : r = request[g] /\ Sound(r)
      BY InFlightSound
    <3>2. r # Idle /\ request'[g] = r
      BY <1>1, <1>4, <2>2, <3>1
    <3>3. Informed(r)
      BY <3>1, <3>2 DEF TurnInv
    <3>4. r.who # c /\ Concerns(r) \cap ns = {}
      BY <1>2, <2>2, <3>1, <3>2
    <3>5. Informed(r)'
      BY <3>1, <3>2, <3>3, <3>4, OthersInformed
    <3> QED
      BY <3>2, <3>5
  <2> QED
    BY <2>1, <2>2
<1>5. ASSUME NEW d \in Customers, ~InFlight(d)'
      PROVE  Balances(Idle, d)'
  <2>1. CASE d = c
    <3>1. request'[h].who # c
      BY <1>5, <2>1 DEF InFlight
    <3> QED
      BY <1>1, <2>1, <3>1
  <2>2. CASE d # c
    <3>1. \A g \in Requests : request[g].who # d
      BY <1>1, <1>5, <2>2 DEF InFlight
    <3>2. Balances(Idle, d)
      BY <3>1 DEF TurnInv, InFlight
    <3>3. /\ customer'[d] = customer[d] /\ Members(d)' = Members(d)
          /\ d \in interrupted' <=> d \in interrupted
      BY <2>2
    <3> QED
      BY <3>2, <3>3 DEF Balances
  <2> QED
    BY <2>1, <2>2
<1>6. PrimariesVerified'
  <2>1. ASSUME NEW d \in Customers, NEW n \in customer'[d].primaries
        PROVE  <<n, customer'[d].apn>> \in verified'
    <3>1. CASE d = c
      BY <2>1, <3>1
    <3>2. CASE d # c
      BY <2>1, <3>2 DEF TurnInv, PrimariesVerified
    <3> QED
      BY <3>1, <3>2
  <2> QED
    BY <2>1 DEF PrimariesVerified
<1> QED
  BY <1>3, <1>4, <1>5, <1>6 DEF TurnInv

LEMMA TurnQuiet ==
  ASSUME IInv, TurnInv, NEW h \in Requests, request[h] # Idle,
         NEW q \in Request, Becomes(h, q),
         UNCHANGED <<customer, member, interrupted>>,
         verified \subseteq verified',
         \/ q = Idle /\ Balances(Idle, request[h].who)
         \/ /\ q.who = request[h].who
            /\ Concerns(q) \subseteq Concerns(request[h])
            /\ Informed(q)'
  PROVE  TurnInv'
<1>1. PICK c \in Customers : c = request[h].who
  BY IdleOrNot
<1>2. PICK ns : ns = Concerns(request[h])
  OBVIOUS
<1>3. \A d \in Customers :
        /\ customer'[d] = customer[d] /\ Members(d)' = Members(d)
        /\ Balances(Idle, d) => Balances(Idle, d)'
  BY DEF Members, Secondary, Balances
<1>4. \/ q = Idle /\ Balances(Idle, c)'
      \/ q.who = c /\ Concerns(q) \subseteq ns /\ Informed(q)'
  BY <1>1, <1>2, <1>3
<1>5. \A n \in customer'[c].primaries :
        <<n, customer'[c].apn>> \in verified'
  BY DEF TurnInv, PrimariesVerified
<1> QED
  BY <1>1, <1>2, <1>3, <1>4, <1>5, TurnStep

-----------------------------------------------------------------------------
(* Requests that begin                                                     *)

\* A request that meets no other finds the rows of its account settled.
LEMMA TurnBegins ==
  ASSUME IInv, TurnInv, NEW h \in Requests, request[h] = Idle,
         NEW c \in Customers, NEW q \in Request, Becomes(h, q), ~Meets(h),
         UNCHANGED <<customer, member, verified, interrupted>>,
         q.who = c, q.added = {}, q.at \in Stages(q.op),
         q.at \in {"readOwner", "readRow", "reverify", "selectCustomer",
                   "readBalance"},
         q.op \in {"add", "remove"} => q.at \notin Saving,
         q.op \in {"update", "other"} => q.number = None,
         q.cus.count = IF q.op = "register" THEN 0 ELSE customer[c].count,
         Vouched(q)
  PROVE  TurnInv'
<1>1. /\ request'[h] = q
      /\ \A g \in Requests \ {h} : request'[g] = request[g]
  BY DEF Becomes, IInv, TypeOK
<1>2. q # Idle
  BY RegistryConstants DEF RegistryConstants, Idle
<1>3. \A g \in Requests \ {h} : request[g] # Idle =>
        request[g].who # c /\ Concerns(request[g]) \cap Concerns(q) = {}
  BY <1>1 DEF Meets
<1>4. Apart'
  BY <1>1, <1>3 DEF TurnInv, Apart, Concerns
<1>5. \A d \in Customers :
        /\ customer'[d] = customer[d] /\ Members(d)' = Members(d)
        /\ Balances(Idle, d) => Balances(Idle, d)'
  BY DEF Members, Secondary, Balances
<1>6. Idle.who = None /\ None \notin Customers /\ Idle.op = "none"
  BY RegistryConstants DEF RegistryConstants, Idle
<1>7. ~InFlight(c)
  BY <1>3, <1>6 DEF InFlight
<1>8. Informed(q)'
  <2>1. Balances(Idle, c)
    BY <1>7 DEF TurnInv
  <2>2. /\ Cardinality({}) = 0 /\ customer[c].count \in Nat
        /\ Cardinality(Members(c)) \in Nat
    BY FS_EmptySet, MembersFinite, RowsStay DEF CustomerRow
  <2>3. Balances(q, c)
    BY <1>6, <2>1, <2>2 DEF Balances
  <2>4. Balances(q, q.who)'
    BY <1>5, <2>3 DEF Balances
  <2>5. Counting(q)'
    BY DEF Counting, Saving
  <2>6. Handling(q)' /\ Compared(q)'
    BY DEF Handling, Compared, Saving
  <2>7. Vouched(q)'
    BY DEF Vouched
  <2> QED
    BY <2>4, <2>5, <2>6, <2>7 DEF Informed
<1>9. ASSUME NEW g \in Requests, request'[g] # Idle
      PROVE  Informed(request[g])'
  <2>1. CASE g = h
    BY <1>1, <1>8, <2>1
  <2>2. CASE g # h
    <3>1. PICK r \in Request : r = request[g] /\ Sound(r)
      BY InFlightSound
    <3>2. r # Idle /\ request'[g] = r /\ r.who # c
      BY <1>1, <1>3, <1>9, <2>2, <3>1
    <3>3. Informed(r)
      BY <3>1, <3>2 DEF TurnInv
    <3>4. Concerns(r) \cap {} = {}
      OBVIOUS
    <3>5. Informed(r)'
      BY <1>5, <3>1, <3>2, <3>3, <3>4, OthersInformed
    <3> QED
      BY <3>2, <3>5
  <2> QED
    BY <2>1, <2>2
<1>10. ASSUME NEW d \in Customers, ~InFlight(d)'
       PROVE  Balances(Idle, d)'
  <2>1. ~InFlight(d)
    BY <1>1, <1>6, <1>10 DEF InFlight
  <2> QED
    BY <1>5, <2>1 DEF TurnInv
<1>11. PrimariesVerified'
  BY DEF TurnInv, PrimariesVerified
<1> QED
  BY <1>4, <1>9, <1>10, <1>11 DEF TurnInv

\* A request that reads the account as it is.
Reading(op, at, c, n, p, todo) ==
  [op |-> op, at |-> at, who |-> c, number |-> n, primary |-> p,
   todo |-> todo, added |-> {}, cus |-> customer[c], mem |-> NoMember,
   dirty |-> {}]

LEMMA AccountBegins ==
  ASSUME IInv, TurnInv, NEW h \in Requests, request[h] = Idle,
         NEW c \in Customers, customer[c].known, ~Meets(h),
         NEW op \in Operations \ {"register"}, NEW at \in Stages(op),
         at \in {"readOwner", "readRow", "selectCustomer", "readBalance"},
         op \in {"add", "remove"} => at \notin Saving,
         NEW n \in Numbers \union {None}, NEW p \in Numbers \union {None},
         NEW todo \in SUBSET Numbers,
         op \in {"update", "other"} => n = None /\ todo = {},
         Becomes(h, Reading(op, at, c, n, p, todo)),
         UNCHANGED <<customer, member, verified, interrupted>>
  PROVE  TurnInv'
<1>1. PICK q : q = Reading(op, at, c, n, p, todo)
  OBVIOUS
<1>2. at \in Step
  BY DEF Step
<1>3. q \in Request
  BY <1>1, <1>2, AccountRead, BlankRows DEF Request, Reading
<1>4. Vouched(q)
  BY <1>1 DEF Reading, Vouched, TurnInv, PrimariesVerified
<1>5. /\ q.who = c /\ q.added = {} /\ q.op = op /\ q.at = at
      /\ q.number = n /\ q.cus = customer[c]
  BY <1>1 DEF Reading
<1>6. Becomes(h, q)
  BY <1>1
<1>7. q.at \in {"readOwner", "readRow", "reverify", "selectCustomer",
                "readBalance"}
  BY <1>5
<1>8. q.cus.count = IF q.op = "register" THEN 0 ELSE customer[c].count
  BY <1>5
<1>9. /\ q.at \in Stages(q.op)
      /\ q.op \in {"add", "remove"} => q.at \notin Saving
      /\ q.op \in {"update", "other"} => q.number = None
  BY <1>5
<1> QED
  BY <1>3, <1>4, <1>5, <1>6, <1>7, <1>8, <1>9, TurnBegins

LEMMA RegisterCustomerTurn ==
  ASSUME IInv, TurnInv, NEW h \in Requests, ~Meets(h), NEW c \in Customers,
         NEW n \in Numbers \union {None}, NEW apn \in Apns,
         RegisterCustomer(h, c, n, apn)
  PROVE  TurnInv'
<1>1. PICK q : q = [Begin("register", "selectCustomer", c) EXCEPT
        !.number = n,
        !.cus = [known |-> TRUE, primaries |-> {}, count |-> 0, apn |-> apn]]
  OBVIOUS
<1>2. q = [op |-> "register", at |-> "selectCustomer", who |-> c,
           number |-> n, primary |-> None, todo |-> {}, added |-> {},
           cus |-> [known |-> TRUE, primaries |-> {}, count |-> 0,
                    apn |-> apn],
           mem |-> NoMember, dirty |-> {}]
  BY <1>1 DEF Begin, Idle
<1>3. q \in Request
  BY <1>2, BlankRows DEF Request, Step, Operations, CustomerRow
<1>4. q.at \in Stages(q.op) /\ Vouched(q)
  BY <1>2 DEF Stages, Saving, Vouched
<1>5. /\ q.who = c /\ q.added = {} /\ q.op = "register"
      /\ q.at = "selectCustomer" /\ q.cus.count = 0
  BY <1>2
<1>6. /\ request[h] = Idle /\ Becomes(h, q) /\ customer' = customer
      /\ member' = member /\ verified' = verified
      /\ interrupted' = interrupted
  BY <1>1 DEF RegisterCustomer, rows, history
<1> QED
  BY <1>3, <1>4, <1>5, <1>6, TurnBegins

LEMMA UpdateCustomerTurn ==
  ASSUME IInv, TurnInv, NEW h \in Requests, ~Meets(h), NEW c \in Customers,
         NEW apn \in Apns, UpdateCustomer(h, c, apn)
  PROVE  TurnInv'
<1>1. PICK ns : ns = ToVerifyAgain(c, apn)
  OBVIOUS
<1>2. PICK at : at = IF ns = {} THEN "selectCustomer" ELSE "reverify"
  OBVIOUS
<1>3. PICK q : q = [Begin("update", "selectCustomer", c) EXCEPT
          !.at = at, !.todo = ns, !.cus.apn = apn]
  OBVIOUS
<1>4. request[h] = Idle /\ customer[c].known /\ Becomes(h, q)
  BY <1>1, <1>2, <1>3 DEF UpdateCustomer, Begin, Idle
<1>5. PICK row \in CustomerRow : row = [customer[c] EXCEPT !.apn = apn]
  BY <1>4, AccountRead DEF CustomerRow
<1>6. q = [op |-> "update", at |-> at, who |-> c, number |-> None,
           primary |-> None, todo |-> ns, added |-> {}, cus |-> row,
           mem |-> NoMember, dirty |-> {}]
  BY <1>3, <1>5 DEF Begin, Idle
<1>7. /\ row.apn = apn /\ row.count = customer[c].count
      /\ row.primaries = customer[c].primaries
  BY <1>4, <1>5, AccountRead DEF CustomerRow
<1>8. /\ ns = IF apn = customer[c].apn THEN {} ELSE customer[c].primaries
      /\ ns \subseteq Numbers
  BY <1>1, <1>4, AccountRead DEF ToVerifyAgain
<1>9. at \in Step /\ "update" \in Operations
  BY <1>2 DEF Step, Operations
<1>10. q \in Request
  BY <1>6, <1>8, <1>9, BlankRows DEF Request
<1>11. Vouched(q)
  BY <1>2, <1>6, <1>7, <1>8 DEF Vouched, TurnInv, PrimariesVerified
<1>12. at \in Stages("update") /\ at \in {"reverify", "selectCustomer"}
  BY <1>2 DEF Stages, Saving
<1>13. UNCHANGED <<customer, member, verified, interrupted>>
  BY DEF UpdateCustomer, rows, history
<1> QED
  BY <1>4, <1>6, <1>7, <1>10, <1>11, <1>12, <1>13, TurnBegins

LEMMA ArriveTurn ==
  ASSUME IInv, TurnInv, NEW h \in Requests, ~Meets(h), Arrive(h)
  PROVE  TurnInv'
<1>1. PICK c \in Customers :
        \/ \E n \in Numbers \union {None}, apn \in Apns :
             RegisterCustomer(h, c, n, apn)
        \/ \E n \in Numbers : AddPrimaryMsisdn(h, c, n)
        \/ \E p \in Numbers, ns \in Uploads : AddSecondaryNumbers(h, c, p, ns)
        \/ \E p, n \in Numbers : RemoveSecondaryNumber(h, c, p, n)
        \/ \E apn \in Apns : UpdateCustomer(h, c, apn)
        \/ OtherChange(h, c)
        \/ \E n \in Numbers : GetBalance(h, c, n) \/ PurchaseDelivered(h, c, n)
  BY DEF Arrive
<1> USE DEF rows, history
<1>2. ASSUME NEW n \in Numbers, AddPrimaryMsisdn(h, c, n)
      PROVE  TurnInv'
  <2>1. PICK q : q = [Begin("addPrimary", "readOwner", c) EXCEPT !.number = n]
    OBVIOUS
  <2>2. q = Reading("addPrimary", "readOwner", c, n, None, {})
    BY <2>1 DEF Begin, Idle, Reading
  <2>3. "readOwner" \in Stages("addPrimary") /\ "addPrimary" \in Operations
    BY DEF Stages, Operations
  <2> QED
    BY <1>2, <2>1, <2>2, <2>3, AccountBegins DEF AddPrimaryMsisdn
<1>3. ASSUME NEW p \in Numbers, NEW ns \in Uploads,
             AddSecondaryNumbers(h, c, p, ns)
      PROVE  TurnInv'
  <2>1. PICK n \in ns : Becomes(h, [Begin("add", "readOwner", c) EXCEPT
          !.primary = p, !.number = n, !.todo = ns \ {n}])
    BY <1>3 DEF AddSecondaryNumbers
  <2>2. PICK q : q = [Begin("add", "readOwner", c) EXCEPT
          !.primary = p, !.number = n, !.todo = ns \ {n}]
    OBVIOUS
  <2>3. q = Reading("add", "readOwner", c, n, p, ns \ {n})
    BY <2>2 DEF Begin, Idle, Reading
  <2>4. "readOwner" \in Stages("add") /\ "add" \in Operations
    BY DEF Stages, Operations
  <2>5. n \in Numbers /\ ns \ {n} \in SUBSET Numbers
    BY DEF Uploads
  <2>6. "readOwner" \notin Saving
    BY DEF Saving
  <2> QED
    BY <1>3, <2>1, <2>2, <2>3, <2>4, <2>5, <2>6, AccountBegins
       DEF AddSecondaryNumbers
<1>4. ASSUME NEW p \in Numbers, NEW n \in Numbers,
             RemoveSecondaryNumber(h, c, p, n)
      PROVE  TurnInv'
  <2>1. PICK q : q = [Begin("remove", "readRow", c) EXCEPT
          !.primary = p, !.number = n]
    OBVIOUS
  <2>2. q = Reading("remove", "readRow", c, n, p, {})
    BY <2>1 DEF Begin, Idle, Reading
  <2>3. "readRow" \in Stages("remove") /\ "remove" \in Operations
    BY DEF Stages, Operations
  <2>4. "readRow" \notin Saving
    BY DEF Saving
  <2> QED
    BY <1>4, <2>1, <2>2, <2>3, <2>4, AccountBegins DEF RemoveSecondaryNumber
<1>5. ASSUME OtherChange(h, c)
      PROVE  TurnInv'
  <2>1. PICK q : q = Begin("other", "selectCustomer", c)
    OBVIOUS
  <2>2. q = Reading("other", "selectCustomer", c, None, None, {})
    BY <2>1 DEF Begin, Idle, Reading
  <2>3. "selectCustomer" \in Stages("other") /\ "other" \in Operations
    BY DEF Stages, Saving, Operations
  <2> QED
    BY <1>5, <2>1, <2>2, <2>3, AccountBegins DEF OtherChange
<1>6. ASSUME NEW n \in Numbers, GetBalance(h, c, n)
      PROVE  TurnInv'
  <2>1. PICK q : q = [Begin("balance", "readBalance", c) EXCEPT !.number = n]
    OBVIOUS
  <2>2. q = Reading("balance", "readBalance", c, n, None, {})
    BY <2>1 DEF Begin, Idle, Reading
  <2>3. "readBalance" \in Stages("balance") /\ "balance" \in Operations
    BY DEF Stages, Operations
  <2> QED
    BY <1>6, <2>1, <2>2, <2>3, AccountBegins DEF GetBalance
<1>7. ASSUME NEW n \in Numbers, PurchaseDelivered(h, c, n)
      PROVE  TurnInv'
  <2>1. PICK q : q = [Begin("purchase", "readBalance", c) EXCEPT !.number = n]
    OBVIOUS
  <2>2. q = Reading("purchase", "readBalance", c, n, None, {})
    BY <2>1 DEF Begin, Idle, Reading
  <2>3. "readBalance" \in Stages("purchase") /\ "purchase" \in Operations
    BY DEF Stages, Operations
  <2> QED
    BY <1>7, <2>1, <2>2, <2>3, AccountBegins DEF PurchaseDelivered
<1> QED
  BY <1>1, <1>2, <1>3, <1>4, <1>5, <1>6, <1>7, RegisterCustomerTurn,
     UpdateCustomerTurn

-----------------------------------------------------------------------------
(* Requests that read, call and decide, one at a time                      *)

LEMMA TurnHolding ==
  ASSUME IInv, TurnInv, NEW h \in Requests, request[h].at # "idle"
  PROVE  \E r \in Request :
           /\ r = request[h] /\ r # Idle /\ Sound(r) /\ Informed(r)
           /\ r.who \in Customers
           /\ r.cus \in CustomerRow /\ r.mem \in MemberRow
<1>1. PICK r \in Request :
        r = request[h] /\ Sound(r) /\ r.who \in Customers
  BY Holding
<1>2. r # Idle
  BY <1>1 DEF Idle
<1>3. Informed(r)
  BY <1>1, <1>2 DEF TurnInv
<1> QED
  BY <1>1, <1>2, <1>3 DEF Request

\* Which operations take a step.
LEMMA WhoVerifies ==
  ASSUME NEW r \in Request, Informed(r)
  PROVE  /\ r.at \in {"readOwner", "readMember", "verify"} =>
              r.op \in {"register", "addPrimary", "add"}
         /\ r.at = "reverify" => r.op = "update"
         /\ r.at \in {"readRow", "unlink"} => r.op = "remove"
         /\ r.at \in {"selectMember", "writeMember"} =>
              r.op \in {"add", "remove"}
         /\ r.at \in Saving =>
              r.op \in {"register", "addPrimary", "add", "remove", "update",
                        "other"}
         /\ r.at \in {"zeroBalance", "readBalance", "deliver"} =>
              r.op \in {"register", "addPrimary", "remove", "balance",
                        "purchase"}
         /\ r.at \in {"readBalance", "deliver"} =>
              r.op \in {"balance", "purchase"}
<1>1. r.op \in Operations \union {"none"} /\ r.at \in Stages(r.op)
  BY DEF Request, Informed
<1> QED
  BY <1>1 DEF Operations, Stages, Saving

\* An upload that is done with a number knows of the rows what it knew.
LEMMA AfterNumberInformed ==
  ASSUME NEW r \in Request, r.op = "add", r.who \in Customers,
         NEW q \in AfterNumber(r),
         r.cus.count = customer'[r.who].count, r.cus.count \in Nat,
         r.added \subseteq Members(r.who)',
         r.who \notin interrupted' =>
           Cardinality(Members(r.who)')
             = customer'[r.who].count + Cardinality(r.added),
         \A n \in r.cus.primaries : <<n, r.cus.apn>> \in verified'
  PROVE  \/ q = Idle /\ Balances(Idle, r.who)'
         \/ /\ q.who = r.who
            /\ Concerns(q) \subseteq Concerns(r)
            /\ Informed(q)'
<1>1. CASE r.todo # {}
  <2>1. PICK n \in r.todo :
          q = [r EXCEPT !.at = "readOwner", !.number = n, !.todo = @ \ {n},
                        !.mem = NoMember]
    BY <1>1 DEF AfterNumber
  <2>2. /\ q.at = "readOwner" /\ q.number = n /\ q.who = r.who
        /\ q.cus = r.cus /\ q.op = "add" /\ q.added = r.added
        /\ q.todo = r.todo \ {n} /\ q.primary = r.primary
    BY <2>1 DEF Request
  <2>3. Concerns(q) \subseteq Concerns(r)
    BY <2>2 DEF Concerns
  <2>4. q.at \in Stages(q.op)
    BY <2>2 DEF Stages
  <2>5. Vouched(q)' /\ Counting(q)' /\ Handling(q)' /\ Compared(q)'
    BY <2>2 DEF Vouched, Counting, Handling, Compared, Saving
  <2>6. Balances(q, q.who)'
    BY <2>2 DEF Balances
  <2> QED
    BY <2>2, <2>3, <2>4, <2>5, <2>6 DEF Informed
<1>2. CASE r.todo = {} /\ r.added # {}
  <2>1. Cardinality(r.added) \in Nat
    BY FS_Subset, FS_CardinalityType, RegistryConstants
       DEF RegistryConstants, Request
  <2>2. PICK k \in Nat : k = r.cus.count + Cardinality(r.added)
    BY <2>1
  <2>3. PICK cus \in CustomerRow : cus = [r.cus EXCEPT !.count = k]
    BY DEF Request, CustomerRow
  <2>4. q = [r EXCEPT !.at = "selectCustomer", !.number = None,
                      !.mem = NoMember, !.cus = cus]
    BY <1>2, <2>2, <2>3 DEF AfterNumber, Request
  <2>5. /\ q.at = "selectCustomer" /\ q.number = None /\ q.who = r.who
        /\ q.cus = cus /\ q.op = "add" /\ q.added = r.added
        /\ q.todo = r.todo /\ q.primary = r.primary
    BY <2>4 DEF Request
  <2>6. /\ cus.primaries = r.cus.primaries /\ cus.apn = r.cus.apn
        /\ cus.count = k
    BY <2>3 DEF Request, CustomerRow
  <2>7. Concerns(q) \subseteq Concerns(r)
    BY <2>5 DEF Concerns
  <2>8. q.at \in Stages(q.op)
    BY <2>5 DEF Stages, Saving
  <2>9. Vouched(q)' /\ Handling(q)' /\ Compared(q)'
    BY <2>5, <2>6 DEF Vouched, Handling, Compared
  <2>10. Counting(q)'
    BY <2>2, <2>5, <2>6 DEF Counting, Saving
  <2>11. Balances(q, q.who)'
    BY <2>5 DEF Balances
  <2> QED
    BY <2>5, <2>7, <2>8, <2>9, <2>10, <2>11 DEF Informed
<1>3. CASE r.todo = {} /\ r.added = {}
  <2>1. q = Idle /\ Idle.op = "none"
    BY <1>3 DEF AfterNumber, Idle
  <2>2. Cardinality({}) = 0
    BY FS_EmptySet
  <2>3. Balances(Idle, r.who)'
    BY <1>3, <2>1, <2>2 DEF Balances
  <2> QED
    BY <2>1, <2>3
<1> QED
  BY <1>1, <1>2, <1>3

\* A number that is refused.
LEMMA RefusedTurn ==
  ASSUME IInv, TurnInv, NEW h \in Requests,
         request[h].at \in {"readOwner", "readMember", "verify"},
         Refused(h), UNCHANGED <<rows, history>>
  PROVE  TurnInv'
<1>1. PICK r \in Request :
        /\ r = request[h] /\ r # Idle /\ Sound(r) /\ Informed(r)
        /\ r.who \in Customers /\ r.cus \in CustomerRow
  BY TurnHolding
<1>2. r.op \in {"register", "addPrimary", "add"}
  BY <1>1, WhoVerifies
<1>3. /\ UNCHANGED <<customer, member, interrupted>>
      /\ verified' = verified
  BY DEF rows, history
<1>4. CASE r.op = "add"
  <2>1. PICK q \in AfterNumber(r) : Becomes(h, q)
    BY <1>1, <1>4 DEF Refused
  <2>2. q \in Request
    BY <1>1, <2>1, AfterNumberSound DEF Sound, Idle
  <2>3. r.cus.count = customer[r.who].count /\ r.cus.count \in Nat
    BY <1>1, <1>4 DEF Informed, Counting, Saving, CustomerRow
  <2>4. r.added \subseteq Members(r.who) /\ Members(r.who)' = Members(r.who)
    BY <1>1, <1>3 DEF Informed, Handling, Members, Secondary
  <2>5. r.who \notin interrupted =>
          Cardinality(Members(r.who))
            = customer[r.who].count + Cardinality(r.added)
    BY <1>1, <1>4 DEF Informed, Balances
  <2>6. \A n \in r.cus.primaries : <<n, r.cus.apn>> \in verified
    BY <1>1, <1>4 DEF Informed, Vouched
  <2>7. \/ q = Idle /\ Balances(Idle, r.who)'
        \/ /\ q.who = r.who
           /\ Concerns(q) \subseteq Concerns(r)
           /\ Informed(q)'
    BY <1>1, <1>3, <1>4, <2>3, <2>4, <2>5, <2>6, AfterNumberInformed
  <2>8. Balances(Idle, r.who)' => Balances(Idle, r.who)
    BY <1>3, <2>4 DEF Balances
  <2> QED
    BY <1>1, <1>3, <2>1, <2>2, <2>7, <2>8, TurnQuiet
<1>5. CASE r.op # "add"
  <2>1. Becomes(h, Idle)
    BY <1>1, <1>5 DEF Refused
  <2>2. ~Halfway(r)
    BY <1>2, <1>5 DEF Halfway
  <2>3. Balances(Idle, r.who)
    BY <1>1, <2>2, Settled
  <2> QED
    BY <1>1, <1>3, <2>1, <2>3, IdleSound, TurnQuiet
<1> QED
  BY <1>4, <1>5

LEMMA LookupTurn ==
  ASSUME IInv, TurnInv, NEW h \in Requests,
         ReadOwner(h) \/ ReadMember(h) \/ ApnDiffers(h)
  PROVE  TurnInv'
<1>1. UNCHANGED <<rows, history>>
  BY DEF ReadOwner, ReadMember, ApnDiffers
<1>2. request[h].at \in {"readOwner", "readMember", "verify"}
  BY DEF ReadOwner, ReadMember, ApnDiffers
<1>3. PICK r \in Request :
        /\ r = request[h] /\ r # Idle /\ Sound(r) /\ Informed(r)
        /\ r.who \in Customers /\ r.cus \in CustomerRow
  BY <1>2, TurnHolding
<1>4. r.op \in {"register", "addPrimary", "add"}
  BY <1>2, <1>3, WhoVerifies
<1>5. \/ Refused(h)
      \/ \E at \in {"readMember", "verify"} :
           /\ Becomes(h, [r EXCEPT !.at = at])
           /\ at = "verify" => ~Secondary(r.number)
  BY <1>3 DEF ReadOwner, ReadMember, ApnDiffers
<1>6. CASE \E at \in {"readMember", "verify"} :
             /\ Becomes(h, [r EXCEPT !.at = at])
             /\ at = "verify" => ~Secondary(r.number)
  <2>1. PICK at \in {"readMember", "verify"} :
          /\ Becomes(h, [r EXCEPT !.at = at])
          /\ at = "verify" => ~Secondary(r.number)
    BY <1>6
  <2>2. PICK q : q = [r EXCEPT !.at = at]
    OBVIOUS
  <2>3. at \in Step
    BY DEF Step
  <2>4. q \in Request
    BY <2>2, <2>3 DEF Request
  <2>5. /\ q.at = at /\ q.number = r.number /\ q.who = r.who
        /\ q.cus = r.cus /\ q.op = r.op /\ q.added = r.added
        /\ q.todo = r.todo /\ q.primary = r.primary
    BY <2>2 DEF Request
  <2>6. /\ UNCHANGED <<customer, member, interrupted>>
        /\ verified' = verified
    BY <1>1 DEF rows, history
  <2>7. q.at \in Stages(q.op)
    BY <1>4, <2>5 DEF Stages
  <2>8. Vouched(q)' /\ Compared(q)'
    BY <1>3, <1>4, <2>5, <2>6 DEF Informed, Vouched, Compared
  <2>9. Handling(q)'
    BY <1>3, <1>4, <2>1, <2>5, <2>6
       DEF Informed, Handling, Members, Secondary, Saving
  <2>10. q.at \notin Saving /\ r.at \notin Saving /\ r.at # "zeroBalance"
    BY <1>2, <1>3, <2>5 DEF Saving
  <2>11. Informed(q)'
    BY <1>3, <2>4, <2>5, <2>6, <2>7, <2>8, <2>9, <2>10, GoesOnInformed
  <2>12. Concerns(q) \subseteq Concerns(r)
    BY <2>5 DEF Concerns
  <2> QED
    BY <1>3, <2>1, <2>2, <2>4, <2>5, <2>6, <2>11, <2>12, TurnQuiet
<1> QED
  BY <1>1, <1>2, <1>5, <1>6, RefusedTurn

LEMMA ApnMatchesTurn ==
  ASSUME IInv, TurnInv, NEW h \in Requests, ApnMatches(h)
  PROVE  TurnInv'
<1>1. PICK r \in Request :
        /\ r = request[h] /\ r # Idle /\ Sound(r) /\ Informed(r)
        /\ r.who \in Customers /\ r.cus \in CustomerRow
  BY TurnHolding DEF ApnMatches
<1>2. r.at = "verify" /\ r.op \in {"register", "addPrimary", "add"}
  BY <1>1, WhoVerifies DEF ApnMatches
<1>3. r.number \in Numbers
  BY <1>1, <1>2 DEF Sound, AboutNumber
<1>4. /\ verified' = verified \union {<<r.number, r.cus.apn>>}
      /\ UNCHANGED <<customer, member, interrupted>>
  BY <1>1 DEF ApnMatches, rows
<1>5. \E q \in Request :
        /\ Becomes(h, q)
        /\ q.number = r.number /\ q.who = r.who /\ q.primary = r.primary
        /\ q.op = r.op /\ q.added = r.added /\ q.todo = r.todo
        /\ q.cus.count = r.cus.count /\ q.cus.apn = r.cus.apn
        /\ q.cus.primaries \subseteq r.cus.primaries \union {r.number}
        /\ IF r.op = "add"
             THEN /\ q.at = "selectMember" /\ q.mem.status = "active"
                  /\ q.mem.who = r.who
             ELSE q.at = "selectCustomer"
  <2>1. CASE r.op = "add"
    <3>1. PICK mem : mem = NewMember(r)
      OBVIOUS
    <3>2. /\ mem \in MemberRow /\ mem.status = "active"
          /\ mem.who = r.who
      BY <1>1, <3>1 DEF NewMember, MemberRow, Request, CustomerRow
    <3>3. PICK q : q = [r EXCEPT !.at = "selectMember", !.mem = mem]
      OBVIOUS
    <3>4. "selectMember" \in Step
      BY DEF Step
    <3>5. q \in Request
      BY <3>2, <3>3, <3>4 DEF Request
    <3>6. Becomes(h, q)
      BY <1>1, <2>1, <3>1, <3>3 DEF ApnMatches
    <3>7. /\ q.at = "selectMember" /\ q.number = r.number /\ q.who = r.who
          /\ q.cus = r.cus /\ q.op = r.op /\ q.added = r.added
          /\ q.todo = r.todo /\ q.primary = r.primary /\ q.mem = mem
      BY <3>3 DEF Request
    <3> QED
      BY <2>1, <3>2, <3>5, <3>6, <3>7
  <2>2. CASE r.op # "add"
    <3>1. PICK cus : cus = [r.cus EXCEPT !.primaries = @ \union {r.number}]
      OBVIOUS
    <3>2. /\ cus \in CustomerRow /\ cus.count = r.cus.count
          /\ cus.apn = r.cus.apn
          /\ cus.primaries = r.cus.primaries \union {r.number}
      BY <1>1, <1>3, <3>1 DEF CustomerRow
    <3>3. PICK q : q = [r EXCEPT !.at = "selectCustomer", !.cus = cus]
      OBVIOUS
    <3>4. "selectCustomer" \in Step
      BY DEF Step
    <3>5. q \in Request
      BY <3>2, <3>3, <3>4 DEF Request
    <3>6. Becomes(h, q)
      BY <1>1, <2>2, <3>1, <3>3 DEF ApnMatches, Request
    <3>7. /\ q.at = "selectCustomer" /\ q.number = r.number
          /\ q.who = r.who /\ q.cus = cus /\ q.op = r.op
          /\ q.added = r.added /\ q.todo = r.todo /\ q.primary = r.primary
      BY <3>3 DEF Request
    <3> QED
      BY <2>2, <3>2, <3>5, <3>6, <3>7
  <2> QED
    BY <2>1, <2>2
<1>6. PICK q \in Request :
        /\ Becomes(h, q)
        /\ q.number = r.number /\ q.who = r.who /\ q.primary = r.primary
        /\ q.op = r.op /\ q.added = r.added /\ q.todo = r.todo
        /\ q.cus.count = r.cus.count /\ q.cus.apn = r.cus.apn
        /\ q.cus.primaries \subseteq r.cus.primaries \union {r.number}
        /\ IF r.op = "add"
             THEN /\ q.at = "selectMember" /\ q.mem.status = "active"
                  /\ q.mem.who = r.who
             ELSE q.at = "selectCustomer"
  BY <1>5
<1>7. q.at \in Stages(q.op)
  BY <1>2, <1>6 DEF Stages, Saving
<1>8. Vouched(q)'
  BY <1>1, <1>2, <1>4, <1>6 DEF Informed, Vouched
<1>9. Handling(q)'
  BY <1>1, <1>2, <1>4, <1>6
     DEF Informed, Handling, Members, Secondary, Saving
<1>10. Compared(q)'
  BY <1>6 DEF Compared
<1>11. /\ r.at \notin Saving /\ r.at # "zeroBalance"
       /\ r.op \in {"add", "remove"} => q.at \notin Saving
  BY <1>2, <1>6 DEF Saving
<1>12. Informed(q)'
  BY <1>1, <1>4, <1>6, <1>7, <1>8, <1>9, <1>10, <1>11, GoesOnInformed
<1>13. Concerns(q) \subseteq Concerns(r)
  BY <1>6 DEF Concerns
<1> QED
  BY <1>1, <1>4, <1>6, <1>12, <1>13, TurnQuiet

LEMMA ReverifyPrimaryTurn ==
  ASSUME IInv, TurnInv, NEW h \in Requests, ReverifyPrimary(h)
  PROVE  TurnInv'
<1>1. PICK r \in Request :
        /\ r = request[h] /\ r # Idle /\ Sound(r) /\ Informed(r)
        /\ r.who \in Customers
  BY TurnHolding DEF ReverifyPrimary
<1>2. r.at = "reverify" /\ r.op = "update" /\ "selectCustomer" \in Step
  BY <1>1, WhoVerifies DEF ReverifyPrimary, Step
<1>3. PICK n \in r.todo, at \in {"reverify", "selectCustomer"} :
        /\ verified' = verified \union {<<n, r.cus.apn>>}
        /\ Becomes(h, [r EXCEPT !.todo = @ \ {n}, !.at = at])
        /\ at = "selectCustomer" => r.todo = {n}
  BY <1>1, <1>2 DEF ReverifyPrimary
<1>4. UNCHANGED <<customer, member, interrupted>>
  BY DEF ReverifyPrimary, rows
<1>5. PICK q : q = [r EXCEPT !.todo = @ \ {n}, !.at = at]
  OBVIOUS
<1>6. q \in Request
  BY <1>2, <1>5 DEF Request
<1>7. /\ q.at = at /\ q.number = r.number /\ q.who = r.who
      /\ q.cus = r.cus /\ q.op = r.op /\ q.added = r.added
      /\ q.todo = r.todo \ {n} /\ q.primary = r.primary
  BY <1>5 DEF Request
<1>8. q.at \in Stages(q.op)
  BY <1>2, <1>7 DEF Stages, Saving
<1>9. Vouched(q)'
  BY <1>1, <1>2, <1>3, <1>7 DEF Informed, Vouched
<1>10. Handling(q)'
  BY <1>1, <1>2, <1>4, <1>7 DEF Informed, Handling, Members, Secondary
<1>11. Compared(q)'
  BY <1>7 DEF Compared
<1>12. Informed(q)'
  BY <1>1, <1>2, <1>4, <1>6, <1>7, <1>8, <1>9, <1>10, <1>11, <1>3,
     GoesOnInformed
<1>13. Concerns(q) \subseteq Concerns(r)
  BY <1>7 DEF Concerns
<1> QED
  BY <1>1, <1>3, <1>4, <1>5, <1>6, <1>7, <1>12, <1>13, TurnQuiet

LEMMA ReverifyRefusedTurn ==
  ASSUME IInv, TurnInv, NEW h \in Requests, ReverifyRefused(h)
  PROVE  TurnInv'
<1>1. PICK r \in Request :
        /\ r = request[h] /\ r # Idle /\ Informed(r)
        /\ r.who \in Customers
  BY TurnHolding DEF ReverifyRefused
<1>2. r.op = "update"
  BY <1>1, WhoVerifies DEF ReverifyRefused
<1>3. Balances(Idle, r.who)
  BY <1>1, <1>2, Settled DEF Halfway
<1> QED
  BY <1>1, <1>3, IdleSound, TurnQuiet DEF ReverifyRefused, rows, history

LEMMA ReadRowTurn ==
  ASSUME IInv, TurnInv, NEW h \in Requests, ReadRow(h)
  PROVE  TurnInv'
<1>1. PICK r \in Request :
        /\ r = request[h] /\ r # Idle /\ Sound(r) /\ Informed(r)
        /\ r.who \in Customers
  BY TurnHolding DEF ReadRow
<1>2. r.at = "readRow" /\ r.op = "remove"
  BY <1>1, WhoVerifies DEF ReadRow
<1>3. /\ UNCHANGED <<customer, member, interrupted>>
      /\ verified' = verified
  BY DEF ReadRow, rows, history
<1>4. CASE Becomes(h, Idle)
  <2>1. Balances(Idle, r.who)
    BY <1>1, <1>2, Settled DEF Halfway
  <2> QED
    BY <1>1, <1>3, <1>4, <2>1, IdleSound, TurnQuiet
<1>5. CASE /\ Secondary(r.number) /\ member[r.number].who = r.who
           /\ Becomes(h, [r EXCEPT !.at = "unlink", !.mem = member[r.number]])
  <2>1. r.number \in Numbers
    BY <1>1, <1>2 DEF Sound, AboutNumber
  <2>2. PICK row \in MemberRow : row = member[r.number]
    BY <2>1, RowsStay
  <2>3. PICK q : q = [r EXCEPT !.at = "unlink", !.mem = row]
    OBVIOUS
  <2>4. "unlink" \in Step
    BY DEF Step
  <2>5. q \in Request
    BY <2>2, <2>3, <2>4 DEF Request
  <2>6. /\ q.at = "unlink" /\ q.number = r.number /\ q.who = r.who
        /\ q.cus = r.cus /\ q.op = r.op /\ q.added = r.added
        /\ q.todo = r.todo /\ q.primary = r.primary /\ q.mem = row
    BY <2>3 DEF Request
  <2>7. q.at \in Stages(q.op)
    BY <1>2, <2>6 DEF Stages
  <2>8. Vouched(q)' /\ Compared(q)'
    BY <1>1, <1>2, <1>3, <2>6 DEF Informed, Vouched, Compared
  <2>9. Handling(q)'
    BY <1>1, <1>2, <1>3, <1>5, <2>1, <2>2, <2>6
       DEF Informed, Handling, Members, Secondary
  <2>10. q.at \notin Saving /\ r.at \notin Saving /\ r.at # "zeroBalance"
    BY <1>2, <2>6 DEF Saving
  <2>11. Informed(q)'
    BY <1>1, <1>3, <2>5, <2>6, <2>7, <2>8, <2>9, <2>10, GoesOnInformed
  <2>12. Concerns(q) \subseteq Concerns(r)
    BY <2>6 DEF Concerns
  <2> QED
    BY <1>1, <1>3, <1>5, <2>2, <2>3, <2>5, <2>6, <2>11, <2>12, TurnQuiet
<1> QED
  BY <1>1, <1>4, <1>5 DEF ReadRow

LEMMA UnlinkedTurn ==
  ASSUME IInv, TurnInv, NEW h \in Requests, Unlinked(h)
  PROVE  TurnInv'
<1>1. PICK r \in Request :
        /\ r = request[h] /\ r # Idle /\ Sound(r) /\ Informed(r)
        /\ r.who \in Customers /\ r.mem \in MemberRow
  BY TurnHolding DEF Unlinked
<1>2. r.at = "unlink" /\ r.op = "remove"
  BY <1>1, WhoVerifies DEF Unlinked
<1>3. /\ UNCHANGED <<customer, member, interrupted>>
      /\ verified' = verified
  BY DEF Unlinked, rows
<1>4. PICK mem : mem = [r.mem EXCEPT !.status = "removed"]
  OBVIOUS
<1>5. /\ mem \in MemberRow /\ mem.status = "removed"
      /\ mem.who = r.mem.who
  BY <1>1, <1>4 DEF MemberRow
<1>6. PICK q : q = [r EXCEPT !.at = "selectMember", !.mem = mem]
  OBVIOUS
<1>7. "selectMember" \in Step
  BY DEF Step
<1>8. q \in Request
  BY <1>5, <1>6, <1>7 DEF Request
<1>9. /\ q.at = "selectMember" /\ q.number = r.number /\ q.who = r.who
      /\ q.cus = r.cus /\ q.op = r.op /\ q.added = r.added
      /\ q.todo = r.todo /\ q.primary = r.primary /\ q.mem = mem
  BY <1>6 DEF Request
<1>10. Becomes(h, q)
  BY <1>1, <1>4, <1>6 DEF Unlinked, Request
<1>11. q.at \in Stages(q.op)
  BY <1>2, <1>9 DEF Stages
<1>12. Vouched(q)' /\ Compared(q)'
  BY <1>1, <1>2, <1>3, <1>9 DEF Informed, Vouched, Compared
<1>13. Handling(q)'
  BY <1>1, <1>2, <1>3, <1>5, <1>9
     DEF Informed, Handling, Members, Secondary
<1>14. q.at \notin Saving /\ r.at \notin Saving /\ r.at # "zeroBalance"
  BY <1>2, <1>9 DEF Saving
<1>15. Informed(q)'
  BY <1>1, <1>3, <1>8, <1>9, <1>11, <1>12, <1>13, <1>14, GoesOnInformed
<1>16. Concerns(q) \subseteq Concerns(r)
  BY <1>9 DEF Concerns
<1> QED
  BY <1>1, <1>3, <1>8, <1>9, <1>10, <1>15, <1>16, TurnQuiet

-----------------------------------------------------------------------------
(* Failures, one at a time                                                 *)

LEMMA RaiseTurn ==
  ASSUME IInv, TurnInv, NEW h \in Requests, request[h].at # "idle", Raise(h),
         UNCHANGED <<customer, member, verified>>
  PROVE  TurnInv'
<1>1. PICK r \in Request :
        /\ r = request[h] /\ r # Idle /\ Informed(r)
        /\ r.who \in Customers
  BY TurnHolding
<1>2. PICK ns : ns = Concerns(r)
  OBVIOUS
<1>3. /\ interrupted' = IF Halfway(r) THEN interrupted \union {r.who}
                                      ELSE interrupted
      /\ Becomes(h, Idle)
  BY <1>1 DEF Raise
<1>4. \A d \in Customers :
        customer'[d] = customer[d] /\ Members(d)' = Members(d)
  BY DEF Members, Secondary
<1>5. Balances(Idle, r.who)'
  <2>1. CASE Halfway(r)
    BY <1>3, <2>1 DEF Balances
  <2>2. CASE ~Halfway(r)
    <3>1. Balances(Idle, r.who)
      BY <1>1, <2>2, Settled
    <3> QED
      BY <1>1, <1>3, <1>4, <2>2, <3>1 DEF Balances
  <2> QED
    BY <2>1, <2>2
<1>6. \A n \in customer'[r.who].primaries :
        <<n, customer'[r.who].apn>> \in verified'
  BY <1>1 DEF TurnInv, PrimariesVerified
<1>7. /\ verified \subseteq verified' /\ interrupted \subseteq interrupted'
      /\ interrupted' \subseteq interrupted \union {r.who}
  BY <1>3
<1> QED
  BY <1>1, <1>2, <1>3, <1>4, <1>5, <1>6, <1>7, IdleSound, TurnStep

LEMMA CallFailsTurn ==
  ASSUME IInv, TurnInv, NEW h \in Requests, CallFails(h)
  PROVE  TurnInv'
  BY RaiseTurn DEF CallFails, rows

LEMMA RequestFailsTurn ==
  ASSUME IInv, TurnInv, NEW h \in Requests, RequestFails(h)
  PROVE  TurnInv'
<1>1. request[h].at # "idle"
  BY IdleOrNot DEF RequestFails
<1> QED
  BY <1>1, RaiseTurn DEF RequestFails, rows

LEMMA CrashTurn ==
  ASSUME IInv, TurnInv, Crash
  PROVE  TurnInv'
<1>1. /\ customer' = customer /\ member' = member
      /\ verified' = verified
      /\ \A g \in Requests : request'[g] = Idle
      /\ interrupted' = interrupted \union
           {request[h].who : h \in {g \in Requests : Halfway(request[g])}}
  BY DEF Crash, rows
<1>2. ASSUME NEW c \in Customers
      PROVE  Balances(Idle, c)'
  <2>1. Members(c)' = Members(c)
    BY <1>1 DEF Members, Secondary
  <2>2. CASE \E g \in Requests : request[g].who = c /\ Halfway(request[g])
    BY <1>1, <2>2 DEF Balances
  <2>3. CASE \A g \in Requests : request[g].who = c => ~Halfway(request[g])
    <3>1. Balances(Idle, c)
      <4>1. CASE ~InFlight(c)
        BY <4>1 DEF TurnInv
      <4>2. CASE InFlight(c)
        <5>1. PICK g \in Requests : request[g].who = c
          BY <4>2 DEF InFlight
        <5>2. request[g] # Idle
          BY <5>1, RegistryConstants DEF Idle, RegistryConstants
        <5>3. PICK r \in Request : r = request[g] /\ Informed(r)
          BY <5>2, IdleOrNot, TurnHolding
        <5> QED
          BY <2>3, <5>1, <5>3, Settled
      <4> QED
        BY <4>1, <4>2
    <3> QED
      BY <1>1, <2>1, <3>1 DEF Balances
  <2> QED
    BY <2>2, <2>3
<1>3. Apart' /\ PrimariesVerified'
  BY <1>1 DEF Apart, TurnInv, PrimariesVerified
<1> QED
  BY <1>1, <1>2, <1>3 DEF TurnInv

-----------------------------------------------------------------------------
(* Saves, one at a time                                                    *)

\* Nothing came between the two steps of a save.
LEMMA MergedAllMember ==
  ASSUME NEW row \in MemberRow, NEW entity \in MemberRow
  PROVE  Merged(row, entity, Differing(row, entity)) = entity
<1>1. PICK new : new = Merged(row, entity, Differing(row, entity))
  OBVIOUS
<1>2. new \in MemberRow
  BY <1>1, MergedMember, DifferingMember
<1>3. /\ new.known = entity.known /\ new.status = entity.status
      /\ new.who = entity.who /\ new.primary = entity.primary
      /\ new.apn = entity.apn
  BY <1>1 DEF Merged, Differing, MemberRow
<1>4. new = entity
  BY <1>2, <1>3 DEF MemberRow
<1> QED
  BY <1>1, <1>4

LEMMA MergedAllCustomer ==
  ASSUME NEW row \in CustomerRow, NEW entity \in CustomerRow,
         NEW left \in {{}, {"count"}}
  PROVE  LET new == Merged(row, entity, Differing(row, entity) \ left) IN
         /\ new.primaries = entity.primaries /\ new.apn = entity.apn
         /\ new.count = IF left = {} THEN entity.count ELSE row.count
<1>1. DOMAIN row = {"known", "primaries", "count", "apn"}
  BY DEF CustomerRow
<1>2. CASE left = {}
  BY <1>1, <1>2 DEF Merged, Differing
<1>3. CASE left = {"count"}
  BY <1>1, <1>3 DEF Merged, Differing
<1> QED
  BY <1>2, <1>3

LEMMA SelectMemberTurn ==
  ASSUME IInv, TurnInv, NEW h \in Requests, SelectMember(h)
  PROVE  TurnInv'
<1>1. PICK r \in Request :
        /\ r = request[h] /\ r # Idle /\ Sound(r) /\ Informed(r)
        /\ r.who \in Customers /\ r.mem \in MemberRow
  BY TurnHolding DEF SelectMember
<1>2. r.at = "selectMember" /\ r.op \in {"add", "remove"}
  BY <1>1, WhoVerifies DEF SelectMember
<1>3. r.number \in Numbers
  BY <1>1, <1>2 DEF Sound, AboutNumber
<1>4. PICK dirty \in SUBSET Columns :
        dirty = Differing(member[r.number], r.mem)
  BY <1>1, <1>3, RowsStay, DifferingMember
<1>5. PICK q : q = [r EXCEPT !.at = "writeMember", !.dirty = dirty]
  OBVIOUS
<1>6. "writeMember" \in Step
  BY DEF Step
<1>7. q \in Request
  BY <1>5, <1>6 DEF Request
<1>8. /\ q.at = "writeMember" /\ q.number = r.number /\ q.who = r.who
      /\ q.cus = r.cus /\ q.op = r.op /\ q.added = r.added
      /\ q.todo = r.todo /\ q.primary = r.primary /\ q.mem = r.mem
      /\ q.dirty = dirty
  BY <1>5 DEF Request
<1>9. /\ UNCHANGED <<customer, member, interrupted>>
      /\ verified' = verified
      /\ Becomes(h, q)
  BY <1>1, <1>4, <1>5 DEF SelectMember, rows, history
<1>10. q.at \in Stages(q.op)
  BY <1>2, <1>8 DEF Stages
<1>11. Vouched(q)'
  BY <1>1, <1>2, <1>8, <1>9 DEF Informed, Vouched
<1>12. Compared(q)'
  BY <1>4, <1>8, <1>9 DEF Compared
<1>13. Handling(q)'
  BY <1>1, <1>2, <1>8, <1>9
     DEF Informed, Handling, Members, Secondary, Saving
<1>14. q.at \notin Saving /\ r.at \notin Saving /\ r.at # "zeroBalance"
  BY <1>2, <1>8 DEF Saving
<1>15. Informed(q)'
  BY <1>1, <1>7, <1>8, <1>9, <1>10, <1>11, <1>12, <1>13, <1>14,
     GoesOnInformed
<1>16. Concerns(q) \subseteq Concerns(r)
  BY <1>8 DEF Concerns
<1> QED
  BY <1>1, <1>7, <1>8, <1>9, <1>15, <1>16, TurnQuiet

LEMMA SelectCustomerTurn ==
  ASSUME IInv, TurnInv, NEW h \in Requests, SelectCustomer(h)
  PROVE  TurnInv'
<1>1. PICK r \in Request :
        /\ r = request[h] /\ r # Idle /\ Sound(r) /\ Informed(r)
        /\ r.who \in Customers /\ r.cus \in CustomerRow
  BY TurnHolding DEF SelectCustomer
<1>2. r.at = "selectCustomer"
  BY <1>1 DEF SelectCustomer
<1>3. r.op \in {"register", "addPrimary", "add", "remove", "update", "other"}
  BY <1>1, <1>2, WhoVerifies DEF Saving
<1>4. PICK dirty \in SUBSET Columns :
        dirty = Differing(customer[r.who], r.cus)
                  \ (IF r.op = "register" THEN {"count"} ELSE {})
  BY <1>1, RowsStay, DifferingCustomer
<1>5. PICK q : q = [r EXCEPT !.at = "writeCustomer", !.dirty = dirty]
  OBVIOUS
<1>6. "writeCustomer" \in Step
  BY DEF Step
<1>7. q \in Request
  BY <1>5, <1>6 DEF Request
<1>8. /\ q.at = "writeCustomer" /\ q.number = r.number /\ q.who = r.who
      /\ q.cus = r.cus /\ q.op = r.op /\ q.added = r.added
      /\ q.todo = r.todo /\ q.primary = r.primary /\ q.dirty = dirty
  BY <1>5 DEF Request
<1>9. /\ UNCHANGED <<customer, member, interrupted>>
      /\ verified' = verified
      /\ Becomes(h, q)
  BY <1>1, <1>4, <1>5 DEF SelectCustomer, rows, history
<1>10. q.at \in Stages(q.op)
  BY <1>3, <1>8 DEF Stages, Saving
<1>11. Vouched(q)'
  BY <1>1, <1>2, <1>8, <1>9 DEF Informed, Vouched
<1>12. Compared(q)'
  BY <1>4, <1>8, <1>9 DEF Compared
<1>13. Handling(q)'
  BY <1>1, <1>2, <1>8, <1>9
     DEF Informed, Handling, Members, Secondary, Saving
<1>14. q.at \in Saving /\ r.at \in Saving /\ r.at # "zeroBalance"
  BY <1>2, <1>8 DEF Saving
<1>15. Informed(q)'
  BY <1>1, <1>7, <1>8, <1>9, <1>10, <1>11, <1>12, <1>13, <1>14,
     GoesOnInformed
<1>16. Concerns(q) \subseteq Concerns(r)
  BY <1>8 DEF Concerns
<1> QED
  BY <1>1, <1>7, <1>8, <1>9, <1>15, <1>16, TurnQuiet

LEMMA BalanceTurn ==
  ASSUME IInv, TurnInv, NEW h \in Requests,
         ReadBalance(h) \/ CreateZeroBalance(h) \/ DeliverBundle(h)
  PROVE  TurnInv'
<1>1. request[h].at \in {"readBalance", "zeroBalance", "deliver"}
  BY DEF ReadBalance, CreateZeroBalance, DeliverBundle
<1>2. PICK r \in Request :
        /\ r = request[h] /\ r # Idle /\ Sound(r) /\ Informed(r)
        /\ r.who \in Customers
  BY <1>1, TurnHolding
<1>3. r.op \in {"register", "addPrimary", "remove", "balance", "purchase"}
  BY <1>1, <1>2, WhoVerifies
<1>4. r.at = "readBalance" => r.op \in {"balance", "purchase"}
  BY <1>2, WhoVerifies
<1>5. /\ UNCHANGED <<customer, member, interrupted>>
      /\ verified' = verified
  BY DEF ReadBalance, CreateZeroBalance, DeliverBundle, rows, history
<1>6. \/ \E at \in {"zeroBalance", "deliver"} :
           /\ Becomes(h, [r EXCEPT !.at = at])
           /\ r.op \in {"balance", "purchase"}
      \/ Becomes(h, Idle)
  BY <1>2, <1>4 DEF ReadBalance, CreateZeroBalance, DeliverBundle
<1>7. CASE Becomes(h, Idle)
  <2>1. ~Halfway(r)
    BY <1>1, <1>2, <1>3 DEF Halfway
  <2>2. Balances(Idle, r.who)
    BY <1>2, <2>1, Settled
  <2> QED
    BY <1>2, <1>5, <1>7, <2>2, IdleSound, TurnQuiet
<1>8. CASE \E at \in {"zeroBalance", "deliver"} :
             /\ Becomes(h, [r EXCEPT !.at = at])
             /\ r.op \in {"balance", "purchase"}
  <2>1. PICK at \in {"zeroBalance", "deliver"} :
             /\ Becomes(h, [r EXCEPT !.at = at])
             /\ r.op \in {"balance", "purchase"}
    BY <1>8
  <2>2. PICK q : q = [r EXCEPT !.at = at]
    OBVIOUS
  <2>3. at \in Step
    BY DEF Step
  <2>4. q \in Request
    BY <2>2, <2>3 DEF Request
  <2>5. /\ q.at = at /\ q.number = r.number /\ q.who = r.who
        /\ q.cus = r.cus /\ q.op = r.op /\ q.added = r.added
        /\ q.todo = r.todo /\ q.primary = r.primary
    BY <2>2 DEF Request
  <2>6. q.at \in Stages(q.op)
    BY <2>1, <2>5 DEF Stages
  <2>7. Vouched(q)' /\ Compared(q)'
    BY <1>2, <1>5, <2>1, <2>5 DEF Informed, Vouched, Compared
  <2>8. Handling(q)' /\ Counting(q)'
    BY <1>2, <1>5, <2>1, <2>5
       DEF Informed, Handling, Counting, Members, Secondary
  <2>9. Members(r.who)' = Members(r.who)
    BY <1>5 DEF Members, Secondary
  <2>10. Balances(q, q.who)'
    BY <1>2, <1>5, <2>1, <2>5, <2>9 DEF Informed, Balances
  <2>11. Informed(q)'
    BY <2>6, <2>7, <2>8, <2>10 DEF Informed
  <2>12. Concerns(q) \subseteq Concerns(r)
    BY <2>5 DEF Concerns
  <2> QED
    BY <1>2, <1>5, <2>1, <2>2, <2>4, <2>5, <2>11, <2>12, TurnQuiet
<1> QED
  BY <1>6, <1>7, <1>8

\* The row of a number that is added or removed, and the numbers of accounts.
LEMMA MemberWrittenTurn ==
  ASSUME IInv, NEW r \in Request, Sound(r), Informed(r), r.who \in Customers,
         r.at = "writeMember",
         member' = [member EXCEPT
                      ![r.number] = Merged(@, r.mem, r.dirty)]
  PROVE  /\ \A d \in Customers \ {r.who} : Members(d)' = Members(d)
         /\ \A n \in Numbers \ {r.number} : member'[n] = member[n]
         /\ r.op = "add" =>
              /\ r.number \notin Members(r.who)
              /\ Members(r.who)' = Members(r.who) \union {r.number}
         /\ r.op = "remove" =>
              /\ r.number \in Members(r.who)
              /\ Members(r.who)' = Members(r.who) \ {r.number}
<1>1. /\ r.number \in Numbers /\ r.mem.known
      /\ r.mem \in MemberRow /\ r.op \in {"add", "remove"}
  BY WhoVerifies DEF Sound, AboutNumber, Savable, Request
<1>2. r.dirty = Differing(member[r.number], r.mem)
  BY DEF Informed, Compared
<1>3. member' = [member EXCEPT ![r.number] = r.mem]
  <2>1. PICK row \in MemberRow : row = member[r.number]
    BY <1>1, RowsStay
  <2>2. Merged(row, r.mem, Differing(row, r.mem)) = r.mem
    BY <1>1, MergedAllMember
  <2> QED
    BY <1>2, <2>1, <2>2
<1>4. /\ member'[r.number] = r.mem
      /\ \A n \in Numbers \ {r.number} : member'[n] = member[n]
  BY <1>1, <1>3, RowsStay
<1>5. \A d : Members(d)' =
        (Members(d) \ {r.number}) \union
          (IF r.mem.status = "active" /\ r.mem.who = d
             THEN {r.number} ELSE {})
  BY <1>1, <1>4 DEF Members, Secondary
<1>6. CASE r.op = "add"
  <2>1. /\ ~Secondary(r.number) /\ r.mem.status = "active"
        /\ r.mem.who = r.who
    BY <1>6 DEF Informed, Handling
  <2>2. \A d : r.number \notin Members(d)
    BY <2>1 DEF Members
  <2> QED
    BY <1>4, <1>5, <1>6, <2>1, <2>2
<1>7. CASE r.op = "remove"
  <2>1. r.mem.status = "removed" /\ r.number \in Members(r.who)
    BY <1>7 DEF Informed, Handling
  <2>2. \A d : d # r.who => r.number \notin Members(d)
    BY <2>1 DEF Members
  <2> QED
    BY <1>4, <1>5, <1>7, <2>1, <2>2
<1> QED
  BY <1>1, <1>6, <1>7

LEMMA WriteMemberTurn ==
  ASSUME IInv, TurnInv, NEW h \in Requests, WriteMember(h)
  PROVE  TurnInv'
<1>1. PICK r \in Request :
        /\ r = request[h] /\ r # Idle /\ Sound(r) /\ Informed(r)
        /\ r.who \in Customers /\ r.cus \in CustomerRow
        /\ r.mem \in MemberRow
  BY TurnHolding DEF WriteMember
<1>2. /\ r.at = "writeMember" /\ r.op \in {"add", "remove"}
      /\ customer' = customer /\ verified' = verified
  BY <1>1, WhoVerifies DEF WriteMember
<1>3. CASE DuplicateKey(member[r.number], r.dirty)
  BY <1>1, <1>2, <1>3, RaiseTurn DEF WriteMember
<1>4. CASE ~DuplicateKey(member[r.number], r.dirty)
  <2>1. PICK saved : saved = [r EXCEPT !.dirty = {}, !.mem = NoMember]
    OBVIOUS
  <2>2. saved \in Request
    BY <2>1, BlankRows DEF Request
  <2>3. /\ saved.at = r.at /\ saved.number = r.number /\ saved.who = r.who
        /\ saved.cus = r.cus /\ saved.op = r.op /\ saved.added = r.added
        /\ saved.todo = r.todo /\ saved.primary = r.primary
    BY <2>1 DEF Request
  <2>4. /\ member' = [member EXCEPT ![r.number] = Merged(@, r.mem, r.dirty)]
        /\ interrupted' = interrupted
        /\ \/ /\ r.op = "add"
              /\ \E q \in AfterNumber([saved EXCEPT
                                 !.added = @ \union {r.number}]) :
                   Becomes(h, q)
           \/ /\ r.op = "remove"
              /\ Becomes(h, [saved EXCEPT !.at = "selectCustomer",
                                          !.cus.count = Fewer(@)])
    BY <1>1, <1>4, <2>1 DEF WriteMember
  <2>5. /\ \A d \in Customers \ {r.who} : Members(d)' = Members(d)
        /\ \A n \in Numbers \ {r.number} : member'[n] = member[n]
        /\ r.op = "add" =>
             /\ r.number \notin Members(r.who)
             /\ Members(r.who)' = Members(r.who) \union {r.number}
        /\ r.op = "remove" =>
             /\ r.number \in Members(r.who)
             /\ Members(r.who)' = Members(r.who) \ {r.number}
    BY <1>1, <1>2, <2>4, MemberWrittenTurn
  <2>6. r.number \in Numbers /\ r.number \in Concerns(r)
    BY <1>1, <1>2, RegistryConstants
       DEF Sound, AboutNumber, Concerns, RegistryConstants
  <2>7. IsFiniteSet(Members(r.who)) /\ Cardinality(Members(r.who)) \in Nat
    BY MembersFinite
  <2>8. /\ customer[r.who].count \in Nat
        /\ r.cus.count = customer[r.who].count
    BY <1>1, <1>2, RowsStay DEF Informed, Counting, Saving, CustomerRow
  <2>9. \A n \in r.cus.primaries : <<n, r.cus.apn>> \in verified'
    BY <1>1, <1>2 DEF Informed, Vouched
  <2>10. \E q \in Request :
           /\ Becomes(h, q)
           /\ \/ q = Idle /\ Balances(Idle, r.who)'
              \/ /\ q.who = r.who
                 /\ Concerns(q) \subseteq Concerns(r)
                 /\ Informed(q)'
    <3>1. CASE r.op = "add"
      <4>1. PICK more : more = [saved EXCEPT !.added = @ \union {r.number}]
        OBVIOUS
      <4>2. more \in Request
        BY <2>2, <2>6, <4>1 DEF Request
      <4>3. /\ more.who = r.who /\ more.cus = r.cus /\ more.op = "add"
            /\ more.number = r.number /\ more.todo = r.todo
            /\ more.primary = r.primary
            /\ more.added = r.added \union {r.number}
        BY <2>2, <2>3, <3>1, <4>1 DEF Request
      <4>4. PICK q \in AfterNumber(more) : Becomes(h, q)
        BY <2>4, <3>1, <4>1
      <4>5. q \in Request
        BY <1>1, <1>2, <4>2, <4>3, AfterNumberSound DEF Sound
      <4>6. /\ r.added \subseteq Members(r.who)
            /\ r.who \notin interrupted =>
                 Cardinality(Members(r.who))
                   = customer[r.who].count + Cardinality(r.added)
        BY <1>1, <3>1 DEF Informed, Handling, Balances
      <4>7. more.added \subseteq Members(r.who)'
        BY <2>5, <3>1, <4>3, <4>6
      <4>8. r.who \notin interrupted' =>
              Cardinality(Members(r.who)')
                = customer'[r.who].count + Cardinality(more.added)
        <5>1. /\ IsFiniteSet(r.added) /\ Cardinality(r.added) \in Nat
              /\ r.number \notin r.added
          BY <2>5, <2>7, <3>1, <4>6, FS_Subset, FS_CardinalityType
        <5>2. Cardinality(more.added) = Cardinality(r.added) + 1
          BY <4>3, <5>1, FS_AddElement
        <5>3. Cardinality(Members(r.who)') = Cardinality(Members(r.who)) + 1
          BY <2>5, <2>7, <3>1, FS_AddElement
        <5> QED
          BY <1>2, <2>4, <2>7, <2>8, <4>6, <5>1, <5>2, <5>3
      <4>9. \/ q = Idle /\ Balances(Idle, more.who)'
            \/ /\ q.who = more.who
               /\ Concerns(q) \subseteq Concerns(more)
               /\ Informed(q)'
        BY <1>1, <1>2, <2>8, <2>9, <4>2, <4>3, <4>7, <4>8,
           AfterNumberInformed
      <4>10. Concerns(more) \subseteq Concerns(r)
        BY <2>6, <4>3 DEF Concerns
      <4> QED
        BY <4>3, <4>4, <4>5, <4>9, <4>10
    <3>2. CASE r.op = "remove"
      <4>1. PICK k \in Nat : k = Fewer(r.cus.count)
        BY <2>8 DEF Fewer
      <4>2. PICK cus \in CustomerRow : cus = [r.cus EXCEPT !.count = k]
        BY <1>1 DEF CustomerRow
      <4>3. PICK q : q = [saved EXCEPT !.at = "selectCustomer", !.cus = cus]
        OBVIOUS
      <4>4. "selectCustomer" \in Step
        BY DEF Step
      <4>5. q \in Request
        BY <2>2, <4>3, <4>4 DEF Request
      <4>6. /\ q.at = "selectCustomer" /\ q.who = r.who /\ q.cus = cus
            /\ q.op = "remove" /\ q.number = r.number /\ q.todo = r.todo
            /\ q.primary = r.primary /\ q.added = r.added
        BY <2>2, <2>3, <3>2, <4>3 DEF Request
      <4>7. /\ cus.primaries = r.cus.primaries /\ cus.apn = r.cus.apn
            /\ cus.count = k
        BY <1>1, <4>2 DEF CustomerRow
      <4>8. Becomes(h, q)
        BY <2>2, <2>3, <2>4, <3>2, <4>1, <4>2, <4>3 DEF Request
      <4>9. q.at \in Stages(q.op) /\ Vouched(q)' /\ Compared(q)'
        BY <2>9, <4>6, <4>7 DEF Stages, Saving, Vouched, Compared
      <4>10. Counting(q)'
        BY <1>2, <2>8, <4>1, <4>6, <4>7 DEF Counting, Saving
      <4>11. Handling(q)'
        <5>1. r.added = {}
          BY <1>1, <3>2 DEF Informed, Handling
        <5> QED
          BY <4>6, <5>1 DEF Handling
      <4>12. Balances(q, q.who)'
        <5>1. r.who \notin interrupted =>
                Cardinality(Members(r.who)) = customer[r.who].count
          BY <1>1, <1>2, <3>2 DEF Informed, Balances, Saving
        <5>2. Cardinality(Members(r.who)') = Cardinality(Members(r.who)) - 1
          BY <2>5, <2>7, <3>2, FS_RemoveElement
        <5> QED
          BY <1>2, <2>4, <2>7, <2>8, <4>6, <5>1, <5>2 DEF Balances, Saving
      <4>13. Concerns(q) \subseteq Concerns(r)
        BY <4>6 DEF Concerns
      <4>14. Informed(q)'
        BY <4>9, <4>10, <4>11, <4>12 DEF Informed
      <4> QED
        BY <4>5, <4>6, <4>8, <4>13, <4>14
    <3> QED
      BY <1>2, <3>1, <3>2
  <2>11. PICK q \in Request :
           /\ Becomes(h, q)
           /\ \/ q = Idle /\ Balances(Idle, r.who)'
              \/ /\ q.who = r.who
                 /\ Concerns(q) \subseteq Concerns(r)
                 /\ Informed(q)'
    BY <2>10
  <2>12. \A d \in Customers \ {r.who} :
           customer'[d] = customer[d] /\ Members(d)' = Members(d)
    BY <1>2, <2>5
  <2>13. \A n \in Numbers \ Concerns(r) : member'[n] = member[n]
    BY <2>5, <2>6
  <2>14. \A n \in customer'[r.who].primaries :
           <<n, customer'[r.who].apn>> \in verified'
    BY <1>1, <1>2 DEF TurnInv, PrimariesVerified
  <2> QED
    BY <1>1, <1>2, <2>4, <2>11, <2>12, <2>13, <2>14, TurnStep
<1> QED
  BY <1>3, <1>4

\* The account row that a save leaves.
LEMMA CustomerWrittenTurn ==
  ASSUME IInv, NEW r \in Request, Informed(r), r.who \in Customers,
         r.at = "writeCustomer",
         customer' = [customer EXCEPT
                        ![r.who] = Merged(@, r.cus, r.dirty)],
         member' = member, interrupted' = interrupted, verified' = verified
  PROVE  /\ \A d \in Customers \ {r.who} : customer'[d] = customer[d]
         /\ customer'[r.who].count = IF r.op = "register"
              THEN customer[r.who].count ELSE r.cus.count
         /\ \A n \in r.cus.primaries : <<n, r.cus.apn>> \in verified
         /\ customer'[r.who].primaries = r.cus.primaries
         /\ customer'[r.who].apn = r.cus.apn
         /\ r.who \notin interrupted =>
              Cardinality(Members(r.who)') = customer'[r.who].count
<1>1. /\ r.op \in {"register", "addPrimary", "add", "remove", "update",
                   "other"}
      /\ r.at \in Saving /\ r.cus \in CustomerRow
  BY WhoVerifies DEF Saving, Request
<1>2. PICK left \in {{}, {"count"}} :
        /\ left = IF r.op = "register" THEN {"count"} ELSE {}
        /\ r.dirty = Differing(customer[r.who], r.cus) \ left
  BY DEF Informed, Compared
<1>3. PICK row \in CustomerRow : row = customer[r.who]
  BY RowsStay
<1>4. PICK new : new = Merged(row, r.cus, Differing(row, r.cus) \ left)
  OBVIOUS
<1>5. /\ new.primaries = r.cus.primaries /\ new.apn = r.cus.apn
      /\ new.count = IF left = {} THEN r.cus.count ELSE row.count
  BY <1>1, <1>4, MergedAllCustomer
<1>6. /\ customer'[r.who] = new
      /\ \A d \in Customers \ {r.who} : customer'[d] = customer[d]
  BY <1>2, <1>3, <1>4, RowsStay
<1>7. new.count = IF r.op = "register" THEN row.count ELSE r.cus.count
  BY <1>2, <1>5
<1>8. \A n \in r.cus.primaries : <<n, r.cus.apn>> \in verified
  BY DEF Informed, Vouched
<1>9. Members(r.who)' = Members(r.who) /\ Cardinality(Members(r.who)) \in Nat
  BY MembersFinite DEF Members, Secondary
<1>10. row.count \in Nat /\ Counting(r) /\ Balances(r, r.who)
  BY <1>3 DEF CustomerRow, Informed
<1>11. r.who \notin interrupted => Cardinality(Members(r.who)) = new.count
  BY <1>1, <1>3, <1>7, <1>9, <1>10 DEF Counting, Balances, Fewer
<1> QED
  BY <1>3, <1>5, <1>6, <1>7, <1>8, <1>9, <1>11

LEMMA WriteCustomerTurn ==
  ASSUME IInv, TurnInv, NEW h \in Requests, WriteCustomer(h)
  PROVE  TurnInv'
<1>1. PICK r \in Request :
        /\ r = request[h] /\ r # Idle /\ Sound(r) /\ Informed(r)
        /\ r.who \in Customers /\ r.cus \in CustomerRow
  BY TurnHolding DEF WriteCustomer
<1>2. /\ r.at = "writeCustomer" /\ r.at \in Saving
      /\ member' = member /\ verified' = verified
  BY <1>1 DEF WriteCustomer, Saving
<1>3. r.op \in {"register", "addPrimary", "add", "remove", "update", "other"}
  BY <1>1, <1>2, WhoVerifies
<1>4. CASE DuplicateKey(customer[r.who], r.dirty)
  BY <1>1, <1>2, <1>4, RaiseTurn DEF WriteCustomer
<1>5. CASE ~DuplicateKey(customer[r.who], r.dirty)
  <2>1. PICK saved : saved = [r EXCEPT !.dirty = {}]
    OBVIOUS
  <2>2. saved \in Request
    BY <2>1 DEF Request
  <2>3. /\ saved.number = r.number /\ saved.who = r.who
        /\ saved.cus = r.cus /\ saved.op = r.op /\ saved.added = r.added
        /\ saved.todo = r.todo /\ saved.primary = r.primary
    BY <2>1 DEF Request
  <2>4. /\ customer' = [customer EXCEPT ![r.who] = Merged(@, r.cus, r.dirty)]
        /\ interrupted' = interrupted
        /\ \/ /\ r.op = "register" /\ r.number # None /\ r.cus.primaries = {}
              /\ Becomes(h, [saved EXCEPT !.at = "readOwner",
                   !.op = IF "known" \in r.dirty THEN "addPrimary" ELSE @])
           \/ /\ r.number \in r.cus.primaries
              /\ Becomes(h, [saved EXCEPT !.at = "zeroBalance"])
           \/ Becomes(h, Idle)
    BY <1>1, <1>5, <2>1 DEF WriteCustomer
  <2>5. /\ \A d \in Customers \ {r.who} : customer'[d] = customer[d]
        /\ customer'[r.who].count = IF r.op = "register"
             THEN customer[r.who].count ELSE r.cus.count
        /\ \A n \in r.cus.primaries : <<n, r.cus.apn>> \in verified
        /\ customer'[r.who].primaries = r.cus.primaries
        /\ customer'[r.who].apn = r.cus.apn
        /\ r.who \notin interrupted =>
             Cardinality(Members(r.who)') = customer'[r.who].count
    BY <1>1, <1>2, <2>4, CustomerWrittenTurn
  <2>6. \E q \in Request :
          /\ Becomes(h, q)
          /\ \/ q = Idle /\ Balances(Idle, r.who)'
             \/ /\ q.who = r.who
                /\ Concerns(q) \subseteq Concerns(r)
                /\ Informed(q)'
    <3>1. CASE /\ r.op = "register" /\ r.number # None /\ r.cus.primaries = {}
               /\ Becomes(h, [saved EXCEPT !.at = "readOwner",
                    !.op = IF "known" \in r.dirty THEN "addPrimary" ELSE @])
      <4>1. PICK op : op = IF "known" \in r.dirty THEN "addPrimary"
                                                  ELSE "register"
        OBVIOUS
      <4>2. PICK q : q = [saved EXCEPT !.at = "readOwner", !.op = op]
        OBVIOUS
      <4>3. "readOwner" \in Step /\ op \in Operations
        BY <4>1 DEF Step, Operations
      <4>4. q \in Request
        BY <2>2, <4>2, <4>3 DEF Request
      <4>5. /\ q.at = "readOwner" /\ q.number = r.number /\ q.who = r.who
            /\ q.cus = r.cus /\ q.op = op /\ q.added = r.added
            /\ q.todo = r.todo /\ q.primary = r.primary
        BY <2>2, <2>3, <4>2 DEF Request
      <4>6. Becomes(h, q)
        BY <2>2, <2>3, <3>1, <4>1, <4>2 DEF Request
      <4>7. q.at \in Stages(q.op) /\ Vouched(q)' /\ Compared(q)'
        BY <3>1, <4>1, <4>5 DEF Stages, Vouched, Compared
      <4>8. Handling(q)'
        <5>1. r.added = {}
          BY <1>1, <3>1 DEF Informed, Handling
        <5> QED
          BY <4>1, <4>5, <5>1 DEF Handling
      <4>9. Counting(q)'
        <5>1. r.cus.count = 0
          BY <1>1, <3>1 DEF Informed, Counting
        <5>2. CASE "known" \in r.dirty
          <6>1. ~customer[r.who].known
            BY <1>5, <5>2 DEF DuplicateKey
          <6>2. customer[r.who].count = 0
            BY <1>1, <6>1 DEF IInv, RowsWhole, NoCustomer
          <6> QED
            BY <2>5, <3>1, <4>1, <4>5, <5>1, <5>2, <6>2 DEF Counting
        <5>3. CASE "known" \notin r.dirty
          BY <4>1, <4>5, <5>1, <5>3 DEF Counting
        <5> QED
          BY <5>2, <5>3
      <4>10. Balances(q, q.who)'
        BY <2>4, <2>5, <4>1, <4>5 DEF Balances
      <4>11. Concerns(q) \subseteq Concerns(r)
        BY <4>5 DEF Concerns
      <4>12. Informed(q)'
        BY <4>7, <4>8, <4>9, <4>10 DEF Informed
      <4> QED
        BY <4>4, <4>5, <4>6, <4>11, <4>12
    <3>2. CASE /\ r.number \in r.cus.primaries
               /\ Becomes(h, [saved EXCEPT !.at = "zeroBalance"])
      <4>1. r.number # None
        BY <1>1, <3>2, RegistryConstants DEF RegistryConstants, CustomerRow
      <4>2. r.op \in {"register", "addPrimary", "remove"}
        BY <1>1, <1>2, <1>3, <4>1 DEF Informed, Handling
      <4>3. PICK q : q = [saved EXCEPT !.at = "zeroBalance"]
        OBVIOUS
      <4>4. "zeroBalance" \in Step
        BY DEF Step
      <4>5. q \in Request
        BY <2>2, <4>3, <4>4 DEF Request
      <4>6. /\ q.at = "zeroBalance" /\ q.number = r.number /\ q.who = r.who
            /\ q.cus = r.cus /\ q.op = r.op /\ q.added = r.added
            /\ q.todo = r.todo /\ q.primary = r.primary
        BY <2>2, <2>3, <4>3 DEF Request
      <4>7. q.at \in Stages(q.op) /\ Compared(q)'
        BY <4>2, <4>6 DEF Stages, Compared
      <4>8. Vouched(q)'
        BY <1>2, <2>5, <4>2, <4>6 DEF Vouched
      <4>9. Handling(q)'
        <5>1. r.added = {}
          BY <1>1, <4>2 DEF Informed, Handling
        <5> QED
          BY <4>2, <4>6, <5>1 DEF Handling
      <4>10. Counting(q)'
        BY <1>1, <4>2, <4>6 DEF Informed, Counting, Saving
      <4>11. Balances(q, q.who)'
        BY <2>4, <2>5, <4>2, <4>6 DEF Balances, Saving
      <4>12. Concerns(q) \subseteq Concerns(r)
        BY <4>6 DEF Concerns
      <4>13. Informed(q)'
        BY <4>7, <4>8, <4>9, <4>10, <4>11 DEF Informed
      <4> QED
        BY <3>2, <4>3, <4>5, <4>6, <4>12, <4>13
    <3>3. CASE Becomes(h, Idle)
      <4>1. Idle.op = "none"
        BY DEF Idle
      <4>2. Balances(Idle, r.who)'
        BY <2>4, <2>5, <4>1 DEF Balances
      <4> QED
        BY <3>3, <4>2, IdleSound
    <3> QED
      BY <2>4, <3>1, <3>2, <3>3
  <2>7. PICK q \in Request :
          /\ Becomes(h, q)
          /\ \/ q = Idle /\ Balances(Idle, r.who)'
             \/ /\ q.who = r.who
                /\ Concerns(q) \subseteq Concerns(r)
                /\ Informed(q)'
    BY <2>6
  <2>8. \A d \in Customers \ {r.who} :
          customer'[d] = customer[d] /\ Members(d)' = Members(d)
    BY <1>2, <2>5 DEF Members, Secondary
  <2>9. \A n \in customer'[r.who].primaries :
          <<n, customer'[r.who].apn>> \in verified'
    BY <1>2, <2>5
  <2>10. \A n \in Numbers \ Concerns(r) : member'[n] = member[n]
    BY <1>2
  <2> QED
    BY <1>1, <1>2, <2>4, <2>7, <2>8, <2>9, <2>10, TurnStep
<1> QED
  BY <1>4, <1>5

-----------------------------------------------------------------------------
(* The specification with its scenarios                                    *)

LEMMA InitTurnInv == Init => TurnInv
<1> SUFFICES ASSUME Init PROVE TurnInv
  OBVIOUS
<1>1. \A h \in Requests : request[h] = Idle
  BY DEF Init
<1>2. ASSUME NEW c \in Customers
      PROVE  Balances(Idle, c)
  <2>1. Members(c) = {}
    BY DEF Init, Members, Secondary, NoMember
  <2>2. Cardinality({}) = 0 /\ Idle.op = "none"
    BY FS_EmptySet DEF Idle
  <2>3. customer[c].count = 0
    BY DEF Init, NoCustomer
  <2> QED
    BY <2>1, <2>2, <2>3 DEF Balances
<1>3. PrimariesVerified
  <2>1. ASSUME NEW c \in Customers, NEW n \in customer[c].primaries
        PROVE  <<n, customer[c].apn>> \in verified
    <3>1. CASE Owned[c] = {}
      BY <2>1, <3>1 DEF Init, NoCustomer
    <3>2. CASE Owned[c] # {}
      BY <2>1, <3>2 DEF Init
    <3> QED
      BY <3>1, <3>2
  <2> QED
    BY <2>1 DEF PrimariesVerified
<1> QED
  BY <1>1, <1>2, <1>3 DEF TurnInv, Apart

\* A request that arrives begins.
LEMMA ArriveBegan ==
  ASSUME IInv, NEW h \in Requests, Arrive(h)
  PROVE  Began(h)
<1>1. PICK c \in Customers :
        \/ \E n \in Numbers \union {None}, apn \in Apns :
             RegisterCustomer(h, c, n, apn)
        \/ \E n \in Numbers : AddPrimaryMsisdn(h, c, n)
        \/ \E p \in Numbers, ns \in Uploads : AddSecondaryNumbers(h, c, p, ns)
        \/ \E p, n \in Numbers : RemoveSecondaryNumber(h, c, p, n)
        \/ \E apn \in Apns : UpdateCustomer(h, c, apn)
        \/ OtherChange(h, c)
        \/ \E n \in Numbers : GetBalance(h, c, n) \/ PurchaseDelivered(h, c, n)
  BY DEF Arrive
<1>2. \A q : q.who = c => q # Idle
  BY RegistryConstants DEF Idle, RegistryConstants
<1>3. ASSUME NEW q, Becomes(h, q), q.who = c, request[h] = Idle
      PROVE  Began(h)
  BY <1>2, <1>3 DEF Becomes, IInv, TypeOK, Began
<1>4. ASSUME NEW n \in Numbers \union {None}, NEW apn \in Apns,
             RegisterCustomer(h, c, n, apn)
      PROVE  Began(h)
  BY <1>3, <1>4 DEF RegisterCustomer, Begin, Idle
<1>5. ASSUME NEW n \in Numbers, AddPrimaryMsisdn(h, c, n)
      PROVE  Began(h)
  BY <1>3, <1>5 DEF AddPrimaryMsisdn, Begin, Idle
<1>6. ASSUME NEW p \in Numbers, NEW ns \in Uploads,
             AddSecondaryNumbers(h, c, p, ns)
      PROVE  Began(h)
  BY <1>3, <1>6 DEF AddSecondaryNumbers, Begin, Idle
<1>7. ASSUME NEW p \in Numbers, NEW n \in Numbers,
             RemoveSecondaryNumber(h, c, p, n)
      PROVE  Began(h)
  BY <1>3, <1>7 DEF RemoveSecondaryNumber, Begin, Idle
<1>8. ASSUME NEW apn \in Apns, UpdateCustomer(h, c, apn)
      PROVE  Began(h)
  BY <1>3, <1>8 DEF UpdateCustomer, Begin, Idle
<1>9. ASSUME OtherChange(h, c)
      PROVE  Began(h)
  BY <1>3, <1>9 DEF OtherChange, Begin, Idle
<1>10. ASSUME NEW n \in Numbers,
              GetBalance(h, c, n) \/ PurchaseDelivered(h, c, n)
       PROVE  Began(h)
  BY <1>3, <1>10 DEF GetBalance, PurchaseDelivered, Begin, Idle
<1> QED
  BY <1>1, <1>4, <1>5, <1>6, <1>7, <1>8, <1>9, <1>10

LEMMA NextTurnInv ==
  ASSUME IInv, TurnInv, [Next]_vars,
         \A h \in Requests : Began(h) => ~Meets(h)
  PROVE  TurnInv'
<1>1. ASSUME NEW h \in Requests, Arrive(h)
      PROVE  TurnInv'
  BY <1>1, ArriveBegan, ArriveTurn
<1>2. ASSUME NEW h \in Requests, Proceed(h)
      PROVE  TurnInv'
  BY <1>2, LookupTurn, ApnMatchesTurn, ReverifyPrimaryTurn,
     ReverifyRefusedTurn, ReadRowTurn, UnlinkedTurn, CallFailsTurn,
     SelectMemberTurn, WriteMemberTurn, SelectCustomerTurn,
     WriteCustomerTurn, BalanceTurn
     DEF Proceed
<1>3. ASSUME NEW h \in Requests, RequestFails(h)
      PROVE  TurnInv'
  BY <1>3, RequestFailsTurn
<1>4. CASE Crash
  BY <1>4, CrashTurn
<1>5. CASE UNCHANGED vars
  <2>1. /\ customer' = customer /\ member' = member /\ request' = request
        /\ verified' = verified /\ interrupted' = interrupted
    BY <1>5 DEF vars, rows, history
  <2>2. \A c : Members(c)' = Members(c)
    BY <2>1 DEF Members, Secondary
  <2>3. ASSUME NEW r, Informed(r)
        PROVE  Informed(r)'
    <3>1. Vouched(r)' /\ Counting(r)' /\ Compared(r)'
      BY <2>1, <2>3 DEF Informed, Vouched, Counting, Compared
    <3>2. Handling(r)' /\ Balances(r, r.who)'
      BY <2>1, <2>2, <2>3 DEF Informed, Handling, Secondary, Balances
    <3> QED
      BY <2>3, <3>1, <3>2 DEF Informed
  <2>4. \A c \in Customers : Balances(Idle, c) => Balances(Idle, c)'
    BY <2>1, <2>2 DEF Balances
  <2>5. Apart' /\ PrimariesVerified'
    BY <2>1 DEF TurnInv, Apart, PrimariesVerified
  <2> QED
    BY <2>1, <2>3, <2>4, <2>5 DEF TurnInv, InFlight
<1> QED
  BY <1>1, <1>2, <1>3, <1>4, <1>5 DEF Next

\* In the scenarios in which requests wait for one another.
InTurns == scenario # "together" => TurnInv

LEMMA MCStep ==
  ASSUME IInv, InTurns, [MCNext]_<<vars, scenario>>
  PROVE  IInv' /\ InTurns'
<1>1. [Next]_vars /\ scenario' = scenario
  BY DEF MCNext, vars
<1>2. IInv'
  BY <1>1, NextIInv
<1>3. ASSUME scenario # "together"
      PROVE  TurnInv'
  <2>1. CASE UNCHANGED <<vars, scenario>>
    <3>1. \A h \in Requests : ~Began(h)
      BY <2>1 DEF Began, vars
    <3> QED
      BY <1>1, <1>3, <3>1, NextTurnInv DEF InTurns
  <2>2. CASE MCNext
    <3>1. \A h \in Requests : Began(h) => ~Meets(h)
      BY <1>3, <2>2 DEF MCNext, Plays
    <3> QED
      BY <1>1, <1>3, <3>1, NextTurnInv DEF InTurns
  <2> QED
    BY <2>1, <2>2
<1> QED
  BY <1>1, <1>2, <1>3 DEF InTurns

\* In those scenarios what the requests know of the rows stays true, whatever
\* call fails and wherever the process crashes.
THEOREM TurnsInvariant == MCSpec => [](IInv /\ InTurns)
<1>1. MCInit => IInv /\ InTurns
  BY InitIInv, InitTurnInv DEF MCInit, InTurns
<1>2. IInv /\ InTurns /\ [MCNext]_<<vars, scenario>> => (IInv /\ InTurns)'
  BY MCStep
<1> QED
  BY <1>1, <1>2, PTL DEF MCSpec

\* addSecondaryNumbersBulk, removeSecondaryNumber and updateCustomer: while
\* requests about an account wait for one another, its count is that of its
\* active rows unless a fault came between two saves, and its primary numbers
\* were verified for the APN it has.
THEOREM AccountsAreTrueInTurns == MCSpec => []AccountsTrueInTurns
<1>1. IInv /\ InTurns => AccountsTrueInTurns
  <2> SUFFICES ASSUME IInv, InTurns, scenario # "together"
               PROVE  CountExact /\ PrimariesVerified
    BY DEF AccountsTrueInTurns
  <2>1. Idle.op = "none"
    BY DEF Idle
  <2>2. CountExact
    BY <2>1 DEF InTurns, TurnInv, CountExact, Balances
  <2> QED
    BY <2>2 DEF InTurns, TurnInv
<1> QED
  BY <1>1, TurnsInvariant, PTL

-----------------------------------------------------------------------------
(* The place of a number, while no account is registered again             *)

\* What a request knows of the place of its number.
Placing(r) ==
  LET n == r.number IN
  /\ r.op = "register" =>
       r.at \in Saving /\ ~customer[r.who].known /\ r.cus.primaries = {}
  /\ r.op \in {"addPrimary", "add", "remove", "update", "other"}
       /\ r.at # "zeroBalance" =>
       r.cus.primaries = customer[r.who].primaries \union
         (IF r.op = "addPrimary" /\ r.at \in Saving THEN {n} ELSE {})
  /\ \/ r.at \in {"readMember", "verify"}
     \/ r.op = "add" /\ r.at \in {"selectMember", "writeMember"}
     \/ r.op \in {"addPrimary", "remove"} /\ r.at \in Saving
     => ~PrimaryElsewhere(n)
  /\ r.op = "addPrimary" =>
       n \in Numbers /\ (r.at \in {"verify"} \union Saving => ~Secondary(n))
  /\ r.at \in {"readBalance", "zeroBalance", "deliver"} =>
       n \in customer[r.who].primaries
  /\ r.at = "zeroBalance" => balance[n] = "none"

\* A number is the primary number of one account at most, or a secondary
\* number; only a primary number has a balance.
Placed ==
  /\ \A c, d \in Customers :
       c # d => customer[c].primaries \cap customer[d].primaries = {}
  /\ \A n \in Numbers :
       Secondary(n) => ~PrimaryElsewhere(n) /\ member[n].who \in Customers
  /\ \A n \in Numbers : balance[n] # "none" => PrimaryElsewhere(n)

BookInv ==
  /\ Placed
  /\ \A h \in Requests : request[h] # Idle => Placing(request[h])

LEMMA BookQuiet ==
  ASSUME IInv, BookInv, NEW h \in Requests, NEW q, Becomes(h, q),
         UNCHANGED rows, q = Idle \/ Placing(q)
  PROVE  BookInv'
<1>1. /\ request'[h] = q
      /\ \A g \in Requests \ {h} : request'[g] = request[g]
  BY DEF Becomes, IInv, TypeOK
<1>2. customer' = customer /\ member' = member /\ balance' = balance
  BY DEF rows
<1>3. \A x : Placing(x) => Placing(x)'
  BY <1>2 DEF Placing, PrimaryElsewhere, Secondary
<1>4. Placed'
  BY <1>2 DEF BookInv, Placed, PrimaryElsewhere, Secondary
<1> QED
  BY <1>1, <1>3, <1>4 DEF BookInv

LEMMA BookHolding ==
  ASSUME IInv, TurnInv, BookInv, NEW h \in Requests, request[h].at # "idle"
  PROVE  \E r \in Request :
           /\ r = request[h] /\ r # Idle /\ Sound(r) /\ Informed(r)
           /\ Placing(r) /\ r.who \in Customers
           /\ r.cus \in CustomerRow
<1>1. PICK r \in Request :
        /\ r = request[h] /\ r # Idle /\ Sound(r) /\ Informed(r)
        /\ r.who \in Customers /\ r.cus \in CustomerRow
  BY TurnHolding
<1>2. Placing(r)
  BY <1>1 DEF BookInv
<1> QED
  BY <1>1, <1>2

\* A step of the one request about an account, which may change the account,
\* and the rows of the number at hand.
LEMMA BookStep ==
  ASSUME IInv, TurnInv, BookInv, NEW h \in Requests, request[h] # Idle,
         NEW c \in Customers, c = request[h].who,
         NEW n, n = request[h].number,
         NEW q, Becomes(h, q), q = Idle \/ Placing(q)',
         customer' \in [Customers -> CustomerRow],
         \A d \in Customers \ {c} : customer'[d] = customer[d],
         \A m : m # n =>
           (m \in customer'[c].primaries <=> m \in customer[c].primaries),
         \A m \in Numbers \ {n} :
           member'[m] = member[m] /\ balance'[m] = balance[m],
         Placed'
  PROVE  BookInv'
<1>1. /\ request'[h] = q
      /\ \A g \in Requests \ {h} : request'[g] = request[g]
  BY DEF Becomes, IInv, TypeOK
<1>2. \A m : m # n \/ m = None =>
        (PrimaryElsewhere(m)' <=> PrimaryElsewhere(m))
  <2>1. ASSUME NEW m, m # n
        PROVE  PrimaryElsewhere(m)' <=> PrimaryElsewhere(m)
    BY <2>1 DEF PrimaryElsewhere
  <2>2. ~PrimaryElsewhere(None)' /\ ~PrimaryElsewhere(None)
    BY RowsStay, RegistryConstants
       DEF PrimaryElsewhere, CustomerRow, RegistryConstants
  <2> QED
    BY <2>1, <2>2
<1>3. ASSUME NEW g \in Requests, request'[g] # Idle
      PROVE  Placing(request[g])'
  <2>1. CASE g = h
    BY <1>1, <1>3, <2>1
  <2>2. CASE g # h
    <3>1. PICK r \in Request : r = request[g] /\ Sound(r)
      BY InFlightSound
    <3>2. r # Idle /\ request'[g] = r
      BY <1>1, <1>3, <2>2, <3>1
    <3>3. /\ r.who # c /\ r.who \in Customers
          /\ Concerns(r) \cap Concerns(request[h]) = {}
      BY <2>2, <3>1, <3>2 DEF TurnInv, Apart, Sound
    <3>4. r.number # n \/ r.number = None
      BY <3>3 DEF Concerns
    <3>5. Placing(r)
      BY <3>1, <3>2 DEF BookInv
    <3>6. /\ customer'[r.who] = customer[r.who]
          /\ PrimaryElsewhere(r.number)' <=> PrimaryElsewhere(r.number)
      BY <1>2, <3>3, <3>4
    <3>7. r.number \in Numbers =>
            /\ member'[r.number] = member[r.number]
            /\ balance'[r.number] = balance[r.number]
      BY <3>4, RegistryConstants DEF RegistryConstants
    <3>8. r.at = "zeroBalance" => r.number \in Numbers
      BY <3>1 DEF Sound, AboutNumber
    <3>9. Placing(r)'
      BY <3>5, <3>6, <3>7, <3>8 DEF Placing, Secondary
    <3> QED
      BY <3>2, <3>9
  <2> QED
    BY <2>1, <2>2
<1> QED
  BY <1>3 DEF BookInv

LEMMA ReadingPlaced ==
  ASSUME NEW op \in Operations \ {"register"}, NEW at \in Step,
         at \in {"readOwner", "readRow", "selectCustomer", "readBalance",
                 "reverify"},
         NEW c \in Customers, NEW n, NEW q,
         q.op = op, q.at = at, q.who = c, q.number = n,
         q.cus.primaries = customer[c].primaries,
         op = "addPrimary" => at = "readOwner" /\ n \in Numbers,
         op = "remove" => at = "readRow",
         at = "readBalance" => n \in customer[c].primaries
  PROVE  Placing(q)
  BY DEF Placing, Saving

LEMMA ArriveBook ==
  ASSUME IInv, BookInv, NEW h \in Requests, Arrive(h),
         request'[h].op = "register" => ~customer[request'[h].who].known
  PROVE  BookInv'
<1>1. PICK c \in Customers :
        \/ \E n \in Numbers \union {None}, apn \in Apns :
             RegisterCustomer(h, c, n, apn)
        \/ \E n \in Numbers : AddPrimaryMsisdn(h, c, n)
        \/ \E p \in Numbers, ns \in Uploads : AddSecondaryNumbers(h, c, p, ns)
        \/ \E p, n \in Numbers : RemoveSecondaryNumber(h, c, p, n)
        \/ \E apn \in Apns : UpdateCustomer(h, c, apn)
        \/ OtherChange(h, c)
        \/ \E n \in Numbers : GetBalance(h, c, n) \/ PurchaseDelivered(h, c, n)
  BY DEF Arrive
<1> USE DEF Operations, Step
<1>2. ASSUME NEW q, Becomes(h, q), UNCHANGED rows, Placing(q)
      PROVE  BookInv'
  BY <1>2, BookQuiet
<1>3. ASSUME NEW n \in Numbers \union {None}, NEW apn \in Apns,
             RegisterCustomer(h, c, n, apn)
      PROVE  BookInv'
  <2>1. PICK q : q = [Begin("register", "selectCustomer", c) EXCEPT
          !.number = n,
          !.cus = [known |-> TRUE, primaries |-> {}, count |-> 0, apn |-> apn]]
    OBVIOUS
  <2>2. /\ q.op = "register" /\ q.at = "selectCustomer" /\ q.who = c
        /\ q.cus.primaries = {}
    BY <2>1 DEF Begin, Idle
  <2>3. Becomes(h, q) /\ UNCHANGED rows
    BY <1>3, <2>1 DEF RegisterCustomer
  <2>4. request'[h] = q
    BY <2>3 DEF Becomes, IInv, TypeOK
  <2>5. Placing(q)
    BY <2>2, <2>4 DEF Placing, Saving
  <2> QED
    BY <1>2, <2>3, <2>5
<1>4. ASSUME NEW n \in Numbers, AddPrimaryMsisdn(h, c, n)
      PROVE  BookInv'
  <2>1. PICK q : q = [Begin("addPrimary", "readOwner", c) EXCEPT !.number = n]
    OBVIOUS
  <2>2. /\ q.op = "addPrimary" /\ q.at = "readOwner" /\ q.who = c
        /\ q.number = n /\ q.cus = customer[c]
    BY <2>1 DEF Begin, Idle
  <2>3. Placing(q)
    BY <2>2, ReadingPlaced
  <2> QED
    BY <1>2, <1>4, <2>1, <2>3 DEF AddPrimaryMsisdn
<1>5. ASSUME NEW p \in Numbers, NEW ns \in Uploads,
             AddSecondaryNumbers(h, c, p, ns)
      PROVE  BookInv'
  <2>1. PICK n \in ns : Becomes(h, [Begin("add", "readOwner", c) EXCEPT
          !.primary = p, !.number = n, !.todo = ns \ {n}])
    BY <1>5 DEF AddSecondaryNumbers
  <2>2. PICK q : q = [Begin("add", "readOwner", c) EXCEPT
          !.primary = p, !.number = n, !.todo = ns \ {n}]
    OBVIOUS
  <2>3. /\ q.op = "add" /\ q.at = "readOwner" /\ q.who = c
        /\ q.number = n /\ q.cus = customer[c]
    BY <2>2 DEF Begin, Idle
  <2>4. Placing(q)
    BY <2>3, ReadingPlaced
  <2> QED
    BY <1>2, <1>5, <2>1, <2>2, <2>4 DEF AddSecondaryNumbers
<1>6. ASSUME NEW p \in Numbers, NEW n \in Numbers,
             RemoveSecondaryNumber(h, c, p, n)
      PROVE  BookInv'
  <2>1. PICK q : q = [Begin("remove", "readRow", c) EXCEPT
          !.primary = p, !.number = n]
    OBVIOUS
  <2>2. /\ q.op = "remove" /\ q.at = "readRow" /\ q.who = c
        /\ q.number = n /\ q.cus = customer[c]
    BY <2>1 DEF Begin, Idle
  <2>3. Placing(q)
    BY <2>2, ReadingPlaced
  <2> QED
    BY <1>2, <1>6, <2>1, <2>3 DEF RemoveSecondaryNumber
<1>7. ASSUME NEW apn \in Apns, UpdateCustomer(h, c, apn)
      PROVE  BookInv'
  <2>1. PICK at \in {"selectCustomer", "reverify"},
             ns \in {{}, customer[c].primaries} :
          Becomes(h, [Begin("update", "selectCustomer", c) EXCEPT
            !.at = at, !.todo = ns, !.cus.apn = apn])
    BY <1>7 DEF UpdateCustomer, ToVerifyAgain, Begin, Idle
  <2>2. PICK row \in CustomerRow : row = customer[c]
    BY RowsStay
  <2>3. PICK new : new = [row EXCEPT !.apn = apn]
    OBVIOUS
  <2>4. new.primaries = row.primaries
    BY <2>3 DEF CustomerRow
  <2>5. PICK q : q = [Begin("update", "selectCustomer", c) EXCEPT
            !.at = at, !.todo = ns, !.cus.apn = apn]
    OBVIOUS
  <2>6. /\ q.op = "update" /\ q.at = at /\ q.who = c /\ q.cus = new
        /\ q.number = None
    BY <2>2, <2>3, <2>5 DEF Begin, Idle
  <2>7. Placing(q)
    BY <2>2, <2>4, <2>6, ReadingPlaced
  <2> QED
    BY <1>2, <1>7, <2>1, <2>5, <2>7 DEF UpdateCustomer
<1>8. ASSUME OtherChange(h, c)
      PROVE  BookInv'
  <2>1. PICK q : q = Begin("other", "selectCustomer", c)
    OBVIOUS
  <2>2. /\ q.op = "other" /\ q.at = "selectCustomer" /\ q.who = c
        /\ q.number = None /\ q.cus = customer[c]
    BY <2>1 DEF Begin, Idle
  <2>3. Placing(q)
    BY <2>2, ReadingPlaced
  <2> QED
    BY <1>2, <1>8, <2>1, <2>3 DEF OtherChange
<1>9. ASSUME NEW n \in Numbers,
             GetBalance(h, c, n) \/ PurchaseDelivered(h, c, n)
      PROVE  BookInv'
  <2>1. PICK op \in {"balance", "purchase"} :
          Becomes(h, [Begin(op, "readBalance", c) EXCEPT !.number = n])
    BY <1>9 DEF GetBalance, PurchaseDelivered
  <2>2. PICK q : q = [Begin(op, "readBalance", c) EXCEPT !.number = n]
    OBVIOUS
  <2>3. /\ q.op = op /\ q.at = "readBalance" /\ q.who = c
        /\ q.number = n /\ q.cus = customer[c]
    BY <2>2 DEF Begin, Idle
  <2>4. n \in customer[c].primaries /\ UNCHANGED rows
    BY <1>9 DEF GetBalance, PurchaseDelivered
  <2>5. Placing(q)
    BY <2>3, <2>4, ReadingPlaced
  <2> QED
    BY <1>2, <2>1, <2>2, <2>4, <2>5
<1> QED
  BY <1>1, <1>3, <1>4, <1>5, <1>6, <1>7, <1>8, <1>9

\* The account an upload holds does not change as it goes on.
LEMMA AfterNumberHolds ==
  ASSUME NEW r \in Request, NEW q \in AfterNumber(r)
  PROVE  \/ q = Idle
         \/ /\ q.op = r.op /\ q.at \in {"readOwner", "selectCustomer"}
            /\ q.who = r.who /\ q.cus.primaries = r.cus.primaries
<1>1. CASE r.todo # {}
  BY <1>1 DEF AfterNumber, Request
<1>2. CASE r.todo = {} /\ r.added # {}
  <2>1. PICK k : k = r.cus.count + Cardinality(r.added)
    OBVIOUS
  <2>2. PICK cus : cus = [r.cus EXCEPT !.count = k]
    OBVIOUS
  <2>3. cus.primaries = r.cus.primaries
    BY <2>2 DEF Request, CustomerRow
  <2>4. q = [r EXCEPT !.at = "selectCustomer", !.number = None,
                      !.mem = NoMember, !.cus = cus]
    BY <1>2, <2>1, <2>2 DEF AfterNumber, Request
  <2>5. /\ q.op = r.op /\ q.at = "selectCustomer" /\ q.who = r.who
        /\ q.cus = cus
    BY <2>4 DEF Request
  <2> QED
    BY <2>3, <2>5
<1>3. CASE r.todo = {} /\ r.added = {}
  BY <1>3 DEF AfterNumber
<1> QED
  BY <1>1, <1>2, <1>3

LEMMA RefusedBook ==
  ASSUME IInv, TurnInv, BookInv, NEW h \in Requests,
         request[h].at \in {"readOwner", "readMember", "verify"},
         Refused(h), UNCHANGED rows
  PROVE  BookInv'
<1>1. PICK r \in Request : r = request[h] /\ Placing(r)
  BY BookHolding
<1>2. CASE r.op = "add"
  <2>1. PICK q \in AfterNumber(r) : Becomes(h, q)
    BY <1>1, <1>2 DEF Refused
  <2>2. \/ q = Idle
        \/ /\ q.op = "add" /\ q.at \in {"readOwner", "selectCustomer"}
           /\ q.who = r.who /\ q.cus.primaries = r.cus.primaries
    BY <1>2, AfterNumberHolds
  <2>3. q = Idle \/ Placing(q)
    BY <1>1, <1>2, <2>2 DEF Placing, Saving
  <2> QED
    BY <2>1, <2>3, BookQuiet
<1>3. CASE r.op # "add"
  BY <1>1, <1>3, BookQuiet DEF Refused
<1> QED
  BY <1>2, <1>3

LEMMA LookupBook ==
  ASSUME IInv, TurnInv, BookInv, NEW h \in Requests,
         ReadOwner(h) \/ ReadMember(h) \/ ApnDiffers(h)
  PROVE  BookInv'
<1>1. UNCHANGED rows
  BY DEF ReadOwner, ReadMember, ApnDiffers
<1>2. request[h].at \in {"readOwner", "readMember", "verify"}
  BY DEF ReadOwner, ReadMember, ApnDiffers
<1>3. PICK r \in Request : r = request[h] /\ Placing(r)
  BY <1>2, BookHolding
<1>4. \/ Refused(h)
      \/ \E at \in {"readMember", "verify"} :
           /\ Becomes(h, [r EXCEPT !.at = at])
           /\ ~PrimaryElsewhere(r.number)
           /\ at = "verify" => ~Secondary(r.number)
  BY <1>3 DEF ReadOwner, ReadMember, ApnDiffers, Placing
<1>5. CASE \E at \in {"readMember", "verify"} :
             /\ Becomes(h, [r EXCEPT !.at = at])
             /\ ~PrimaryElsewhere(r.number)
             /\ at = "verify" => ~Secondary(r.number)
  <2>1. PICK at \in {"readMember", "verify"} :
          /\ Becomes(h, [r EXCEPT !.at = at])
          /\ ~PrimaryElsewhere(r.number)
          /\ at = "verify" => ~Secondary(r.number)
    BY <1>5
  <2>2. PICK q : q = [r EXCEPT !.at = at]
    OBVIOUS
  <2>3. /\ q.at = at /\ q.number = r.number /\ q.who = r.who
        /\ q.cus = r.cus /\ q.op = r.op
    BY <2>2 DEF Request
  <2>4. Placing(q)
    BY <1>2, <1>3, <2>1, <2>3 DEF Placing, Saving
  <2> QED
    BY <1>1, <2>1, <2>2, <2>4, BookQuiet
<1> QED
  BY <1>1, <1>2, <1>4, <1>5, RefusedBook

LEMMA ApnMatchesBook ==
  ASSUME IInv, TurnInv, BookInv, NEW h \in Requests, ApnMatches(h)
  PROVE  BookInv'
<1>1. PICK r \in Request :
        /\ r = request[h] /\ Informed(r) /\ Placing(r)
        /\ r.cus \in CustomerRow
  BY BookHolding DEF ApnMatches
<1>2. r.at = "verify" /\ UNCHANGED rows
  BY <1>1 DEF ApnMatches
<1>3. r.op \in {"addPrimary", "add"}
  BY <1>1, <1>2, WhoVerifies DEF Placing, Saving
<1>4. CASE r.op = "add"
  <2>1. PICK mem : mem = NewMember(r)
    OBVIOUS
  <2>2. PICK q : q = [r EXCEPT !.at = "selectMember", !.mem = mem]
    OBVIOUS
  <2>3. /\ q.at = "selectMember" /\ q.number = r.number /\ q.who = r.who
        /\ q.cus = r.cus /\ q.op = r.op
    BY <2>2 DEF Request
  <2>4. Becomes(h, q)
    BY <1>1, <1>4, <2>1, <2>2 DEF ApnMatches
  <2>5. Placing(q)
    BY <1>1, <1>2, <1>4, <2>3 DEF Placing, Saving
  <2> QED
    BY <1>2, <2>4, <2>5, BookQuiet
<1>5. CASE r.op = "addPrimary"
  <2>1. PICK cus : cus = [r.cus EXCEPT !.primaries = @ \union {r.number}]
    OBVIOUS
  <2>2. cus.primaries = r.cus.primaries \union {r.number}
    BY <1>1, <2>1 DEF CustomerRow
  <2>3. PICK q : q = [r EXCEPT !.at = "selectCustomer", !.cus = cus]
    OBVIOUS
  <2>4. /\ q.at = "selectCustomer" /\ q.number = r.number /\ q.who = r.who
        /\ q.cus = cus /\ q.op = r.op
    BY <2>3 DEF Request
  <2>5. Becomes(h, q)
    BY <1>1, <1>5, <2>1, <2>3 DEF ApnMatches, Request
  <2>6. Placing(q)
    BY <1>1, <1>2, <1>5, <2>2, <2>4 DEF Placing, Saving
  <2> QED
    BY <1>2, <2>5, <2>6, BookQuiet
<1> QED
  BY <1>3, <1>4, <1>5

LEMMA ReverifyBook ==
  ASSUME IInv, TurnInv, BookInv, NEW h \in Requests,
         ReverifyPrimary(h) \/ ReverifyRefused(h)
  PROVE  BookInv'
<1>1. /\ request[h].at = "reverify" /\ UNCHANGED rows
  BY DEF ReverifyPrimary, ReverifyRefused
<1>2. PICK r \in Request : r = request[h] /\ Informed(r) /\ Placing(r)
  BY <1>1, BookHolding
<1>3. r.op = "update"
  BY <1>1, <1>2, WhoVerifies
<1>4. CASE Becomes(h, Idle)
  BY <1>1, <1>4, BookQuiet
<1>5. CASE \E n \in r.todo, at \in {"reverify", "selectCustomer"} :
             Becomes(h, [r EXCEPT !.todo = @ \ {n}, !.at = at])
  <2>1. PICK n \in r.todo, at \in {"reverify", "selectCustomer"} :
          Becomes(h, [r EXCEPT !.todo = @ \ {n}, !.at = at])
    BY <1>5
  <2>2. PICK q : q = [r EXCEPT !.todo = @ \ {n}, !.at = at]
    OBVIOUS
  <2>3. /\ q.at = at /\ q.number = r.number /\ q.who = r.who
        /\ q.cus = r.cus /\ q.op = r.op
    BY <2>2 DEF Request
  <2>4. Placing(q)
    BY <1>1, <1>2, <1>3, <2>3 DEF Placing
  <2> QED
    BY <1>1, <2>1, <2>2, <2>4, BookQuiet
<1> QED
  BY <1>1, <1>2, <1>4, <1>5 DEF ReverifyPrimary, ReverifyRefused

LEMMA RemovalBook ==
  ASSUME IInv, TurnInv, BookInv, NEW h \in Requests,
         ReadRow(h) \/ Unlinked(h)
  PROVE  BookInv'
<1>1. request[h].at \in {"readRow", "unlink"} /\ UNCHANGED rows
  BY DEF ReadRow, Unlinked
<1>2. PICK r \in Request : r = request[h] /\ Informed(r) /\ Placing(r)
  BY <1>1, BookHolding
<1>3. r.op = "remove"
  BY <1>1, <1>2, WhoVerifies
<1>4. CASE Becomes(h, Idle)
  BY <1>1, <1>4, BookQuiet
<1>5. ASSUME NEW at \in {"unlink", "selectMember"}, NEW mem,
             Becomes(h, [r EXCEPT !.at = at, !.mem = mem])
      PROVE  BookInv'
  <2>1. PICK q : q = [r EXCEPT !.at = at, !.mem = mem]
    OBVIOUS
  <2>2. /\ q.at = at /\ q.number = r.number /\ q.who = r.who
        /\ q.cus = r.cus /\ q.op = r.op
    BY <2>1 DEF Request
  <2>3. Placing(q)
    BY <1>1, <1>2, <1>3, <2>2 DEF Placing, Saving
  <2> QED
    BY <1>1, <1>5, <2>1, <2>3, BookQuiet
<1>6. CASE ReadRow(h)
  <2>1. \/ Becomes(h, Idle)
        \/ Becomes(h, [r EXCEPT !.at = "unlink", !.mem = member[r.number]])
    BY <1>2, <1>6 DEF ReadRow
  <2>2. PICK mem : mem = member[r.number]
    OBVIOUS
  <2> QED
    BY <1>4, <1>5, <2>1, <2>2
<1>7. CASE Unlinked(h)
  <2>1. PICK mem : mem = [r.mem EXCEPT !.status = "removed"]
    OBVIOUS
  <2>2. Becomes(h, [r EXCEPT !.at = "selectMember", !.mem = mem])
    BY <1>2, <1>7, <2>1 DEF Unlinked, Request
  <2> QED
    BY <1>5, <2>2
<1> QED
  BY <1>6, <1>7

LEMMA SelectBook ==
  ASSUME IInv, TurnInv, BookInv, NEW h \in Requests,
         SelectMember(h) \/ SelectCustomer(h)
  PROVE  BookInv'
<1>1. /\ request[h].at \in {"selectMember", "selectCustomer"}
      /\ UNCHANGED rows
  BY DEF SelectMember, SelectCustomer
<1>2. PICK r \in Request : r = request[h] /\ Informed(r) /\ Placing(r)
  BY <1>1, BookHolding
<1>3. ASSUME NEW at \in {"writeMember", "writeCustomer"}, NEW dirty,
             Becomes(h, [r EXCEPT !.at = at, !.dirty = dirty]),
             at = "writeMember" <=> r.at = "selectMember"
      PROVE  BookInv'
  <2>1. PICK q : q = [r EXCEPT !.at = at, !.dirty = dirty]
    OBVIOUS
  <2>2. /\ q.at = at /\ q.number = r.number /\ q.who = r.who
        /\ q.cus = r.cus /\ q.op = r.op
    BY <2>1 DEF Request
  <2>3. Placing(q)
    BY <1>1, <1>2, <1>3, <2>2 DEF Placing, Saving
  <2> QED
    BY <1>1, <1>3, <2>1, <2>3, BookQuiet
<1>4. CASE SelectMember(h)
  <2>1. PICK dirty : dirty = Differing(member[r.number], r.mem)
    OBVIOUS
  <2>2. /\ r.at = "selectMember"
        /\ Becomes(h, [r EXCEPT !.at = "writeMember", !.dirty = dirty])
    BY <1>2, <1>4, <2>1 DEF SelectMember
  <2> QED
    BY <1>3, <2>2
<1>5. CASE SelectCustomer(h)
  <2>1. PICK dirty : dirty = Differing(customer[r.who], r.cus)
                      \ (IF r.op = "register" THEN {"count"} ELSE {})
    OBVIOUS
  <2>2. /\ r.at = "selectCustomer"
        /\ Becomes(h, [r EXCEPT !.at = "writeCustomer", !.dirty = dirty])
    BY <1>2, <1>5, <2>1 DEF SelectCustomer
  <2> QED
    BY <1>3, <2>2
<1> QED
  BY <1>4, <1>5

LEMMA ReadBalanceBook ==
  ASSUME IInv, TurnInv, BookInv, NEW h \in Requests, ReadBalance(h)
  PROVE  BookInv'
<1>1. request[h].at = "readBalance" /\ UNCHANGED rows
  BY DEF ReadBalance
<1>2. PICK r \in Request : r = request[h] /\ Informed(r) /\ Placing(r)
  BY <1>1, BookHolding
<1>3. r.op \in {"balance", "purchase"}
  BY <1>1, <1>2, WhoVerifies
<1>4. \/ \E at \in {"zeroBalance", "deliver"} :
           /\ Becomes(h, [r EXCEPT !.at = at])
           /\ at = "zeroBalance" => balance[r.number] = "none"
      \/ Becomes(h, Idle)
  BY <1>2 DEF ReadBalance, BalanceThere
<1>5. CASE Becomes(h, Idle)
  BY <1>1, <1>5, BookQuiet
<1>6. CASE \E at \in {"zeroBalance", "deliver"} :
           /\ Becomes(h, [r EXCEPT !.at = at])
           /\ at = "zeroBalance" => balance[r.number] = "none"
  <2>1. PICK at \in {"zeroBalance", "deliver"} :
           /\ Becomes(h, [r EXCEPT !.at = at])
           /\ at = "zeroBalance" => balance[r.number] = "none"
    BY <1>6
  <2>2. PICK q : q = [r EXCEPT !.at = at]
    OBVIOUS
  <2>3. /\ q.at = at /\ q.number = r.number /\ q.who = r.who
        /\ q.cus = r.cus /\ q.op = r.op
    BY <2>2 DEF Request
  <2>4. Placing(q)
    BY <1>1, <1>2, <1>3, <2>1, <2>3 DEF Placing, Saving
  <2> QED
    BY <1>1, <2>1, <2>2, <2>4, BookQuiet
<1> QED
  BY <1>4, <1>5, <1>6

LEMMA BalanceWriteBook ==
  ASSUME IInv, TurnInv, BookInv, NEW h \in Requests,
         CreateZeroBalance(h) \/ DeliverBundle(h)
  PROVE  /\ BookInv'
         /\ \A n \in Numbers :
              balance[n] = "bundle" => balance'[n] = "bundle"
<1>1. /\ request[h].at \in {"zeroBalance", "deliver"}
      /\ customer' = customer /\ member' = member
  BY DEF CreateZeroBalance, DeliverBundle
<1>2. PICK r \in Request :
        /\ r = request[h] /\ r # Idle /\ Sound(r) /\ Informed(r)
        /\ Placing(r) /\ r.who \in Customers
  BY <1>1, BookHolding
<1>3. r.number \in Numbers
  BY <1>1, <1>2 DEF Sound, AboutNumber
<1>4. /\ r.number \in customer[r.who].primaries
      /\ r.at = "zeroBalance" => balance[r.number] = "none"
  BY <1>1, <1>2 DEF Placing
<1>5. PICK left \in {"empty", "bundle"} :
        /\ balance' = [balance EXCEPT ![r.number] = left]
        /\ left = "empty" => r.at = "zeroBalance"
        /\ \/ Becomes(h, Idle)
           \/ /\ r.op = "purchase"
              /\ Becomes(h, [r EXCEPT !.at = "deliver"])
  BY <1>2 DEF CreateZeroBalance, DeliverBundle
<1>6. /\ balance'[r.number] = left
      /\ \A n \in Numbers \ {r.number} : balance'[n] = balance[n]
  BY <1>3, <1>5, RowsStay
<1>7. \A n \in Numbers : balance[n] = "bundle" => balance'[n] = "bundle"
  BY <1>4, <1>5, <1>6
<1>8. Placed'
  BY <1>1, <1>2, <1>4, <1>6
     DEF BookInv, Placed, PrimaryElsewhere, Secondary
<1>9. \E q : Becomes(h, q) /\ (q = Idle \/ Placing(q)')
  <2>1. CASE Becomes(h, Idle)
    BY <2>1
  <2>2. CASE /\ r.op = "purchase"
             /\ Becomes(h, [r EXCEPT !.at = "deliver"])
    <3>1. PICK q : q = [r EXCEPT !.at = "deliver"]
      OBVIOUS
    <3>2. /\ q.at = "deliver" /\ q.number = r.number /\ q.who = r.who
          /\ q.cus = r.cus /\ q.op = "purchase"
      BY <2>2, <3>1 DEF Request
    <3>3. Placing(q)'
      BY <1>1, <1>4, <3>2 DEF Placing, Saving
    <3> QED
      BY <2>2, <3>1, <3>3
  <2> QED
    BY <1>5, <2>1, <2>2
<1>10. PICK q : Becomes(h, q) /\ (q = Idle \/ Placing(q)')
  BY <1>9
<1>11. customer' \in [Customers -> CustomerRow]
  BY <1>1, RowsStay
<1>12. BookInv'
  BY <1>1, <1>2, <1>6, <1>8, <1>10, <1>11, BookStep
<1> QED
  BY <1>7, <1>12

\* The steps that change the place of a number.
Joins(n, c) ==
  /\ ~PrimaryElsewhere(n) /\ ~Secondary(n)
  /\ Secondary(n)' /\ member'[n].who = c
  /\ \A m \in Numbers \ {n} : member'[m] = member[m]

Leaves(n, c) ==
  /\ Secondary(n) /\ member[n].who = c /\ ~Secondary(n)'
  /\ \A m \in Numbers \ {n} : member'[m] = member[m]

Claims(n, c) ==
  /\ ~PrimaryElsewhere(n) /\ ~Secondary(n)
  /\ customer'[c].primaries = customer[c].primaries \union {n}
  /\ \A d \in Customers \ {c} : customer'[d] = customer[d]

LEMMA WriteMemberBook ==
  ASSUME IInv, TurnInv, BookInv, NEW h \in Requests, WriteMember(h)
  PROVE  /\ BookInv' /\ customer' = customer /\ balance' = balance
         /\ \/ member' = member
            \/ \E n \in Numbers, c \in Customers : Joins(n, c) \/ Leaves(n, c)
<1>1. PICK r \in Request :
        /\ r = request[h] /\ r # Idle /\ Sound(r) /\ Informed(r)
        /\ Placing(r) /\ r.who \in Customers
  BY BookHolding DEF WriteMember
<1>2. /\ r.at = "writeMember" /\ r.op \in {"add", "remove"}
      /\ customer' = customer /\ balance' = balance
  BY <1>1, WhoVerifies DEF WriteMember
<1>3. CASE DuplicateKey(member[r.number], r.dirty)
  <2>1. member' = member /\ Becomes(h, Idle)
    BY <1>1, <1>3 DEF WriteMember, Raise
  <2> QED
    BY <1>2, <2>1, BookQuiet DEF rows
<1>4. CASE ~DuplicateKey(member[r.number], r.dirty)
  <2>1. PICK saved : saved = [r EXCEPT !.dirty = {}, !.mem = NoMember]
    OBVIOUS
  <2>2. saved \in Request
    BY <2>1, BlankRows DEF Request
  <2>3. /\ saved.number = r.number /\ saved.who = r.who
        /\ saved.cus = r.cus /\ saved.op = r.op
    BY <2>1 DEF Request
  <2>4. /\ member' = [member EXCEPT ![r.number] = Merged(@, r.mem, r.dirty)]
        /\ \/ /\ r.op = "add"
              /\ \E q \in AfterNumber([saved EXCEPT
                                 !.added = @ \union {r.number}]) :
                   Becomes(h, q)
           \/ /\ r.op = "remove"
              /\ Becomes(h, [saved EXCEPT !.at = "selectCustomer",
                                          !.cus.count = Fewer(@)])
    BY <1>1, <1>4, <2>1 DEF WriteMember
  <2>5. /\ \A n \in Numbers \ {r.number} : member'[n] = member[n]
        /\ r.op = "add" =>
             /\ r.number \notin Members(r.who)
             /\ Members(r.who)' = Members(r.who) \union {r.number}
        /\ r.op = "remove" =>
             /\ r.number \in Members(r.who)
             /\ Members(r.who)' = Members(r.who) \ {r.number}
    BY <1>1, <1>2, <2>4, MemberWrittenTurn
  <2>6. r.number \in Numbers
    BY <1>1, <1>2 DEF Sound, AboutNumber
  <2>7. r.op = "add" =>
          /\ ~PrimaryElsewhere(r.number) /\ ~Secondary(r.number)
          /\ Secondary(r.number)' /\ member'[r.number].who = r.who
    BY <1>1, <1>2, <2>5, <2>6 DEF Informed, Handling, Placing, Members
  <2>8. r.op = "remove" =>
          /\ Secondary(r.number) /\ member[r.number].who = r.who
          /\ ~PrimaryElsewhere(r.number)
    BY <1>1, <1>2, <2>5, <2>6 DEF BookInv, Placed, Members
  <2>9. r.op = "remove" => ~Secondary(r.number)'
    <3>1. r.op = "remove" => r.mem.status = "removed"
      BY <1>1, <1>2 DEF Informed, Handling
    <3>2. r.dirty = Differing(member[r.number], r.mem)
      BY <1>1, <1>2 DEF Informed, Compared
    <3>3. PICK row \in MemberRow : row = member[r.number]
      BY <2>6, RowsStay
    <3>4. Merged(row, r.mem, Differing(row, r.mem)) = r.mem
      BY <1>1, MergedAllMember DEF Request
    <3>5. member'[r.number] = r.mem
      BY <2>4, <2>6, <3>2, <3>3, <3>4, RowsStay
    <3> QED
      BY <3>1, <3>5 DEF Secondary
  <2>10. Placed'
    <3>1. \A n : PrimaryElsewhere(n)' <=> PrimaryElsewhere(n)
      BY <1>2 DEF PrimaryElsewhere
    <3>2. \A n \in Numbers : Secondary(n)' =>
            ~PrimaryElsewhere(n) /\ member'[n].who \in Customers
      BY <1>1, <1>2, <2>5, <2>7, <2>9 DEF BookInv, Placed, Secondary
    <3> QED
      BY <1>2, <3>1, <3>2 DEF BookInv, Placed
  <2>11. r.cus.primaries = customer[r.who].primaries
    BY <1>1, <1>2 DEF Placing
  <2>12. \E q : Becomes(h, q) /\ (q = Idle \/ Placing(q)')
    <3>1. CASE r.op = "add"
      <4>1. PICK more : more = [saved EXCEPT !.added = @ \union {r.number}]
        OBVIOUS
      <4>2. more \in Request
        BY <2>2, <2>6, <4>1 DEF Request
      <4>3. more.who = r.who /\ more.cus = r.cus /\ more.op = "add"
        BY <2>2, <2>3, <3>1, <4>1 DEF Request
      <4>4. PICK q \in AfterNumber(more) : Becomes(h, q)
        BY <2>4, <3>1, <4>1
      <4>5. \/ q = Idle
            \/ /\ q.op = "add" /\ q.at \in {"readOwner", "selectCustomer"}
               /\ q.who = r.who /\ q.cus.primaries = r.cus.primaries
        BY <4>2, <4>3, AfterNumberHolds
      <4>6. q = Idle \/ Placing(q)'
        BY <1>2, <2>11, <4>5 DEF Placing, Saving
      <4> QED
        BY <4>4, <4>6
    <3>2. CASE r.op = "remove"
      <4>1. PICK k : k = Fewer(r.cus.count)
        OBVIOUS
      <4>2. PICK cus : cus = [r.cus EXCEPT !.count = k]
        OBVIOUS
      <4>3. cus.primaries = r.cus.primaries
        BY <4>2 DEF Request, CustomerRow
      <4>4. PICK q : q = [saved EXCEPT !.at = "selectCustomer", !.cus = cus]
        OBVIOUS
      <4>5. /\ q.at = "selectCustomer" /\ q.who = r.who /\ q.cus = cus
            /\ q.op = "remove" /\ q.number = r.number
        BY <2>2, <2>3, <3>2, <4>4 DEF Request
      <4>6. Becomes(h, q)
        BY <2>2, <2>3, <2>4, <3>2, <4>1, <4>2, <4>4 DEF Request
      <4>7. Placing(q)'
        BY <1>2, <2>8, <2>11, <3>2, <4>3, <4>5
           DEF Placing, Saving, PrimaryElsewhere
      <4> QED
        BY <4>6, <4>7
    <3> QED
      BY <1>2, <3>1, <3>2
  <2>13. PICK q : Becomes(h, q) /\ (q = Idle \/ Placing(q)')
    BY <2>12
  <2>14. customer' \in [Customers -> CustomerRow]
    BY <1>2, RowsStay
  <2>15. BookInv'
    BY <1>1, <1>2, <2>5, <2>10, <2>13, <2>14, BookStep
  <2>16. Joins(r.number, r.who) \/ Leaves(r.number, r.who)
    BY <1>2, <2>5, <2>7, <2>8, <2>9 DEF Joins, Leaves
  <2> QED
    BY <1>1, <1>2, <2>6, <2>15, <2>16
<1> QED
  BY <1>3, <1>4

LEMMA WriteCustomerBook ==
  ASSUME IInv, TurnInv, BookInv, NEW h \in Requests, WriteCustomer(h)
  PROVE  /\ BookInv' /\ member' = member /\ balance' = balance
         /\ \/ \A d \in Customers :
                 customer'[d].primaries = customer[d].primaries
            \/ \E n \in Numbers, c \in Customers : Claims(n, c)
<1>1. PICK r \in Request :
        /\ r = request[h] /\ r # Idle /\ Sound(r) /\ Informed(r)
        /\ Placing(r) /\ r.who \in Customers /\ r.cus \in CustomerRow
  BY BookHolding DEF WriteCustomer
<1>2. /\ r.at = "writeCustomer" /\ r.at \in Saving
      /\ member' = member /\ balance' = balance
      /\ verified' = verified /\ unlinked' = unlinked
  BY <1>1 DEF WriteCustomer, Saving
<1>3. r.op \in {"register", "addPrimary", "add", "remove", "update", "other"}
  BY <1>1, <1>2, WhoVerifies
<1>4. CASE DuplicateKey(customer[r.who], r.dirty)
  <2>1. customer' = customer /\ Becomes(h, Idle)
    BY <1>1, <1>4 DEF WriteCustomer, Raise
  <2> QED
    BY <1>2, <2>1, BookQuiet DEF rows
<1>5. CASE ~DuplicateKey(customer[r.who], r.dirty)
  <2>1. PICK saved : saved = [r EXCEPT !.dirty = {}]
    OBVIOUS
  <2>2. saved \in Request
    BY <2>1 DEF Request
  <2>3. /\ saved.number = r.number /\ saved.who = r.who
        /\ saved.cus = r.cus /\ saved.op = r.op
    BY <2>1 DEF Request
  <2>4. /\ customer' = [customer EXCEPT ![r.who] = Merged(@, r.cus, r.dirty)]
        /\ interrupted' = interrupted
        /\ \/ /\ r.op = "register" /\ r.number # None
              /\ Becomes(h, [saved EXCEPT !.at = "readOwner",
                   !.op = IF "known" \in r.dirty THEN "addPrimary" ELSE @])
           \/ /\ r.number \in r.cus.primaries
              /\ Becomes(h, [saved EXCEPT !.at = "zeroBalance"])
           \/ Becomes(h, Idle)
    BY <1>1, <1>5, <2>1 DEF WriteCustomer
  <2>5. /\ \A d \in Customers \ {r.who} : customer'[d] = customer[d]
        /\ customer'[r.who].primaries = r.cus.primaries
    BY <1>1, <1>2, <2>4, CustomerWrittenTurn
  <2>6. customer' \in [Customers -> CustomerRow]
    BY <1>1, <1>2, <1>5, <2>4, CustomerWritten
  <2>7. r.op = "register" =>
          /\ customer[r.who].primaries = {} /\ r.cus.primaries = {}
          /\ "known" \in r.dirty
    <3> SUFFICES ASSUME r.op = "register"
                 PROVE  /\ customer[r.who].primaries = {}
                        /\ r.cus.primaries = {} /\ "known" \in r.dirty
      OBVIOUS
    <3>1. ~customer[r.who].known /\ r.cus.primaries = {}
      BY <1>1 DEF Placing
    <3>2. customer[r.who].primaries = {}
      BY <1>1, <3>1 DEF IInv, RowsWhole, NoCustomer
    <3>3. r.cus.known
      BY <1>1, <1>2 DEF Sound
    <3>4. PICK row \in CustomerRow : row = customer[r.who]
      BY <1>1, RowsStay
    <3>5. "known" \in Differing(row, r.cus)
      BY <1>1, <3>1, <3>3, <3>4, DifferingCustomer
    <3>6. r.dirty = Differing(row, r.cus) \ {"count"}
      BY <1>1, <1>2, <3>4 DEF Informed, Compared
    <3> QED
      BY <3>1, <3>2, <3>5, <3>6
  <2>8. r.cus.primaries = customer[r.who].primaries \union
          (IF r.op = "addPrimary" THEN {r.number} ELSE {})
    BY <1>1, <1>2, <1>3, <2>7 DEF Placing, Saving
  <2>9. /\ r.op = "addPrimary" => r.number \in Numbers
        /\ r.op = "addPrimary" =>
             ~PrimaryElsewhere(r.number) /\ ~Secondary(r.number)
        /\ r.op = "remove" => ~PrimaryElsewhere(r.number)
    BY <1>1, <1>2 DEF Placing
  <2>10. \A d \in Customers :
           /\ customer[d].primaries \subseteq customer'[d].primaries
           /\ customer'[d].primaries \subseteq customer[d].primaries \union
                (IF r.op = "addPrimary" /\ d = r.who THEN {r.number} ELSE {})
    BY <2>5, <2>8
  <2>11. Placed'
    <3>1. \A c, d \in Customers : c # d =>
            customer'[c].primaries \cap customer'[d].primaries = {}
      <4> TAKE c, d \in Customers
      <4> HAVE c # d
      <4>1. customer[c].primaries \cap customer[d].primaries = {}
        BY DEF BookInv, Placed
      <4> QED
        BY <2>9, <2>10, <4>1 DEF PrimaryElsewhere
    <3>2. \A n \in Numbers : Secondary(n) =>
            ~PrimaryElsewhere(n)' /\ member[n].who \in Customers
      BY <2>9, <2>10 DEF BookInv, Placed, PrimaryElsewhere
    <3>3. \A n \in Numbers : balance[n] # "none" => PrimaryElsewhere(n)'
      BY <2>10 DEF BookInv, Placed, PrimaryElsewhere
    <3> QED
      BY <1>2, <3>1, <3>2, <3>3 DEF Placed, Secondary
  <2>12. \E q : Becomes(h, q) /\ (q = Idle \/ Placing(q)')
    <3>1. CASE /\ r.op = "register" /\ r.number # None
               /\ Becomes(h, [saved EXCEPT !.at = "readOwner",
                    !.op = IF "known" \in r.dirty THEN "addPrimary" ELSE @])
      <4>1. PICK q : q = [saved EXCEPT !.at = "readOwner",
                                       !.op = "addPrimary"]
        OBVIOUS
      <4>2. /\ q.at = "readOwner" /\ q.number = r.number /\ q.who = r.who
            /\ q.cus = r.cus /\ q.op = "addPrimary"
        BY <2>2, <2>3, <4>1 DEF Request
      <4>3. Becomes(h, q)
        BY <2>2, <2>7, <3>1, <4>1 DEF Request
      <4>4. Placing(q)'
        BY <2>5, <3>1, <4>2 DEF Placing, Saving, Request
      <4> QED
        BY <4>3, <4>4
    <3>2. CASE /\ r.number \in r.cus.primaries
               /\ Becomes(h, [saved EXCEPT !.at = "zeroBalance"])
      <4>1. r.number \in Numbers /\ r.number # None
        BY <1>1, <3>2, RegistryConstants DEF RegistryConstants, CustomerRow
      <4>2. r.op \in {"register", "addPrimary", "remove"}
        BY <1>1, <1>2, <1>3, <4>1 DEF Informed, Handling
      <4>3. r.op = "addPrimary"
        BY <1>1, <2>7, <2>8, <2>9, <3>2, <4>2 DEF PrimaryElsewhere
      <4>4. balance[r.number] = "none"
        BY <2>9, <4>1, <4>3 DEF BookInv, Placed
      <4>5. PICK q : q = [saved EXCEPT !.at = "zeroBalance"]
        OBVIOUS
      <4>6. /\ q.at = "zeroBalance" /\ q.number = r.number /\ q.who = r.who
            /\ q.cus = r.cus /\ q.op = "addPrimary"
        BY <2>2, <2>3, <4>3, <4>5 DEF Request
      <4>7. Placing(q)'
        BY <1>2, <2>5, <3>2, <4>1, <4>4, <4>6 DEF Placing, Saving
      <4> QED
        BY <3>2, <4>5, <4>7
    <3>3. CASE Becomes(h, Idle)
      BY <3>3
    <3> QED
      BY <2>4, <3>1, <3>2, <3>3
  <2>13. PICK q : Becomes(h, q) /\ (q = Idle \/ Placing(q)')
    BY <2>12
  <2>14. \A m : m # r.number =>
           (m \in customer'[r.who].primaries
              <=> m \in customer[r.who].primaries)
    BY <1>1, <2>10
  <2>15. BookInv'
    BY <1>1, <1>2, <2>5, <2>6, <2>11, <2>13, <2>14, BookStep
  <2>16. r.op = "addPrimary" => Claims(r.number, r.who)
    BY <2>5, <2>8, <2>9 DEF Claims
  <2>17. r.op # "addPrimary" => \A d \in Customers :
           customer'[d].primaries = customer[d].primaries
    BY <2>5, <2>8
  <2> QED
    BY <1>1, <1>2, <2>9, <2>15, <2>16, <2>17
<1> QED
  BY <1>4, <1>5

LEMMA InitBook == Init => BookInv
<1> SUFFICES ASSUME Init PROVE BookInv
  OBVIOUS
<1> USE RegistryConstants DEF RegistryConstants
<1>1. \A c \in Customers : customer[c].primaries = Owned[c]
  BY DEF Init, NoCustomer
<1>2. \A n \in Numbers : ~Secondary(n)
  BY DEF Init, Secondary, NoMember
<1>3. \A n \in Numbers : balance[n] # "none" => PrimaryElsewhere(n)
  BY <1>1 DEF Init, PrimaryElsewhere
<1>4. Placed
  BY <1>1, <1>2, <1>3 DEF Placed
<1> QED
  BY <1>4 DEF Init, BookInv

\* What a step of the registry does to the place of a number, and to bundles.
Moves ==
  \/ /\ member' = member
     /\ \A c \in Customers : customer'[c].primaries = customer[c].primaries
  \/ /\ member' = member
     /\ \E n \in Numbers, c \in Customers : Claims(n, c)
  \/ /\ customer' = customer
     /\ \E n \in Numbers, c \in Customers : Joins(n, c) \/ Leaves(n, c)

BundlesStay ==
  \A n \in Numbers : balance[n] = "bundle" => balance'[n] = "bundle"

LEMMA RowsUntouched ==
  ASSUME UNCHANGED rows
  PROVE  Moves /\ BundlesStay
  BY DEF rows, Moves, BundlesStay

LEMMA CallFailsBook ==
  ASSUME IInv, BookInv, NEW h \in Requests, CallFails(h)
  PROVE  BookInv'
  BY BookQuiet DEF CallFails, Raise

LEMMA ProceedBook ==
  ASSUME IInv, TurnInv, BookInv, NEW h \in Requests, Proceed(h)
  PROVE  BookInv' /\ Moves /\ BundlesStay
<1>1. CASE ReadOwner(h) \/ ReadMember(h) \/ ApnDiffers(h)
  <2>1. UNCHANGED rows
    BY <1>1 DEF ReadOwner, ReadMember, ApnDiffers
  <2> QED
    BY <1>1, <2>1, LookupBook, RowsUntouched
<1>2. CASE ApnMatches(h)
  <2>1. UNCHANGED rows
    BY <1>2 DEF ApnMatches
  <2> QED
    BY <1>2, <2>1, ApnMatchesBook, RowsUntouched
<1>3. CASE ReverifyPrimary(h) \/ ReverifyRefused(h)
  <2>1. UNCHANGED rows
    BY <1>3 DEF ReverifyPrimary, ReverifyRefused
  <2> QED
    BY <1>3, <2>1, ReverifyBook, RowsUntouched
<1>4. CASE ReadRow(h) \/ Unlinked(h)
  <2>1. UNCHANGED rows
    BY <1>4 DEF ReadRow, Unlinked
  <2> QED
    BY <1>4, <2>1, RemovalBook, RowsUntouched
<1>5. CASE CallFails(h)
  <2>1. UNCHANGED rows
    BY <1>5 DEF CallFails
  <2> QED
    BY <1>5, <2>1, CallFailsBook, RowsUntouched
<1>6. CASE SelectMember(h) \/ SelectCustomer(h)
  <2>1. UNCHANGED rows
    BY <1>6 DEF SelectMember, SelectCustomer
  <2> QED
    BY <1>6, <2>1, SelectBook, RowsUntouched
<1>7. CASE WriteMember(h)
  <2>1. /\ BookInv' /\ customer' = customer /\ balance' = balance
        /\ \/ member' = member
           \/ \E n \in Numbers, c \in Customers : Joins(n, c) \/ Leaves(n, c)
    BY <1>7, WriteMemberBook
  <2> QED
    BY <2>1 DEF Moves, BundlesStay
<1>8. CASE WriteCustomer(h)
  <2>1. /\ BookInv' /\ member' = member /\ balance' = balance
        /\ \/ \A d \in Customers :
                customer'[d].primaries = customer[d].primaries
           \/ \E n \in Numbers, c \in Customers : Claims(n, c)
    BY <1>8, WriteCustomerBook
  <2> QED
    BY <2>1 DEF Moves, BundlesStay
<1>9. CASE ReadBalance(h)
  <2>1. UNCHANGED rows
    BY <1>9 DEF ReadBalance
  <2> QED
    BY <1>9, <2>1, ReadBalanceBook, RowsUntouched
<1>10. CASE CreateZeroBalance(h) \/ DeliverBundle(h)
  <2>1. customer' = customer /\ member' = member
    BY <1>10 DEF CreateZeroBalance, DeliverBundle
  <2> QED
    BY <1>10, <2>1, BalanceWriteBook DEF Moves, BundlesStay
<1> QED
  BY <1>1, <1>2, <1>3, <1>4, <1>5, <1>6, <1>7, <1>8, <1>9, <1>10 DEF Proceed

LEMMA NextBook ==
  ASSUME IInv, TurnInv, BookInv, Turns, [MCNext]_<<vars, scenario>>
  PROVE  BookInv' /\ Moves /\ BundlesStay
<1>1. CASE UNCHANGED <<vars, scenario>>
  <2>1. UNCHANGED rows /\ request' = request
    BY <1>1 DEF vars
  <2>2. customer' = customer /\ member' = member /\ balance' = balance
    BY <2>1 DEF rows
  <2>3. Placed' /\ \A x : Placing(x) => Placing(x)'
    BY <2>2 DEF BookInv, Placed, Placing, PrimaryElsewhere, Secondary
  <2> QED
    BY <2>1, <2>3, RowsUntouched DEF BookInv
<1>2. CASE MCNext
  <2>1. faults' = 0 /\ faults + 1 # 0
    BY <1>2 DEF MCNext, Turns, IInv, TypeOK
  <2>2. ASSUME NEW h \in Requests, Arrive(h)
        PROVE  BookInv' /\ Moves /\ BundlesStay
    <3>1. Plays(h)
      BY <1>2, <2>2, ArriveBegan DEF MCNext
    <3>2. request'[h].op = "register" => ~customer[request'[h].who].known
      BY <3>1 DEF Plays, Turns
    <3>3. UNCHANGED rows
      BY <2>2 DEF Arrive, RegisterCustomer, AddPrimaryMsisdn,
         AddSecondaryNumbers, RemoveSecondaryNumber, UpdateCustomer,
         OtherChange, GetBalance, PurchaseDelivered
    <3> QED
      BY <2>2, <3>2, <3>3, ArriveBook, RowsUntouched
  <2>3. ASSUME NEW h \in Requests, RequestFails(h) PROVE FALSE
    BY <2>1, <2>3 DEF RequestFails
  <2>4. ~Crash
    BY <2>1 DEF Crash
  <2> QED
    BY <1>2, <2>2, <2>3, <2>4, ProceedBook DEF MCNext, Next
<1> QED
  BY <1>1, <1>2

\* In the scenario in which nothing but the APN provider and the PCRF fails
\* and no account is registered again.
BookInTurns == Turns => BookInv

\* Every number has one place, and what requests in flight took from the rows
\* still holds when they write.
THEOREM NumbersHaveOnePlace == MCSpec => [](IInv /\ InTurns /\ BookInTurns)
<1>1. MCInit => BookInTurns
  BY InitBook DEF MCInit, BookInTurns
<1>2. IInv /\ InTurns /\ BookInTurns /\ [MCNext]_<<vars, scenario>>
        => BookInTurns'
  <2> SUFFICES ASSUME IInv, InTurns, BookInTurns, [MCNext]_<<vars, scenario>>,
                      Turns'
               PROVE  BookInv'
    BY DEF BookInTurns
  <2>1. Turns
    BY DEF MCNext, Turns
  <2> QED
    BY <2>1, NextBook DEF InTurns, BookInTurns, Turns
<1> QED
  BY <1>1, <1>2, TurnsInvariant, PTL DEF MCSpec

\* createZeroBalance saves zeros over whatever row there is: while requests
\* about a number wait for one another and no account is registered again, it
\* finds no bundle there.
THEOREM BundlesAreKeptInTurns == MCSpec => BundleKeptInTurns
<1>1. IInv /\ InTurns /\ BookInTurns /\ [MCNext]_<<vars, scenario>>
        => [Turns => \A n \in Numbers :
              balance[n] = "bundle" => balance'[n] = "bundle"]_vars
  BY NextBook DEF InTurns, BookInTurns, Turns, BundlesStay
<1> QED
  BY <1>1, NumbersHaveOnePlace, PTL DEF MCSpec, BundleKeptInTurns

-----------------------------------------------------------------------------
(* NumberRegistry implements NumberBook                                    *)

Owners(n) == {c \in Customers : n \in customer[c].primaries}
Families(n) == {c \in Customers : Secondary(n) /\ member[n].who = c}

\* In turns, the book is what the rows say.
LEMMA BookIs ==
  ASSUME Turns, Turns'
  PROVE  /\ Book!book = <<[n \in Numbers |-> Owners(n)],
                          [n \in Numbers |-> Families(n)]>>
         /\ Book!book' = <<[n \in Numbers |-> Owners(n)'],
                           [n \in Numbers |-> Families(n)']>>
  BY DEF Book!book, Owners, Families

LEMMA ClaimsBook ==
  ASSUME BookInv, Turns, Turns', member' = member,
         NEW n \in Numbers, NEW c \in Customers, Claims(n, c)
  PROVE  Book!Next
<1>1. Owners(n) = {} /\ Families(n) = {}
  BY DEF Claims, PrimaryElsewhere, Owners, Families
<1>2. \A m \in Numbers : Owners(m)' = IF m = n THEN {c} ELSE Owners(m)
  <2> TAKE m \in Numbers
  <2>1. \A d \in Customers : m \in customer'[d].primaries <=>
          \/ m \in customer[d].primaries
          \/ d = c /\ m = n
    BY DEF Claims
  <2>2. CASE m = n
    BY <1>1, <2>1, <2>2 DEF Owners
  <2>3. CASE m # n
    BY <2>1, <2>3 DEF Owners
  <2> QED
    BY <2>2, <2>3
<1>3. \A m \in Numbers : Families(m)' = Families(m)
  BY DEF Families, Secondary
<1>4. [m \in Numbers |-> Owners(m)']
        = [[m \in Numbers |-> Owners(m)] EXCEPT ![n] = {c}]
  BY <1>2
<1>5. [m \in Numbers |-> Families(m)'] = [m \in Numbers |-> Families(m)]
  BY <1>3
<1>6. Book!Claim(n, c)
  BY <1>1, <1>4, <1>5 DEF Book!Claim, Book!Free, Owners, Families
<1> QED
  BY <1>6 DEF Book!Next

LEMMA FamilyBook ==
  ASSUME BookInv, Turns, Turns', customer' = customer,
         NEW n \in Numbers, NEW c \in Customers, Joins(n, c) \/ Leaves(n, c)
  PROVE  Book!Next
<1>1. \A m \in Numbers : Owners(m)' = Owners(m)
  BY DEF Owners
<1>2. \A m \in Numbers \ {n} : Families(m)' = Families(m)
  BY DEF Joins, Leaves, Families, Secondary
<1>3. [m \in Numbers |-> Owners(m)'] = [m \in Numbers |-> Owners(m)]
  BY <1>1
<1>4. CASE Joins(n, c)
  <2>1. Owners(n) = {} /\ Families(n) = {} /\ Families(n)' = {c}
    BY <1>4 DEF Joins, PrimaryElsewhere, Owners, Families
  <2>2. [m \in Numbers |-> Families(m)']
          = [[m \in Numbers |-> Families(m)] EXCEPT ![n] = {c}]
    BY <1>2, <2>1
  <2>3. Book!Join(n, c)
    BY <1>3, <2>1, <2>2 DEF Book!Join, Book!Free, Owners, Families
  <2> QED
    BY <2>3 DEF Book!Next
<1>5. CASE Leaves(n, c)
  <2>1. Families(n) = {c} /\ Families(n)' = {}
    BY <1>5 DEF Leaves, Families
  <2>2. [m \in Numbers |-> Families(m)']
          = [[m \in Numbers |-> Families(m)] EXCEPT ![n] = {}]
    BY <1>2, <2>1
  <2>3. Book!Leave(n, c)
    BY <1>3, <2>1, <2>2 DEF Book!Leave, Owners, Families
  <2> QED
    BY <2>3 DEF Book!Next
<1> QED
  BY <1>4, <1>5

\* While requests about one account or number wait for one another, each step
\* of addPrimaryMsisdn, addSecondaryNumbersBulk and removeSecondaryNumber is a
\* step of NumberBook, or changes nothing there.
THEOREM RegistryImplementsBook == MCSpec => ImplementsBook
<1>1. MCInit => Book!Init
  <2> SUFFICES ASSUME MCInit PROVE Book!Init
    OBVIOUS
  <2>1. \A c \in Customers : customer[c].primaries = Owned[c]
    BY DEF MCInit, Init, NoCustomer
  <2>2. \A n \in Numbers : ~Secondary(n)
    BY DEF MCInit, Init, Secondary, NoMember
  <2> QED
    BY <2>1, <2>2 DEF Book!Init
<1>2. IInv /\ InTurns /\ BookInTurns /\ [MCNext]_<<vars, scenario>>
        => [Book!Next]_(Book!book)
  <2> SUFFICES ASSUME IInv, InTurns, BookInTurns, [MCNext]_<<vars, scenario>>
               PROVE  [Book!Next]_(Book!book)
    OBVIOUS
  <2>1. scenario' = scenario
    BY DEF MCNext
  <2>2. CASE ~Turns
    BY <2>1, <2>2 DEF Turns, Book!book
  <2>3. CASE Turns
    <3>1. Turns' /\ BookInv /\ Moves
      BY <2>1, <2>3, NextBook DEF Turns, InTurns, BookInTurns
    <3>2. CASE /\ member' = member
               /\ \A c \in Customers :
                    customer'[c].primaries = customer[c].primaries
      <4>1. \A n \in Numbers :
              Owners(n)' = Owners(n) /\ Families(n)' = Families(n)
        BY <3>2 DEF Owners, Families, Secondary
      <4>2. Book!book' = Book!book
        BY <2>3, <3>1, <4>1, BookIs
      <4> QED
        BY <4>2
    <3> QED
      BY <2>3, <3>1, <3>2, ClaimsBook, FamilyBook DEF Moves
  <2> QED
    BY <2>2, <2>3
<1> QED
  BY <1>1, <1>2, NumbersHaveOnePlace, PTL
     DEF MCSpec, ImplementsBook, Book!Spec

=============================================================================
