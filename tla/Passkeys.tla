------------------------------ MODULE Passkeys ------------------------------
(***************************************************************************)
(* The passkeys of one user: WebauthnRegistrationService,                  *)
(* WebauthnAuthenticationService and WebauthnMfaProvider.                  *)
(*                                                                         *)
(* A passkey is a row of webauthn_credentials.  A row of user_auth_factors *)
(* says that the user has any; no index keeps it single.  The challenge of *)
(* a registration is in Redis under the user's key, that of a login under  *)
(* a key of its own, and a login with a second factor has a row of         *)
(* auth_challenges besides.  What authenticators and browsers send is made *)
(* here, too: signatures may be presented late, and more than once.        *)
(*                                                                         *)
(* A request stops at each `await` on the database or on Redis.  The save  *)
(* of a row takes two of them: TypeORM reads the row, and updates the      *)
(* columns in which the entity differs from it.                            *)
(***************************************************************************)
EXTENDS FiniteSets, Naturals

CONSTANTS
  Requests,     \* slots for requests in flight
  MayOverlap,   \* operations that run beside any other; the rest take turns
  Keys,         \* passkeys the user's authenticators may create
  Counting,     \* those whose authenticator counts its signatures
  MaxIssued,    \* bound: challenges issued
  MaxCount,     \* bound: signatures of an authenticator that counts
  MaxFaults     \* bound: failed calls

Operations == {"challenge", "register", "revoke", "login", "mfa"}

ASSUME PasskeyConstants ==
  /\ MayOverlap \subseteq Operations
  /\ Counting \subseteq Keys
  /\ IsFiniteSet(Requests)
  /\ {MaxIssued, MaxCount, MaxFaults} \subseteq Nat

Challenges == 1 .. MaxIssued
Factors == 1 .. Cardinality(Requests)

VARIABLES
  cred,         \* rows of the passkeys
  factor,       \* rows of the user's factor: "none", "on" or "off"
  pending,      \* challenge of the user's registration in Redis, 0 for none
  open,         \* challenges of logins in Redis
  row,          \* rows of second factors, named by the challenge they hold
  issued,       \* challenges issued so far
  device,       \* the registration each passkey was made for, its signatures
  signed,       \* assertions that browsers may present
  request,      \* requests in flight
  faults,       \* failed calls
  \* history, read by properties only
  registered,   \* registrations answered with success, per passkey
  accepted,     \* assertions answered with success, per passkey and challenge
  passed,       \* second factors answered with success
  revoked       \* passkeys whose revocation was answered

store == <<cred, factor, pending, open, row>>
browser == <<device, signed>>
history == <<registered, accepted, passed, revoked>>
vars == <<store, issued, browser, request, faults, history>>

\* A row of webauthn_credentials; counter is the last signature seen.
Credential ==
  [status : {"absent", "enabled", "revoked"}, counter : 0 .. MaxCount]

Assertion == [key : Keys, challenge : Challenges, count : 0 .. MaxCount]

Phase ==
  {"idle", "setOpen", "saveRow", "getPending", "findExisting", "insert",
   "findFactor", "insertFactor", "selectFactor", "updateFactor",
   "dropPending", "factors", "countKeys", "findRow", "getOpen", "findKey",
   "select", "update", "dropOpen", "useRow", "count"}

Request ==
  [op : Operations \union {"none"},
   phase : Phase,
   key : Keys \union {"none"},
   challenge : 0 .. MaxIssued,   \* the one that was signed, or is issued
   count : 0 .. MaxCount,        \* the number of the signature
   mfa : 0 .. MaxIssued,         \* the row of the second factor
   entity : Credential,          \* its copy of the passkey's row
   columns : SUBSET {"status", "counter"},   \* what its save will write
   factor : 0 .. Cardinality(Requests),      \* the row it found, 0 for none
   flips : BOOLEAN]              \* its save will change that row

Absent == [status |-> "absent", counter |-> 0]

Idle ==
  [op |-> "none", phase |-> "idle", key |-> "none", challenge |-> 0,
   count |-> 0, mfa |-> 0, entity |-> Absent, columns |-> {}, factor |-> 0,
   flips |-> FALSE]

(***************************************************************************)
(* One type invariant for the whole state.                                 *)
(***************************************************************************)
TypeOK ==
  /\ cred \in [Keys -> Credential]
  /\ factor \in [Factors -> {"none", "on", "off"}]
  /\ pending \in 0 .. MaxIssued
  /\ open \subseteq Challenges
  /\ row \in [Challenges -> {"none", "open", "expired", "used"}]
  /\ issued \in 0 .. MaxIssued
  /\ device \in [Keys -> [challenge : 0 .. MaxIssued, count : 0 .. MaxCount]]
  /\ signed \subseteq Assertion
  /\ request \in [Requests -> Request]
  /\ faults \in 0 .. MaxFaults
  /\ registered \in [Keys -> Nat]
  /\ accepted \in [Keys \X Challenges -> Nat]
  /\ passed \in [Challenges -> Nat]
  /\ revoked \subseteq Keys

\* The user may have passkeys, registered one after the other.
Init ==
  /\ cred \in [Keys -> {Absent, [Absent EXCEPT !.status = "enabled"]}]
  /\ factor = [f \in Factors |->
       IF f = 1 /\ \E k \in Keys : cred[k].status = "enabled"
       THEN "on" ELSE "none"]
  /\ pending = 0
  /\ open = {}
  /\ row = [c \in Challenges |-> "none"]
  /\ issued = 0
  /\ device = [k \in Keys |-> [challenge |-> 0, count |-> 0]]
  /\ signed = {}
  /\ request = [h \in Requests |-> Idle]
  /\ faults = 0
  /\ registered = [k \in Keys |-> 0]
  /\ accepted = [e \in Keys \X Challenges |-> 0]
  /\ passed = [c \in Challenges |-> 0]
  /\ revoked = {}

-----------------------------------------------------------------------------
(* Vocabulary of the actions                                               *)

Becomes(h, r) == request' = [request EXCEPT ![h] = r]

Goes(h, phase) == Becomes(h, [request[h] EXCEPT !.phase = phase])

Ends(h) == Becomes(h, Idle)

At(h, phase) == request[h].phase = phase

\* The operations outside MayOverlap wait for one another.
Admitted(h, op) ==
  /\ request[h] = Idle
  /\ \/ op \in MayOverlap
     \/ \A g \in Requests : request[g].op \in MayOverlap \union {"none"}

Enabled == {k \in Keys : cred[k].status = "enabled"}

\* An operation about passkey k begins at a phase.
Begins(h, op, phase, k) ==
  /\ Admitted(h, op)
  /\ Becomes(h, [Idle EXCEPT !.op = op, !.phase = phase, !.key = k])
  /\ UNCHANGED <<store, issued, browser, faults, history>>

\* A step that reads, and decides where the request goes on, or that it ends.
Reads(h, found, phase) ==
  /\ \/ found /\ Goes(h, phase)
     \/ ~found /\ Ends(h)
  /\ UNCHANGED <<store, issued, browser, faults, history>>

-----------------------------------------------------------------------------
(* Challenges                                                              *)

\* beginRegistration: a newer challenge replaces the one in Redis.
BeginRegistration ==
  /\ issued < MaxIssued
  /\ issued' = issued + 1
  /\ pending' = issued + 1
  /\ UNCHANGED <<cred, factor, open, row, browser, request, faults, history>>

\* beginAuthentication, for a login without a password.
BeginAuthentication ==
  /\ issued < MaxIssued
  /\ issued' = issued + 1
  /\ open' = open \union {issued + 1}
  /\ UNCHANGED <<cred, factor, pending, row, browser, request, faults,
                 history>>

\* createChallenge finds an enabled passkey, and calls beginAuthentication.
CreateChallenge(h) ==
  /\ Admitted(h, "challenge")
  /\ Enabled # {}
  /\ issued < MaxIssued
  /\ issued' = issued + 1
  /\ Becomes(h, [Idle EXCEPT !.op = "challenge", !.phase = "setOpen",
                             !.challenge = issued + 1])
  /\ UNCHANGED <<store, browser, faults, history>>

SetOpen(h) ==
  /\ At(h, "setOpen")
  /\ open' = open \union {request[h].challenge}
  /\ Goes(h, "saveRow")
  /\ UNCHANGED <<cred, factor, pending, row, issued, browser, faults, history>>

SaveRow(h) ==
  /\ At(h, "saveRow")
  /\ row' = [row EXCEPT ![request[h].challenge] = "open"]
  /\ Ends(h)
  /\ UNCHANGED <<cred, factor, pending, open, issued, browser, faults, history>>

\* Ten minutes for a registration, five for a login and for a second factor.
ChallengeExpires ==
  /\ \/ /\ pending # 0
        /\ pending' = 0
        /\ UNCHANGED <<open, row>>
     \/ \E c \in open : open' = open \ {c} /\ UNCHANGED <<pending, row>>
     \/ \E c \in Challenges :
          /\ row[c] = "open"
          /\ row' = [row EXCEPT ![c] = "expired"]
          /\ UNCHANGED <<pending, open>>
  /\ UNCHANGED <<cred, factor, issued, browser, request, faults, history>>

-----------------------------------------------------------------------------
(* Authenticators                                                          *)

\* An authenticator creates a passkey for the registration that is pending.
Attest(k) ==
  /\ pending # 0
  /\ device[k].challenge = 0
  /\ cred[k] = Absent
  /\ device' = [device EXCEPT ![k].challenge = pending]
  /\ UNCHANGED <<store, issued, signed, request, faults, history>>

\* It signs the challenge of a login.
Sign(k, c) ==
  LET n == IF k \in Counting THEN device[k].count + 1 ELSE 0
      a == [key |-> k, challenge |-> c, count |-> n]
  IN
  /\ c \in open
  /\ cred[k] # Absent
  /\ n <= MaxCount
  /\ a \notin signed
  /\ signed' = signed \union {a}
  /\ device' = [device EXCEPT ![k].count = n]
  /\ UNCHANGED <<store, issued, request, faults, history>>

-----------------------------------------------------------------------------
(* finishRegistration                                                      *)

FinishRegistration(h, k) ==
  /\ device[k].challenge # 0
  /\ Begins(h, "register", "getPending", k)

GetPending(h) ==
  /\ At(h, "getPending")
  /\ Reads(h, pending = device[request[h].key].challenge, "findExisting")

\* 'Credential is already registered', also when it is revoked.
FindExisting(h) ==
  /\ At(h, "findExisting")
  /\ Reads(h, cred[request[h].key] = Absent, "insert")

\* Faulty variant of Insert: the row that is there is written.
InsertOrUpdate(h) ==
  /\ At(h, "insert")
  /\ cred' = [cred EXCEPT ![request[h].key].status = "enabled"]
  /\ Goes(h, "findFactor")
  /\ UNCHANGED <<factor, pending, open, row, issued, browser, faults, history>>

\* The unique index on credentialId refuses a second row.
Insert(h) ==
  LET k == request[h].key IN
  /\ At(h, "insert")
  /\ \/ /\ cred[k] = Absent
        /\ cred' = [cred EXCEPT ![k].status = "enabled"]
        /\ Goes(h, "findFactor")
     \/ cred[k] # Absent /\ Ends(h) /\ UNCHANGED cred
  /\ UNCHANGED <<factor, pending, open, row, issued, browser, faults, history>>

\* enableWebauthnFactor finds no factor, and inserts one.
InsertFactor(h) ==
  /\ At(h, "insertFactor")
  /\ \E f \in Factors :
       /\ factor[f] = "none"
       /\ \A g \in 1 .. f - 1 : factor[g] # "none"
       /\ factor' = [factor EXCEPT ![f] = "on"]
  /\ Goes(h, "dropPending")
  /\ UNCHANGED <<cred, pending, open, row, issued, browser, faults, history>>

\* The challenge is deleted, whichever it is by now.
DropPending(h) ==
  /\ At(h, "dropPending")
  /\ pending' = 0
  /\ registered' = [registered EXCEPT ![request[h].key] = @ + 1]
  /\ Ends(h)
  /\ UNCHANGED <<cred, factor, open, row, issued, browser, faults, accepted,
                 passed, revoked>>

-----------------------------------------------------------------------------
(* The factor                                                              *)

\* findOne names no order: any row may be found.
FindFactor(h) ==
  LET r == request[h]
      there == {f \in Factors : factor[f] # "none"}
  IN
  /\ At(h, "findFactor")
  /\ \/ \E f \in there :
          Becomes(h, [r EXCEPT !.phase = "selectFactor", !.factor = f])
     \/ there = {} /\ r.op = "register" /\ Goes(h, "insertFactor")
     \/ there = {} /\ r.op = "revoke" /\ Ends(h)
  /\ revoked' = IF there = {} /\ r.op = "revoke" THEN revoked \union {r.key}
                ELSE revoked
  /\ UNCHANGED <<store, issued, browser, faults, registered, accepted, passed>>

\* A registration switches the factor on, a revocation off.
Wanted(r) == IF r.op = "register" THEN "on" ELSE "off"

SelectFactor(h) ==
  LET r == request[h] IN
  /\ At(h, "selectFactor")
  /\ Becomes(h, [r EXCEPT !.phase = "updateFactor",
                          !.flips = factor[r.factor] # Wanted(r)])
  /\ UNCHANGED <<store, issued, browser, faults, history>>

UpdateFactor(h) ==
  LET r == request[h] IN
  /\ At(h, "updateFactor")
  /\ factor' = IF r.flips THEN [factor EXCEPT ![r.factor] = Wanted(r)]
               ELSE factor
  /\ \/ /\ r.op = "register"
        /\ Becomes(h, [r EXCEPT !.phase = "dropPending", !.factor = 0,
                                !.flips = FALSE])
        /\ UNCHANGED revoked
     \/ /\ r.op = "revoke"
        /\ Ends(h)
        /\ revoked' = revoked \union {r.key}
  /\ UNCHANGED <<cred, pending, open, row, issued, browser, faults, registered,
                 accepted, passed>>

-----------------------------------------------------------------------------
(* revokeCredential                                                        *)

\* Its findOne.
RevokeCredential(h, k) ==
  /\ Admitted(h, "revoke")
  /\ cred[k] # Absent
  /\ Becomes(h, [Idle EXCEPT !.op = "revoke", !.phase = "select", !.key = k,
       !.entity = [cred[k] EXCEPT !.status = "revoked"]])
  /\ UNCHANGED <<store, issued, browser, faults, history>>

\* Faulty variant of NoneLeft: revoked passkeys are counted.
NoRowLeft == \A k \in Keys : cred[k] = Absent

NoneLeft == Enabled = {}

\* The factor is switched off with the last passkey.
CountEnabled(h) ==
  /\ At(h, "count")
  /\ \/ NoneLeft /\ Goes(h, "findFactor") /\ UNCHANGED revoked
     \/ /\ ~NoneLeft
        /\ Ends(h)
        /\ revoked' = revoked \union {request[h].key}
  /\ UNCHANGED <<store, issued, browser, faults, registered, accepted, passed>>

-----------------------------------------------------------------------------
(* finishAuthentication                                                    *)

\* loginWithWebauthn.
Login(h, a) ==
  /\ Admitted(h, "login")
  /\ Becomes(h, [Idle EXCEPT !.op = "login", !.phase = "getOpen",
       !.key = a.key, !.challenge = a.challenge, !.count = a.count])
  /\ UNCHANGED <<store, issued, browser, faults, history>>

\* completeMfaLogin with the row m of a second factor.
CompleteMfa(h, a, m) ==
  /\ Admitted(h, "mfa")
  /\ row[m] # "none"
  /\ Becomes(h, [Idle EXCEPT !.op = "mfa", !.phase = "factors", !.mfa = m,
       !.key = a.key, !.challenge = a.challenge, !.count = a.count])
  /\ UNCHANGED <<store, issued, browser, faults, history>>

\* isMethodEnabled: a factor that is on,
FindOn(h) ==
  LET on == \E f \in Factors : factor[f] = "on" IN
  /\ At(h, "factors")
  /\ Reads(h, TRUE, IF on THEN "findRow" ELSE "countKeys")

\* or an enabled passkey.
CountKeys(h) == At(h, "countKeys") /\ Reads(h, Enabled # {}, "findRow")

FindRow(h) == At(h, "findRow") /\ Reads(h, row[request[h].mfa] = "open", "getOpen")

GetOpen(h) ==
  At(h, "getOpen") /\ Reads(h, request[h].challenge \in open, "findKey")

\* Faulty variant of Fresh: the stored counter is not compared.
FreshOrNot(seen, n) == TRUE

\* verifyAuthenticationResponse refuses a counter that does not grow, unless
\* the authenticator never counted.
Fresh(seen, n) == n > seen \/ {n, seen} = {0}

\* Faulty variant of Usable: revoked passkeys are found, too.
UsableRow(k) == cred[k].status # "absent"

Usable(k) == cred[k].status = "enabled"

FindKey(h) ==
  LET r == request[h]
      c == cred[r.key]
  IN
  /\ At(h, "findKey")
  /\ \/ /\ Usable(r.key)
        /\ Fresh(c.counter, r.count)
        /\ Becomes(h, [r EXCEPT !.phase = "select",
                                !.entity = [c EXCEPT !.counter = r.count]])
     \/ /\ Usable(r.key) => ~Fresh(c.counter, r.count)
        /\ Ends(h)
  /\ UNCHANGED <<store, issued, browser, faults, history>>

\* save(credential), of a login and of a revocation.  PostgreSQL's bigint is
\* read as a string, so the number a login sets differs in any case.
Select(h) ==
  LET r == request[h] IN
  /\ At(h, "select")
  /\ Becomes(h, [r EXCEPT !.phase = "update", !.columns =
       {c \in {"status", "counter"} :
          r.entity[c] # cred[r.key][c] \/ (c = "counter" /\ r.op # "revoke")}])
  /\ UNCHANGED <<store, issued, browser, faults, history>>

\* The columns come from the entity, which may be older than the row.
Written(r, c) ==
  [status |-> IF "status" \in r.columns THEN r.entity.status ELSE c.status,
   counter |-> IF "counter" \in r.columns THEN r.entity.counter ELSE c.counter]

Update(h) ==
  LET r == request[h] IN
  /\ At(h, "update")
  /\ cred' = [cred EXCEPT ![r.key] = Written(r, @)]
  /\ Becomes(h, [r EXCEPT !.phase = IF r.op = "revoke" THEN "count"
                                    ELSE "dropOpen",
                          !.entity = Absent, !.columns = {}])
  /\ UNCHANGED <<factor, pending, open, row, issued, browser, faults, history>>

\* A login has succeeded; its session is another module's.
Succeeds(r) == accepted' = [accepted EXCEPT ![<<r.key, r.challenge>>] = @ + 1]

\* Faulty variant of DropOpen: the challenge stays.
DropNothing(h) ==
  LET r == request[h] IN
  /\ At(h, "dropOpen")
  /\ \/ r.op = "login" /\ Succeeds(r) /\ Ends(h)
     \/ r.op = "mfa" /\ Goes(h, "useRow") /\ UNCHANGED accepted
  /\ UNCHANGED <<store, issued, browser, faults, registered, passed, revoked>>

DropOpen(h) ==
  LET r == request[h] IN
  /\ At(h, "dropOpen")
  /\ open' = open \ {r.challenge}
  /\ \/ r.op = "login" /\ Succeeds(r) /\ Ends(h)
     \/ r.op = "mfa" /\ Goes(h, "useRow") /\ UNCHANGED accepted
  /\ UNCHANGED <<cred, factor, pending, row, issued, browser, faults,
                 registered, passed, revoked>>

\* The row of the second factor is saved as used.
UseRow(h) ==
  LET r == request[h] IN
  /\ At(h, "useRow")
  /\ row' = [row EXCEPT ![r.mfa] = "used"]
  /\ Succeeds(r)
  /\ passed' = [passed EXCEPT ![r.mfa] = @ + 1]
  /\ Ends(h)
  /\ UNCHANGED <<cred, factor, pending, open, issued, browser, faults,
                 registered, revoked>>

-----------------------------------------------------------------------------
(* Failures, and the next step                                             *)

\* A call to the database or to Redis fails, and so does the request; what a
\* stopped process leaves looks the same.
Raise(h) ==
  /\ faults < MaxFaults
  /\ request[h] # Idle
  /\ faults' = faults + 1
  /\ Ends(h)
  /\ UNCHANGED <<store, issued, browser, history>>

RequestNext(h) ==
  \/ CreateChallenge(h) \/ SetOpen(h) \/ SaveRow(h)
  \/ \E k \in Keys : FinishRegistration(h, k) \/ RevokeCredential(h, k)
  \/ GetPending(h) \/ FindExisting(h) \/ Insert(h) \/ DropPending(h)
  \/ FindFactor(h) \/ InsertFactor(h) \/ SelectFactor(h) \/ UpdateFactor(h)
  \/ CountEnabled(h)
  \/ \E a \in signed :
       Login(h, a) \/ \E m \in Challenges : CompleteMfa(h, a, m)
  \/ FindOn(h) \/ CountKeys(h) \/ FindRow(h) \/ GetOpen(h) \/ FindKey(h)
  \/ Select(h) \/ Update(h) \/ DropOpen(h) \/ UseRow(h)
  \/ Raise(h)

Next ==
  \/ \E h \in Requests : RequestNext(h)
  \/ BeginRegistration \/ BeginAuthentication \/ ChallengeExpires
  \/ \E k \in Keys : Attest(k) \/ \E c \in Challenges : Sign(k, c)

Spec == Init /\ [][Next]_vars

-----------------------------------------------------------------------------
(* Properties                                                              *)

\* A passkey whose revocation was answered is never enabled again: no save of
\* its row by a login that read it before undoes the revocation.
RevokedStaysRevoked == \A k \in revoked : cred[k].status = "revoked"

\* A passkey is registered once, however often the browser sends it and
\* whatever fails.
RegisteredOnce == \A k \in Keys : registered[k] <= 1

\* A signature, and a second factor, let a user in once.
AcceptedOnce ==
  /\ \A k \in Keys, c \in Challenges : accepted[<<k, c>>] <= 1
  /\ \A m \in Challenges : passed[m] <= 1

\* While no call has failed, the user is offered passkeys between requests
\* only if he has one: the last revocation switches the factor off.
FactorBacked ==
  faults = 0 /\ (\A h \in Requests : request[h] = Idle)
  /\ (\E f \in Factors : factor[f] = "on") => Enabled # {}

=============================================================================
