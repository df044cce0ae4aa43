--------------------------- MODULE PasskeysProofs ---------------------------
(***************************************************************************)
(* Theorems about Passkeys, proved for any passkeys, requests and bounds,  *)
(* whichever operations fail half-way.  A passkey is registered once,      *)
(* whatever overlaps.  What logins, or registrations, would disturb holds  *)
(* in the scenarios of MCPasskeys without them: revocations last, and the  *)
(* factor goes with the last passkey.  In turns a signature opens one      *)
(* login, counters grow, and the passkeys implement KeyRing.               *)
(***************************************************************************)
EXTENDS MCPasskeys, FiniteSetTheorems, TLAPS

-----------------------------------------------------------------------------
(* The inductive invariant                                                 *)

\* A registration that has inserted its passkey and is not answered yet.
Inserted(r) ==
  /\ r.op = "register"
  /\ r.phase \in {"findFactor", "insertFactor", "selectFactor",
                  "updateFactor", "dropPending"}

\* What a request relies on: the passkey it is about, the row that a save
\* reads and writes, and the row that it has inserted.
Held(r, rows) ==
  /\ r.phase \notin {"idle", "setOpen", "saveRow"} => r.key \in Keys
  /\ r.phase = "select" => r.entity.status # "absent"
  /\ r.phase \in {"select", "update"} => rows[r.key].status # "absent"
  /\ r.phase = "update" =>
       ("status" \in r.columns => r.entity.status # "absent")
  /\ Inserted(r) => rows[r.key].status # "absent"
  /\ r.phase = "count" => r.op = "revoke"
  /\ r.phase = "setOpen" => r.challenge # 0
  /\ r.phase \in {"insertFactor", "dropPending"} => r.op = "register"

AllHeld == \A h \in Requests : Held(request[h], cred)

\* One request inserts a passkey.
InsertedAlone ==
  \A g, h \in Requests :
    /\ Inserted(request[g]) /\ Inserted(request[h])
    /\ request[g].key = request[h].key
    => g = h

\* A registration that was answered has a row, and no other is on its way.
RegistrationsCounted ==
  \A k \in Keys :
    /\ registered[k] <= 1
    /\ registered[k] = 1 =>
         /\ cred[k].status # "absent"
         /\ \A h \in Requests : Inserted(request[h]) => request[h].key # k

\* A row that is not there holds nothing.
AbsentRows == \A k \in Keys : cred[k].status = "absent" => cred[k] = Absent

IInv ==
  TypeOK /\ AllHeld /\ InsertedAlone /\ RegistrationsCounted /\ AbsentRows

-----------------------------------------------------------------------------
(* What a step must do                                                     *)

LEMMA Bounds ==
  /\ MaxIssued \in Nat /\ MaxCount \in Nat /\ MaxFaults \in Nat
  /\ Cardinality(Requests) \in Nat
  /\ Counting \subseteq Keys
BY PasskeyConstants, FS_CardinalityType

LEMMA IdleType == Absent \in Credential /\ Idle \in Request
<1>1. Absent \in Credential
  BY Bounds DEF Absent, Credential
<1>2. /\ 0 \in 0 .. MaxIssued /\ 0 \in 0 .. MaxCount
      /\ 0 \in 0 .. Cardinality(Requests)
  BY Bounds
<1> QED  BY <1>1, <1>2 DEF Idle, Request, Operations, Phase

LEMMA IdleHeld == ASSUME NEW rows  PROVE Held(Idle, rows) /\ ~Inserted(Idle)
BY DEF Held, Inserted, Idle

\* The variables but the rows of passkeys, requests and registrations.
RestTyped ==
  /\ factor \in [Factors -> {"none", "on", "off"}]
  /\ pending \in 0 .. MaxIssued
  /\ open \subseteq Challenges
  /\ row \in [Challenges -> {"none", "open", "expired", "used"}]
  /\ issued \in 0 .. MaxIssued
  /\ device \in [Keys -> [challenge : 0 .. MaxIssued, count : 0 .. MaxCount]]
  /\ signed \subseteq Assertion
  /\ faults \in 0 .. MaxFaults
  /\ accepted \in [Keys \X Challenges -> Nat]
  /\ passed \in [Challenges -> Nat]
  /\ revoked \subseteq Keys

LEMMA TypesSplit ==
  TypeOK <=> /\ RestTyped
             /\ cred \in [Keys -> Credential]
             /\ request \in [Requests -> Request]
             /\ registered \in [Keys -> Nat]
BY DEF TypeOK, RestTyped

\* No row is taken away, and the request that moves inserts none.
LEMMA Moves ==
  ASSUME IInv, NEW h \in Requests, NEW r \in Request, Becomes(h, r),
         cred' \in [Keys -> Credential],
         \A k \in Keys :
           cred[k].status # "absent" => cred'[k].status # "absent",
         AbsentRows',
         UNCHANGED registered,
         RestTyped',
         Held(r, cred'),
         Inserted(r) => Inserted(request[h]) /\ r.key = request[h].key
  PROVE  IInv'
<1>1. /\ request' \in [Requests -> Request]
      /\ request'[h] = r
      /\ \A g \in Requests : g # h => request'[g] = request[g]
  BY DEF IInv, TypeOK, Becomes
<1>2. TypeOK'
  BY <1>1, TypesSplit DEF IInv, TypeOK, RestTyped
<1>3. AllHeld'
  <2> SUFFICES ASSUME NEW g \in Requests  PROVE Held(request'[g], cred')
    BY DEF AllHeld
  <2>1. CASE g = h
    BY <1>1, <2>1
  <2>2. CASE g # h
    <3>1. Held(request[g], cred) /\ request'[g] = request[g]
      BY <1>1, <2>2 DEF IInv, AllHeld
    <3> QED  BY <3>1 DEF Held, Inserted
  <2> QED  BY <2>1, <2>2
<1>4. \A g \in Requests :
        Inserted(request'[g]) =>
          Inserted(request[g]) /\ request'[g].key = request[g].key
  BY <1>1
<1>5. InsertedAlone'
  BY <1>4 DEF IInv, InsertedAlone
<1>6. RegistrationsCounted'
  BY <1>4 DEF IInv, RegistrationsCounted
<1> QED  BY <1>2, <1>3, <1>5, <1>6 DEF IInv

\* The rows stay.
LEMMA RowsStay ==
  ASSUME IInv, NEW h \in Requests, NEW r \in Request, Becomes(h, r),
         UNCHANGED <<cred, registered>>, RestTyped', Held(r, cred),
         Inserted(r) => Inserted(request[h]) /\ r.key = request[h].key
  PROVE  IInv'
<1>1. AbsentRows'
  BY DEF IInv, AbsentRows
<1> QED  BY <1>1, Moves DEF IInv, TypeOK

LEMMA EndStays ==
  ASSUME IInv, NEW h \in Requests, Ends(h),
         UNCHANGED <<cred, registered>>, RestTyped'
  PROVE  IInv'
BY RowsStay, IdleType, IdleHeld DEF Ends

\* No request moves.
LEMMA NobodyMoves ==
  ASSUME IInv, UNCHANGED <<cred, registered, request>>, RestTyped'
  PROVE  IInv'
<1>1. TypeOK'
  BY TypesSplit DEF IInv, TypeOK, RestTyped
<1> QED  BY <1>1 DEF IInv, AllHeld, InsertedAlone, RegistrationsCounted,
                  AbsentRows

-----------------------------------------------------------------------------
(* Requests that change their phase, or begin                              *)

\* A request goes on; what it is about to save has been found before.
LEMMA GoesOn ==
  ASSUME IInv, NEW h \in Requests, NEW phase \in Phase, Goes(h, phase),
         UNCHANGED <<cred, registered>>, RestTyped',
         request[h].phase \notin {"idle", "setOpen", "saveRow"}
           \/ phase = "saveRow",
         phase \notin {"select", "update", "count", "setOpen"},
         phase \in {"insertFactor", "dropPending"} =>
           request[h].op = "register",
         Inserted([request[h] EXCEPT !.phase = phase]) => Inserted(request[h])
  PROVE  IInv'
<1> DEFINE q == request[h]
           r == [q EXCEPT !.phase = phase]
<1>1. q \in Request /\ Held(q, cred)
  BY DEF IInv, TypeOK, AllHeld
<1>2. r \in Request
  BY <1>1 DEF Request
<1>3. /\ r.phase = phase /\ r.key = q.key /\ r.op = q.op
      /\ r.columns = q.columns /\ r.entity = q.entity
  BY <1>1 DEF Request
<1>4. Becomes(h, r) /\ (Inserted(r) => Inserted(q))
  BY DEF Goes
<1> HIDE DEF q, r
<1>5. Held(r, cred)
  BY <1>1, <1>3, <1>4 DEF Held, q
<1> QED  BY <1>2, <1>3, <1>4, <1>5, RowsStay DEF q

\* A step that reads.
LEMMA ReadsOn ==
  ASSUME IInv, NEW h \in Requests, NEW found, NEW phase \in Phase,
         Reads(h, found, phase),
         request[h].phase \notin {"idle", "setOpen", "saveRow"},
         phase \notin {"select", "update", "count", "setOpen", "findFactor",
                      "insertFactor", "selectFactor", "updateFactor",
                      "dropPending"}
  PROVE  IInv'
<1>1. UNCHANGED <<cred, registered>> /\ RestTyped'
  BY DEF Reads, store, browser, history, IInv, TypeOK, RestTyped
<1>2. CASE Ends(h)
  BY <1>1, <1>2, EndStays
<1>3. CASE Goes(h, phase)
  <2>1. ~Inserted([request[h] EXCEPT !.phase = phase])
    BY DEF Inserted, IInv, TypeOK, Request
  <2> QED  BY <1>1, <1>3, <2>1, GoesOn
<1> QED  BY <1>2, <1>3 DEF Reads

LEMMA ReadingSteps ==
  ASSUME IInv, NEW h \in Requests,
         \/ GetPending(h) \/ FindExisting(h) \/ FindOn(h) \/ CountKeys(h)
         \/ FindRow(h) \/ GetOpen(h)
  PROVE  IInv'
<1>1. CASE GetPending(h)
  BY <1>1, ReadsOn DEF GetPending, At, Phase
<1>2. CASE FindExisting(h)
  <2>1. PICK found : Reads(h, found, "insert")
    BY <1>2 DEF FindExisting
  <2> QED  BY <1>2, <2>1, ReadsOn DEF FindExisting, At, Phase
<1>3. CASE FindOn(h)
  <2>1. Reads(h, TRUE, "findRow") \/ Reads(h, TRUE, "countKeys")
    BY <1>3 DEF FindOn
  <2> QED  BY <1>3, <2>1, ReadsOn DEF FindOn, At, Phase
<1>4. CASE CountKeys(h)
  BY <1>4, ReadsOn DEF CountKeys, At, Phase
<1>5. CASE FindRow(h)
  BY <1>5, ReadsOn DEF FindRow, At, Phase
<1>6. CASE GetOpen(h)
  BY <1>6, ReadsOn DEF GetOpen, At, Phase
<1> QED  BY <1>1, <1>2, <1>3, <1>4, <1>5, <1>6

LEMMA CreateChallengeStep ==
  ASSUME IInv, NEW h \in Requests, CreateChallenge(h)  PROVE IInv'
<1> DEFINE r == [Idle EXCEPT !.op = "challenge", !.phase = "setOpen",
                             !.challenge = issued + 1]
<1>1. issued + 1 \in 0 .. MaxIssued
  BY Bounds DEF CreateChallenge, IInv, TypeOK
<1>2. r \in Request
  BY <1>1, IdleType DEF Request, Operations, Phase
<1>3. Held(r, cred) /\ ~Inserted(r)
  BY <1>1, Bounds DEF Held, Inserted, Idle, CreateChallenge, IInv, TypeOK
<1>4. UNCHANGED <<cred, registered>> /\ RestTyped'
  BY <1>1 DEF CreateChallenge, store, browser, history, IInv, TypeOK,
              RestTyped
<1>5. Becomes(h, r)
  BY DEF CreateChallenge
<1> HIDE DEF r
<1> QED  BY <1>2, <1>3, <1>4, <1>5, RowsStay

LEMMA SetOpenStep ==
  ASSUME IInv, NEW h \in Requests, SetOpen(h)  PROVE IInv'
<1>1. /\ request[h] \in Request /\ request[h].phase = "setOpen"
      /\ Held(request[h], cred)
  BY DEF SetOpen, At, IInv, TypeOK, AllHeld
<1>2. request[h].challenge \in Challenges
  BY <1>1, Bounds DEF Request, Held, Challenges
<1>3. UNCHANGED <<cred, registered>> /\ RestTyped'
  BY <1>2 DEF SetOpen, browser, history, IInv, TypeOK, RestTyped
<1>4. ~Inserted([request[h] EXCEPT !.phase = "saveRow"])
  BY <1>1 DEF Inserted, Request
<1> QED  BY <1>1, <1>3, <1>4, GoesOn DEF SetOpen, Phase

LEMMA SaveRowStep ==
  ASSUME IInv, NEW h \in Requests, SaveRow(h)  PROVE IInv'
<1>1. UNCHANGED <<cred, registered>> /\ RestTyped'
  BY DEF SaveRow, browser, history, IInv, TypeOK, RestTyped
<1> QED  BY <1>1, EndStays DEF SaveRow

LEMMA FinishRegistrationStep ==
  ASSUME IInv, NEW h \in Requests, NEW k \in Keys, FinishRegistration(h, k)
  PROVE  IInv'
<1> DEFINE r == [Idle EXCEPT !.op = "register", !.phase = "getPending",
                             !.key = k]
<1>1. r \in Request
  BY IdleType DEF Request, Operations, Phase
<1>2. Held(r, cred) /\ ~Inserted(r)
  BY DEF Held, Inserted, Idle
<1>3. UNCHANGED <<cred, registered>> /\ RestTyped'
  BY DEF FinishRegistration, Begins, store, browser, history, IInv, TypeOK,
         RestTyped
<1>4. Becomes(h, r)
  BY DEF FinishRegistration, Begins
<1> HIDE DEF r
<1> QED  BY <1>1, <1>2, <1>3, <1>4, RowsStay

LEMMA RevokeCredentialStep ==
  ASSUME IInv, NEW h \in Requests, NEW k \in Keys, RevokeCredential(h, k)
  PROVE  IInv'
<1> DEFINE e == [cred[k] EXCEPT !.status = "revoked"]
           r == [Idle EXCEPT !.op = "revoke", !.phase = "select", !.key = k,
                             !.entity = e]
<1>1. cred[k] \in Credential /\ cred[k].status # "absent"
  BY DEF RevokeCredential, IInv, TypeOK, AbsentRows
<1>2. e \in Credential /\ e.status = "revoked"
  BY <1>1 DEF Credential
<1> HIDE DEF e
<1>3. r \in Request
  BY <1>2, IdleType DEF Request, Operations, Phase
<1>4. Held(r, cred) /\ ~Inserted(r)
  BY <1>1, <1>2 DEF Held, Inserted, Idle
<1>5. UNCHANGED <<cred, registered>> /\ RestTyped'
  BY DEF RevokeCredential, store, browser, history, IInv, TypeOK, RestTyped
<1>6. Becomes(h, r)
  BY DEF RevokeCredential, e
<1> HIDE DEF r
<1> QED  BY <1>3, <1>4, <1>5, <1>6, RowsStay

LEMMA LoginSteps ==
  ASSUME IInv, NEW h \in Requests, NEW a \in signed,
         Login(h, a) \/ \E m \in Challenges : CompleteMfa(h, a, m)
  PROVE  IInv'
<1>1. a \in Assertion /\ signed \subseteq Assertion
  BY DEF IInv, TypeOK
<1>2. /\ a.key \in Keys /\ a.count \in 0 .. MaxCount
      /\ a.challenge \in 0 .. MaxIssued
  BY <1>1, Bounds DEF Assertion, Challenges
<1>3. UNCHANGED <<cred, registered>> /\ RestTyped'
  BY DEF Login, CompleteMfa, store, browser, history, IInv, TypeOK, RestTyped
<1>4. CASE Login(h, a)
  <2> DEFINE r == [Idle EXCEPT !.op = "login", !.phase = "getOpen",
       !.key = a.key, !.challenge = a.challenge, !.count = a.count]
  <2>1. r \in Request
    BY <1>2, IdleType DEF Request, Operations, Phase
  <2>2. Held(r, cred) /\ ~Inserted(r)
    BY <1>2 DEF Held, Inserted, Idle
  <2>3. Becomes(h, r)
    BY <1>4 DEF Login
  <2> HIDE DEF r
  <2> QED  BY <1>3, <2>1, <2>2, <2>3, RowsStay
<1>5. ASSUME NEW m \in Challenges, CompleteMfa(h, a, m)  PROVE IInv'
  <2> DEFINE r == [Idle EXCEPT !.op = "mfa", !.phase = "factors", !.mfa = m,
       !.key = a.key, !.challenge = a.challenge, !.count = a.count]
  <2>0. m \in 0 .. MaxIssued
    BY Bounds DEF Challenges
  <2>1. r \in Request
    BY <1>2, <2>0, IdleType DEF Request, Operations, Phase
  <2>2. Held(r, cred) /\ ~Inserted(r)
    BY <1>2 DEF Held, Inserted, Idle
  <2>3. Becomes(h, r)
    BY <1>5 DEF CompleteMfa
  <2> HIDE DEF r
  <2> QED  BY <1>3, <2>1, <2>2, <2>3, RowsStay
<1> QED  BY <1>4, <1>5

-----------------------------------------------------------------------------
(* Registrations                                                           *)

\* The row was not there, so nobody else has inserted it, or was answered.
LEMMA InsertStep ==
  ASSUME IInv, NEW h \in Requests, Insert(h)  PROVE IInv'
<1> DEFINE q == request[h]
           k == q.key
           r == [q EXCEPT !.phase = "findFactor"]
<1>1. q \in Request /\ Held(q, cred) /\ q.phase = "insert" /\ k \in Keys
  BY DEF Insert, At, IInv, TypeOK, AllHeld, Held
<1>2. RestTyped'
  BY DEF Insert, browser, history, IInv, TypeOK, RestTyped
<1>3. CASE Ends(h) /\ UNCHANGED cred
  BY <1>2, <1>3, EndStays DEF Insert, history
<1>4. CASE /\ cred[k] = Absent
           /\ cred' = [cred EXCEPT ![k].status = "enabled"]
           /\ Goes(h, "findFactor")
  <2>1. /\ cred' \in [Keys -> Credential]
        /\ cred'[k].status = "enabled"
        /\ \A j \in Keys : j # k => cred'[j] = cred[j]
    BY <1>1, <1>4, IdleType DEF IInv, TypeOK, Credential
  <2>2. r \in Request /\ r.key = k /\ r.phase = "findFactor"
    BY <1>1 DEF Request, Phase
  <2>3. /\ request' \in [Requests -> Request]
        /\ request'[h] = r
        /\ \A g \in Requests : g # h => request'[g] = request[g]
    BY <1>4, <2>2 DEF IInv, TypeOK, Goes, Becomes
  <2>4. cred[k].status = "absent"
    BY <1>4 DEF Absent
  <2>5. \A g \in Requests : Inserted(request[g]) => request[g].key # k
    BY <2>4 DEF IInv, AllHeld, Held
  <2>6. UNCHANGED registered /\ registered \in [Keys -> Nat]
    BY DEF Insert, history, IInv, TypeOK
  <2>7. registered[k] # 1
    BY <1>1, <2>4 DEF IInv, RegistrationsCounted
  <2>8. TypeOK'
    BY <1>2, <2>1, <2>3, <2>6, TypesSplit DEF TypeOK, RestTyped
  <2>9. AllHeld'
    <3> SUFFICES ASSUME NEW g \in Requests  PROVE Held(request'[g], cred')
      BY DEF AllHeld
    <3>1. CASE g = h
      BY <1>1, <2>1, <2>2, <2>3, <3>1 DEF Held
    <3>2. CASE g # h
      <4>1. Held(request[g], cred) /\ request'[g] = request[g]
        BY <2>3, <3>2 DEF IInv, AllHeld
      <4>2. \A j \in Keys :
              cred[j].status # "absent" => cred'[j].status # "absent"
        BY <2>1
      <4> QED  BY <4>1, <4>2 DEF Held, Inserted
    <3> QED  BY <3>1, <3>2
  <2>10. InsertedAlone'
    <3> SUFFICES ASSUME NEW f \in Requests, NEW g \in Requests,
                        Inserted(request'[f]), Inserted(request'[g]),
                        request'[f].key = request'[g].key
                 PROVE  f = g
      BY DEF InsertedAlone
    <3> QED  BY <2>2, <2>3, <2>5 DEF IInv, InsertedAlone
  <2>11. RegistrationsCounted'
    <3> SUFFICES ASSUME NEW j \in Keys
                 PROVE  /\ registered[j] <= 1
                        /\ registered[j] = 1 =>
                             /\ cred'[j].status # "absent"
                             /\ \A g \in Requests :
                                  Inserted(request'[g]) => request'[g].key # j
      BY <2>6 DEF RegistrationsCounted
    <3>1. CASE j = k
      BY <2>7, <3>1 DEF IInv, RegistrationsCounted
    <3>2. CASE j # k
      BY <2>1, <2>2, <2>3, <3>2 DEF IInv, RegistrationsCounted
    <3> QED  BY <3>1, <3>2
  <2>12. AbsentRows'
    BY <2>1 DEF IInv, AbsentRows
  <2> QED  BY <2>8, <2>9, <2>10, <2>11, <2>12 DEF IInv
<1> QED  BY <1>3, <1>4 DEF Insert

\* The answer: the only request that inserted the passkey ends.
LEMMA DropPendingStep ==
  ASSUME IInv, NEW h \in Requests, DropPending(h)  PROVE IInv'
<1> DEFINE q == request[h]
           k == q.key
<1>1. q \in Request /\ Held(q, cred) /\ q.phase = "dropPending"
  BY DEF DropPending, At, IInv, TypeOK, AllHeld
<1>2. k \in Keys /\ Inserted(q) /\ cred[k].status # "absent"
  BY <1>1 DEF Held, Inserted
<1>3. RestTyped'
  BY Bounds DEF DropPending, browser, IInv, TypeOK, RestTyped
<1>4. /\ request' \in [Requests -> Request]
      /\ request'[h] = Idle
      /\ \A g \in Requests : g # h => request'[g] = request[g]
  BY IdleType DEF DropPending, Ends, Becomes, IInv, TypeOK
<1>5. /\ registered' = [registered EXCEPT ![k] = @ + 1]
      /\ registered \in [Keys -> Nat]
      /\ UNCHANGED cred
  BY DEF DropPending, IInv, TypeOK
<1>6. registered' \in [Keys -> Nat] /\ cred \in [Keys -> Credential]
  BY <1>2, <1>5 DEF IInv, TypeOK
<1>7. registered[k] = 0
  BY <1>2, <1>5 DEF IInv, RegistrationsCounted
<1>8. TypeOK'
  BY <1>3, <1>4, <1>5, <1>6, TypesSplit DEF TypeOK, RestTyped
<1>9. AllHeld'
  BY <1>4, <1>5, IdleHeld DEF IInv, AllHeld
<1>10. \A g \in Requests :
         Inserted(request'[g]) => g # h /\ Inserted(request[g])
  BY <1>4, IdleHeld
<1>11. InsertedAlone'
  BY <1>4, <1>10 DEF IInv, InsertedAlone
<1>12. RegistrationsCounted'
  <2> SUFFICES ASSUME NEW j \in Keys
               PROVE  /\ registered'[j] <= 1
                      /\ registered'[j] = 1 =>
                           /\ cred[j].status # "absent"
                           /\ \A g \in Requests :
                                Inserted(request'[g]) => request'[g].key # j
    BY <1>5 DEF RegistrationsCounted
  <2>1. CASE j = k
    <3>1. \A g \in Requests : Inserted(request'[g]) => request'[g].key # k
      BY <1>2, <1>4, <1>10 DEF IInv, InsertedAlone
    <3> QED  BY <1>2, <1>5, <1>7, <2>1, <3>1
  <2>2. CASE j # k
    <3>1. registered'[j] = registered[j]
      BY <1>5, <2>2
    <3> QED  BY <1>4, <1>10, <3>1 DEF IInv, RegistrationsCounted
  <2> QED  BY <2>1, <2>2
<1>13. AbsentRows'
  BY <1>5 DEF IInv, AbsentRows
<1> QED  BY <1>8, <1>9, <1>11, <1>12, <1>13 DEF IInv

-----------------------------------------------------------------------------
(* The factor                                                              *)

LEMMA FindFactorStep ==
  ASSUME IInv, NEW h \in Requests, FindFactor(h)  PROVE IInv'
<1> DEFINE q == request[h]
<1>1. q \in Request /\ Held(q, cred) /\ q.phase = "findFactor"
  BY DEF FindFactor, At, IInv, TypeOK, AllHeld
<1>2. q.key \in Keys
  BY <1>1 DEF Held
<1>3. UNCHANGED <<cred, registered>> /\ RestTyped'
  BY <1>2 DEF FindFactor, store, browser, IInv, TypeOK, RestTyped
<1>4. ASSUME NEW f \in Factors,
             Becomes(h, [q EXCEPT !.phase = "selectFactor", !.factor = f])
      PROVE  IInv'
  <2> DEFINE r == [q EXCEPT !.phase = "selectFactor", !.factor = f]
  <2>1. f \in 0 .. Cardinality(Requests)
    BY Bounds DEF Factors
  <2>2. r \in Request
    BY <1>1, <2>1 DEF Request, Phase
  <2>3. r.phase = "selectFactor" /\ r.key = q.key /\ r.op = q.op
    BY <1>1 DEF Request
  <2> HIDE DEF r
  <2>4. Held(r, cred) /\ (Inserted(r) => Inserted(q))
    BY <1>1, <1>2, <2>3 DEF Held, Inserted
  <2>5. Becomes(h, r)
    BY <1>4 DEF r
  <2> QED  BY <1>3, <2>2, <2>3, <2>4, <2>5, RowsStay
<1>5. CASE q.op = "register" /\ Goes(h, "insertFactor")
  <2>1. Inserted(q)
    BY <1>1, <1>5 DEF Inserted
  <2> QED  BY <1>1, <1>3, <1>5, <2>1, GoesOn DEF Phase
<1>6. CASE Ends(h)
  BY <1>3, <1>6, EndStays
<1> QED  BY <1>4, <1>5, <1>6 DEF FindFactor

LEMMA InsertFactorStep ==
  ASSUME IInv, NEW h \in Requests, InsertFactor(h)  PROVE IInv'
<1> DEFINE q == request[h]
<1>1. q.phase = "insertFactor" /\ q.op = "register"
  BY DEF InsertFactor, At, IInv, AllHeld, Held
<1>2. UNCHANGED <<cred, registered>> /\ RestTyped'
  BY DEF InsertFactor, browser, history, IInv, TypeOK, RestTyped
<1>3. Inserted(q)
  BY <1>1 DEF Inserted
<1> QED  BY <1>1, <1>2, <1>3, GoesOn DEF InsertFactor, Phase

LEMMA SelectFactorStep ==
  ASSUME IInv, NEW h \in Requests, SelectFactor(h)  PROVE IInv'
<1> DEFINE q == request[h]
           flips == factor[q.factor] # Wanted(q)
           r == [q EXCEPT !.phase = "updateFactor", !.flips = flips]
<1>1. q \in Request /\ Held(q, cred) /\ q.phase = "selectFactor"
  BY DEF SelectFactor, At, IInv, TypeOK, AllHeld
<1>2. flips \in BOOLEAN /\ Becomes(h, r)
  BY DEF SelectFactor
<1> HIDE DEF flips
<1>3. r \in Request
  BY <1>1, <1>2 DEF Request, Phase
<1>4. r.phase = "updateFactor" /\ r.key = q.key /\ r.op = q.op
  BY <1>1 DEF Request
<1> HIDE DEF r
<1>5. Held(r, cred) /\ (Inserted(r) => Inserted(q))
  BY <1>1, <1>4 DEF Held, Inserted
<1>6. UNCHANGED <<cred, registered>> /\ RestTyped'
  BY DEF SelectFactor, store, browser, history, IInv, TypeOK, RestTyped
<1> QED  BY <1>2, <1>3, <1>4, <1>5, <1>6, RowsStay

LEMMA UpdateFactorStep ==
  ASSUME IInv, NEW h \in Requests, UpdateFactor(h)  PROVE IInv'
<1> DEFINE q == request[h]
<1>1. q \in Request /\ Held(q, cred) /\ q.phase = "updateFactor"
  BY DEF UpdateFactor, At, IInv, TypeOK, AllHeld
<1>2. q.key \in Keys
  BY <1>1 DEF Held
<1>3. UNCHANGED <<cred, registered>> /\ RestTyped'
  <2>1. factor' \in [Factors -> {"none", "on", "off"}]
    BY DEF UpdateFactor, Wanted, IInv, TypeOK
  <2>2. revoked' \subseteq Keys
    BY <1>2 DEF UpdateFactor, IInv, TypeOK
  <2> QED  BY <2>1, <2>2 DEF UpdateFactor, browser, IInv, TypeOK, RestTyped
<1>4. ASSUME q.op = "register",
             Becomes(h, [q EXCEPT !.phase = "dropPending", !.factor = 0,
                                  !.flips = FALSE])
      PROVE  IInv'
  <2> DEFINE r == [q EXCEPT !.phase = "dropPending", !.factor = 0,
                            !.flips = FALSE]
  <2>1. 0 \in 0 .. Cardinality(Requests)
    BY Bounds
  <2>2. r \in Request
    BY <1>1, <2>1 DEF Request, Phase
  <2>3. r.phase = "dropPending" /\ r.key = q.key /\ r.op = q.op
    BY <1>1 DEF Request
  <2> HIDE DEF r
  <2>4. Held(r, cred) /\ (Inserted(r) => Inserted(q))
    BY <1>1, <1>2, <1>4, <2>3 DEF Held, Inserted
  <2>5. Becomes(h, r)
    BY <1>4 DEF r
  <2> QED  BY <1>3, <2>2, <2>3, <2>4, <2>5, RowsStay
<1>5. CASE Ends(h)
  BY <1>3, <1>5, EndStays
<1> QED  BY <1>4, <1>5 DEF UpdateFactor

LEMMA CountEnabledStep ==
  ASSUME IInv, NEW h \in Requests, CountEnabled(h)  PROVE IInv'
<1> DEFINE q == request[h]
<1>1. q \in Request /\ q.phase = "count" /\ q.op = "revoke" /\ q.key \in Keys
  BY DEF CountEnabled, At, IInv, TypeOK, AllHeld, Held
<1>2. UNCHANGED <<cred, registered>> /\ RestTyped'
  BY <1>1 DEF CountEnabled, store, browser, IInv, TypeOK, RestTyped
<1>3. CASE Goes(h, "findFactor")
  <2>1. ~Inserted([q EXCEPT !.phase = "findFactor"])
    BY <1>1 DEF Inserted, Request
  <2> QED  BY <1>1, <1>2, <1>3, <2>1, GoesOn DEF Phase
<1>4. CASE Ends(h)
  BY <1>2, <1>4, EndStays
<1> QED  BY <1>3, <1>4 DEF CountEnabled

-----------------------------------------------------------------------------
(* Saves, and the end of a login                                           *)

LEMMA FindKeyStep ==
  ASSUME IInv, NEW h \in Requests, FindKey(h)  PROVE IInv'
<1> DEFINE q == request[h]
           k == q.key
           e == [cred[k] EXCEPT !.counter = q.count]
           r == [q EXCEPT !.phase = "select", !.entity = e]
<1>1. q \in Request /\ Held(q, cred) /\ q.phase = "findKey" /\ k \in Keys
  BY DEF FindKey, At, IInv, TypeOK, AllHeld, Held
<1>2. UNCHANGED <<cred, registered>> /\ RestTyped'
  BY DEF FindKey, store, browser, history, IInv, TypeOK, RestTyped
<1>3. CASE Usable(k) /\ Becomes(h, r)
  <2>1. cred[k] \in Credential /\ cred[k].status = "enabled"
    BY <1>1, <1>3 DEF Usable, IInv, TypeOK
  <2>2. e \in Credential /\ e.status = "enabled"
    BY <1>1, <2>1 DEF Credential, Request
  <2> HIDE DEF e
  <2>3. r \in Request
    BY <1>1, <2>2 DEF Request, Phase
  <2>4. /\ r.phase = "select" /\ r.key = k /\ r.entity = e
    BY <1>1 DEF Request
  <2> HIDE DEF r
  <2>5. Held(r, cred) /\ ~Inserted(r)
    BY <1>1, <2>1, <2>2, <2>4 DEF Held, Inserted
  <2> QED  BY <1>2, <1>3, <2>3, <2>5, RowsStay
<1>4. CASE Ends(h)
  BY <1>2, <1>4, EndStays
<1> QED  BY <1>3, <1>4 DEF FindKey

LEMMA SelectStep ==
  ASSUME IInv, NEW h \in Requests, Select(h)  PROVE IInv'
<1> DEFINE q == request[h]
           cs == {c \in {"status", "counter"} :
                    q.entity[c] # cred[q.key][c]
                      \/ (c = "counter" /\ q.op # "revoke")}
           r == [q EXCEPT !.phase = "update", !.columns = cs]
<1>1. q \in Request /\ Held(q, cred) /\ q.phase = "select"
  BY DEF Select, At, IInv, TypeOK, AllHeld
<1>2. cs \in SUBSET {"status", "counter"} /\ Becomes(h, r)
  BY DEF Select
<1> HIDE DEF cs
<1>3. r \in Request
  BY <1>1, <1>2 DEF Request, Phase
<1>4. /\ r.phase = "update" /\ r.key = q.key /\ r.op = q.op
      /\ r.entity = q.entity
  BY <1>1 DEF Request
<1> HIDE DEF r
<1>5. Held(r, cred) /\ ~Inserted(r)
  BY <1>1, <1>4 DEF Held, Inserted
<1>6. UNCHANGED <<cred, registered>> /\ RestTyped'
  BY DEF Select, store, browser, history, IInv, TypeOK, RestTyped
<1> QED  BY <1>2, <1>3, <1>5, <1>6, RowsStay

\* The status that is written is never "absent".
LEMMA UpdateStep ==
  ASSUME IInv, NEW h \in Requests, Update(h)  PROVE IInv'
<1> DEFINE q == request[h]
           k == q.key
           to == IF q.op = "revoke" THEN "count" ELSE "dropOpen"
           w == Written(q, cred[k])
           r == [q EXCEPT !.phase = to, !.entity = Absent, !.columns = {}]
<1>1. q \in Request /\ Held(q, cred) /\ q.phase = "update" /\ k \in Keys
  BY DEF Update, At, IInv, TypeOK, AllHeld, Held
<1>2. cred[k] \in Credential /\ q.entity \in Credential
  BY <1>1 DEF IInv, TypeOK, Request
<1>3. w \in Credential /\ w.status # "absent"
  BY <1>1, <1>2 DEF Written, Credential, Held
<1> HIDE DEF w
<1>4. cred' = [cred EXCEPT ![k] = w] /\ Becomes(h, r)
  BY DEF Update, w
<1>5. /\ cred' \in [Keys -> Credential]
      /\ cred'[k] = w
      /\ \A j \in Keys : j # k => cred'[j] = cred[j]
  BY <1>1, <1>3, <1>4 DEF IInv, TypeOK
<1>6. AbsentRows'
  BY <1>3, <1>5 DEF IInv, AbsentRows
<1>7. to \in {"count", "dropOpen"} /\ (to = "count" => q.op = "revoke")
  OBVIOUS
<1> HIDE DEF to
<1>8. r \in Request
  BY <1>1, <1>7, IdleType DEF Request, Phase
<1>9. r.phase = to /\ r.key = k /\ r.op = q.op
  BY <1>1 DEF Request
<1> HIDE DEF r
<1>10. Held(r, cred') /\ ~Inserted(r)
  BY <1>1, <1>7, <1>9 DEF Held, Inserted
<1>11. UNCHANGED registered /\ RestTyped'
  BY DEF Update, browser, history, IInv, TypeOK, RestTyped
<1>12. \A j \in Keys :
         cred[j].status # "absent" => cred'[j].status # "absent"
  BY <1>3, <1>5
<1> QED  BY <1>4, <1>5, <1>6, <1>8, <1>10, <1>11, <1>12, Moves

\* Counters of a table.
LEMMA OneMore ==
  ASSUME NEW S, NEW f \in [S -> Nat], NEW x
  PROVE  [f EXCEPT ![x] = @ + 1] \in [S -> Nat]
<1>1. [f EXCEPT ![x] = @ + 1] = [y \in S |-> IF y = x THEN f[x] + 1 ELSE f[y]]
  OBVIOUS
<1>2. \A y \in S : (IF y = x THEN f[x] + 1 ELSE f[y]) \in Nat
  OBVIOUS
<1> QED  BY <1>1, <1>2

LEMMA Zeros == \A S : [x \in S |-> 0] \in [S -> Nat]
OBVIOUS

LEMMA SucceedsTyped ==
  ASSUME TypeOK, NEW r, Succeeds(r)
  PROVE  accepted' \in [Keys \X Challenges -> Nat]
<1> DEFINE x == <<r.key, r.challenge>>
<1>1. /\ accepted \in [Keys \X Challenges -> Nat]
      /\ accepted' = [accepted EXCEPT ![x] = @ + 1]
  BY DEF TypeOK, Succeeds
<1> HIDE DEF x
<1> QED  BY <1>1, OneMore

LEMMA DropOpenStep ==
  ASSUME IInv, NEW h \in Requests, DropOpen(h)  PROVE IInv'
<1> DEFINE q == request[h]
<1>1. q \in Request /\ q.phase = "dropOpen"
  BY DEF DropOpen, At, IInv, TypeOK
<1>2. accepted' \in [Keys \X Challenges -> Nat]
  BY SucceedsTyped DEF DropOpen, IInv, TypeOK
<1>3. UNCHANGED <<cred, registered>> /\ RestTyped'
  BY <1>2 DEF DropOpen, browser, IInv, TypeOK, RestTyped
<1>4. CASE Ends(h)
  BY <1>3, <1>4, EndStays
<1>5. CASE Goes(h, "useRow")
  <2>1. ~Inserted([q EXCEPT !.phase = "useRow"])
    BY <1>1 DEF Inserted, Request
  <2> QED  BY <1>1, <1>3, <1>5, <2>1, GoesOn DEF Phase
<1> QED  BY <1>4, <1>5 DEF DropOpen

LEMMA UseRowStep ==
  ASSUME IInv, NEW h \in Requests, UseRow(h)  PROVE IInv'
<1>1. accepted' \in [Keys \X Challenges -> Nat]
  BY SucceedsTyped DEF UseRow, IInv
<1>2. passed' \in [Challenges -> Nat]
  BY OneMore DEF UseRow, IInv, TypeOK
<1>3. UNCHANGED <<cred, registered>> /\ RestTyped'
  BY <1>1, <1>2 DEF UseRow, browser, IInv, TypeOK, RestTyped
<1> QED  BY <1>3, EndStays DEF UseRow

LEMMA RaiseStep ==
  ASSUME IInv, NEW h \in Requests, Raise(h)  PROVE IInv'
<1>1. faults + 1 \in 0 .. MaxFaults
  BY Bounds DEF Raise, IInv, TypeOK
<1>2. UNCHANGED <<cred, registered>> /\ RestTyped'
  BY <1>1 DEF Raise, store, browser, history, IInv, TypeOK, RestTyped
<1> QED  BY <1>2, EndStays DEF Raise

-----------------------------------------------------------------------------
(* Challenges and authenticators                                           *)

LEMMA ChallengeSteps ==
  ASSUME IInv, BeginRegistration \/ BeginAuthentication \/ ChallengeExpires
  PROVE  IInv'
<1>1. UNCHANGED <<cred, registered, request>>
  BY DEF BeginRegistration, BeginAuthentication, ChallengeExpires, history
<1>2. issued < MaxIssued => issued + 1 \in 0 .. MaxIssued
                            /\ issued + 1 \in Challenges
  BY Bounds DEF IInv, TypeOK, Challenges
<1>3. CASE BeginRegistration
  <2>1. RestTyped'
    BY <1>2, <1>3 DEF BeginRegistration, browser, history, IInv, TypeOK,
                      RestTyped
  <2> QED  BY <1>1, <2>1, NobodyMoves
<1>4. CASE BeginAuthentication
  <2>1. RestTyped'
    BY <1>2, <1>4 DEF BeginAuthentication, browser, history, IInv, TypeOK,
                      RestTyped
  <2> QED  BY <1>1, <2>1, NobodyMoves
<1>5. CASE ChallengeExpires
  <2>1. 0 \in 0 .. MaxIssued
    BY Bounds
  <2>2. RestTyped'
    BY <1>5, <2>1 DEF ChallengeExpires, browser, history, IInv, TypeOK,
                      RestTyped
  <2> QED  BY <1>1, <2>2, NobodyMoves
<1> QED  BY <1>3, <1>4, <1>5

LEMMA AttestStep ==
  ASSUME IInv, NEW k \in Keys, Attest(k)  PROVE IInv'
<1>1. UNCHANGED <<cred, registered, request>>
  BY DEF Attest, store, history
<1>2. RestTyped'
  BY DEF Attest, store, history, IInv, TypeOK, RestTyped
<1> QED  BY <1>1, <1>2, NobodyMoves

LEMMA SignStep ==
  ASSUME IInv, NEW k \in Keys, NEW c \in Challenges, Sign(k, c)
  PROVE  IInv'
<1> DEFINE n == IF k \in Counting THEN device[k].count + 1 ELSE 0
           a == [key |-> k, challenge |-> c, count |-> n]
<1>1. UNCHANGED <<cred, registered, request>>
  BY DEF Sign, store, history
<1>2. n \in 0 .. MaxCount
  BY Bounds DEF Sign, IInv, TypeOK
<1>3. /\ signed' = signed \union {a}
      /\ device' = [device EXCEPT ![k].count = n]
      /\ UNCHANGED <<store, issued, request, faults, history>>
  BY DEF Sign
<1> HIDE DEF n
<1>4. a \in Assertion
  BY <1>2 DEF Assertion
<1> HIDE DEF a
<1>5. RestTyped'
  BY <1>2, <1>3, <1>4 DEF store, history, IInv, TypeOK, RestTyped
<1> QED  BY <1>1, <1>5, NobodyMoves

-----------------------------------------------------------------------------
(* The theorems                                                            *)

LEMMA InitIInv == Init => IInv
<1> SUFFICES ASSUME Init  PROVE IInv
  OBVIOUS
<1>1. \A k \in Keys : cred[k] \in {Absent, [Absent EXCEPT !.status = "enabled"]}
  BY DEF Init
<1>2. [Absent EXCEPT !.status = "enabled"] \in Credential
  BY IdleType DEF Absent, Credential
<1>3. cred \in [Keys -> Credential]
  BY <1>2, IdleType DEF Init
<1>4. AbsentRows
  <2>1. [Absent EXCEPT !.status = "enabled"].status = "enabled"
    BY DEF Absent
  <2> QED  BY <1>1, <2>1 DEF AbsentRows
<1>5. \A h \in Requests : request[h] = Idle
  BY DEF Init
<1>6. AllHeld /\ InsertedAlone
  BY <1>5, IdleHeld DEF AllHeld, InsertedAlone
<1>7. registered \in [Keys -> Nat] /\ passed \in [Challenges -> Nat]
  BY Zeros DEF Init
<1>8. RegistrationsCounted
  BY DEF Init, RegistrationsCounted
<1>9. accepted \in [Keys \X Challenges -> Nat]
  BY Zeros DEF Init
<1>10. request \in [Requests -> Request]
  BY IdleType DEF Init
<1>11. RestTyped
  <2>1. /\ 0 \in 0 .. MaxIssued /\ 0 \in 0 .. MaxCount
        /\ 0 \in 0 .. MaxFaults
    BY Bounds
  <2>2. factor \in [Factors -> {"none", "on", "off"}]
    BY DEF Init
  <2>3. row \in [Challenges -> {"none", "open", "expired", "used"}]
    BY DEF Init
  <2>4. device \in [Keys -> [challenge : 0 .. MaxIssued,
                             count : 0 .. MaxCount]]
    BY <2>1 DEF Init
  <2>5. /\ pending \in 0 .. MaxIssued /\ issued \in 0 .. MaxIssued
        /\ faults \in 0 .. MaxFaults
        /\ open \subseteq Challenges /\ signed \subseteq Assertion
        /\ revoked \subseteq Keys
    BY <2>1 DEF Init
  <2> QED  BY <1>7, <1>9, <2>2, <2>3, <2>4, <2>5 DEF RestTyped
<1>12. TypeOK
  BY <1>3, <1>7, <1>10, <1>11, TypesSplit
<1> QED  BY <1>4, <1>6, <1>8, <1>12 DEF IInv

LEMMA NextIInv == IInv /\ [Next]_vars => IInv'
<1> SUFFICES ASSUME IInv, [Next]_vars  PROVE IInv'
  OBVIOUS
<1>1. ASSUME NEW h \in Requests, RequestNext(h)  PROVE IInv'
  BY <1>1, CreateChallengeStep, SetOpenStep, SaveRowStep,
     FinishRegistrationStep, RevokeCredentialStep, ReadingSteps, InsertStep,
     DropPendingStep, FindFactorStep, InsertFactorStep, SelectFactorStep,
     UpdateFactorStep, CountEnabledStep, LoginSteps, FindKeyStep, SelectStep,
     UpdateStep, DropOpenStep, UseRowStep, RaiseStep DEF RequestNext
<1>2. CASE BeginRegistration \/ BeginAuthentication \/ ChallengeExpires
  BY <1>2, ChallengeSteps
<1>3. ASSUME NEW k \in Keys,
             Attest(k) \/ \E c \in Challenges : Sign(k, c)
      PROVE  IInv'
  BY <1>3, AttestStep, SignStep
<1>4. CASE UNCHANGED vars
  <2>1. UNCHANGED <<cred, registered, request>> /\ RestTyped'
    BY <1>4 DEF vars, store, browser, history, IInv, TypeOK, RestTyped
  <2> QED  BY <2>1, NobodyMoves
<1> QED  BY <1>1, <1>2, <1>3, <1>4 DEF Next

\* Every row, request and signature has the form the services rely on, and a
\* request that goes on about a passkey names one.
THEOREM PasskeysTypeCorrect == Spec => []TypeOK
<1>1. IInv => TypeOK
  BY DEF IInv
<1> QED  BY <1>1, InitIInv, NextIInv, PTL DEF Spec

\* finishRegistration answers for a passkey once, though the challenge in
\* Redis is deleted last and may be another's by then.  The argument: the
\* unique index lets one request insert the row (InsertedAlone), rows stay,
\* and no save makes one absent (Held).
THEOREM PasskeysRegisteredOnce == Spec => []RegisteredOnce
<1>1. IInv => RegisteredOnce
  BY DEF IInv, RegistrationsCounted, RegisteredOnce
<1> QED  BY <1>1, InitIInv, NextIInv, PTL DEF Spec

-----------------------------------------------------------------------------
(* The way of a request                                                    *)

\* The phases each operation goes through, and what it was begun with.
OnItsWay(r) ==
  /\ r.op = "none" => r = Idle
  /\ r.op = "challenge" => r.phase \in {"setOpen", "saveRow"}
  /\ r.op = "register" =>
       r.phase \in {"getPending", "findExisting", "insert", "findFactor",
                    "insertFactor", "selectFactor", "updateFactor",
                    "dropPending"}
  /\ r.op = "revoke" =>
       r.phase \in {"select", "update", "count", "findFactor",
                    "selectFactor", "updateFactor"}
  /\ r.op = "login" =>
       r.phase \in {"getOpen", "findKey", "select", "update", "dropOpen"}
  /\ r.op = "mfa" =>
       /\ r.phase \in {"factors", "countKeys", "findRow", "getOpen",
                       "findKey", "select", "update", "dropOpen", "useRow"}
       /\ r.mfa \in Challenges
  /\ r.op \in {"login", "mfa"} => r.challenge \in Challenges

AllOnTheirWay == \A h \in Requests : OnItsWay(request[h])

\* A request keeps what it was begun with.
Keeps(q, r) ==
  /\ r.op = q.op /\ r.key = q.key
  /\ r.challenge = q.challenge /\ r.mfa = q.mfa

OthersStay(h) == \A g \in Requests \ {h} : request'[g] = request[g]

LEMMA BecomesMakes ==
  ASSUME TypeOK, NEW h \in Requests, NEW r, Becomes(h, r)
  PROVE  request'[h] = r /\ OthersStay(h)
BY DEF TypeOK, Becomes, OthersStay

LEMMA GoesMakes ==
  ASSUME TypeOK, NEW h \in Requests, NEW phase, Goes(h, phase)
  PROVE  /\ OthersStay(h)
         /\ Keeps(request[h], request'[h])
         /\ request'[h].phase = phase
         /\ request'[h].entity = request[h].entity
         /\ request'[h].factor = request[h].factor
<1>1. request[h] \in Request
  BY DEF TypeOK
<1>2. /\ request'[h] = [request[h] EXCEPT !.phase = phase]
      /\ OthersStay(h)
  BY BecomesMakes DEF Goes
<1> QED  BY <1>1, <1>2 DEF Keeps, Request

LEMMA EndsMakes ==
  ASSUME TypeOK, NEW h \in Requests, Ends(h)
  PROVE  request'[h] = Idle /\ OthersStay(h)
BY BecomesMakes DEF Ends

LEMMA ReadsMakes ==
  ASSUME TypeOK, NEW h \in Requests, NEW found, NEW phase,
         Reads(h, found, phase)
  PROVE  /\ OthersStay(h)
         /\ \/ found /\ Keeps(request[h], request'[h])
                     /\ request'[h].phase = phase
            \/ ~found /\ request'[h] = Idle
BY GoesMakes, EndsMakes DEF Reads

LEMMA FirstSteps ==
  ASSUME TypeOK, NEW h \in Requests
  PROVE  /\ CreateChallenge(h) =>
              /\ OthersStay(h) /\ request[h] = Idle
              /\ request'[h].op = "challenge" /\ request'[h].phase = "setOpen"
              /\ request'[h].challenge = issued + 1
         /\ \A k \in Keys : FinishRegistration(h, k) =>
              /\ OthersStay(h) /\ request[h] = Idle
              /\ request'[h].op = "register"
              /\ request'[h].phase = "getPending"
         /\ \A k \in Keys : RevokeCredential(h, k) =>
              /\ OthersStay(h) /\ request[h] = Idle
              /\ request'[h].op = "revoke" /\ request'[h].phase = "select"
              /\ request'[h].key = k
              /\ request'[h].entity = [cred[k] EXCEPT !.status = "revoked"]
         /\ \A a \in signed : Login(h, a) =>
              /\ OthersStay(h) /\ request[h] = Idle
              /\ request'[h].op = "login" /\ request'[h].phase = "getOpen"
              /\ request'[h].challenge = a.challenge
         /\ \A a \in signed, m \in Challenges : CompleteMfa(h, a, m) =>
              /\ OthersStay(h) /\ request[h] = Idle
              /\ request'[h].op = "mfa" /\ request'[h].phase = "factors"
              /\ request'[h].challenge = a.challenge /\ request'[h].mfa = m
<1>1. ASSUME CreateChallenge(h)
      PROVE  /\ OthersStay(h) /\ request[h] = Idle
             /\ request'[h].op = "challenge" /\ request'[h].phase = "setOpen"
             /\ request'[h].challenge = issued + 1
  BY <1>1 DEF CreateChallenge, Admitted, Becomes, TypeOK, Idle, OthersStay
<1>2. ASSUME NEW k \in Keys, FinishRegistration(h, k)
      PROVE  /\ OthersStay(h) /\ request[h] = Idle
             /\ request'[h].op = "register"
             /\ request'[h].phase = "getPending"
  BY <1>2
     DEF FinishRegistration, Begins, Admitted, Becomes, TypeOK, Idle, OthersStay
<1>3. ASSUME NEW k \in Keys, RevokeCredential(h, k)
      PROVE  /\ OthersStay(h) /\ request[h] = Idle
             /\ request'[h].op = "revoke" /\ request'[h].phase = "select"
             /\ request'[h].key = k
             /\ request'[h].entity = [cred[k] EXCEPT !.status = "revoked"]
  BY <1>3
     DEF RevokeCredential, Admitted, Becomes, TypeOK, Idle, OthersStay
<1>4. ASSUME NEW a \in signed, Login(h, a)
      PROVE  /\ OthersStay(h) /\ request[h] = Idle
             /\ request'[h].op = "login" /\ request'[h].phase = "getOpen"
             /\ request'[h].challenge = a.challenge
  BY <1>4 DEF Login, Admitted, Becomes, TypeOK, Idle, OthersStay
<1>5. ASSUME NEW a \in signed, NEW m \in Challenges, CompleteMfa(h, a, m)
      PROVE  /\ OthersStay(h) /\ request[h] = Idle
             /\ request'[h].op = "mfa" /\ request'[h].phase = "factors"
             /\ request'[h].challenge = a.challenge /\ request'[h].mfa = m
  BY <1>5 DEF CompleteMfa, Admitted, Becomes, TypeOK, Idle, OthersStay
<1> QED  BY ONLY <1>1, <1>2, <1>3, <1>4, <1>5, Zenon

LEMMA FindFactorMakes ==
  ASSUME TypeOK, NEW h \in Requests, FindFactor(h)
  PROVE  /\ OthersStay(h)
         /\ \/ /\ request'[h].phase = "selectFactor"
               /\ request'[h].factor \in Factors
               /\ factor[request'[h].factor] # "none"
               /\ Keeps(request[h], request'[h])
               /\ UNCHANGED revoked
            \/ /\ request[h].op = "register"
               /\ \A f \in Factors : factor[f] = "none"
               /\ request'[h].phase = "insertFactor"
               /\ Keeps(request[h], request'[h])
               /\ UNCHANGED revoked
            \/ /\ request[h].op = "revoke"
               /\ \A f \in Factors : factor[f] = "none"
               /\ request'[h] = Idle
               /\ revoked' = revoked \union {request[h].key}
<1> DEFINE q == request[h]
           there == {f \in Factors : factor[f] # "none"}
<1>1. q \in Request
  BY DEF TypeOK
<1>2. ASSUME NEW f \in there,
             Becomes(h, [q EXCEPT !.phase = "selectFactor", !.factor = f])
      PROVE  /\ OthersStay(h)
             /\ request'[h].phase = "selectFactor"
             /\ request'[h].factor = f
             /\ Keeps(q, request'[h])
  <2> DEFINE r == [q EXCEPT !.phase = "selectFactor", !.factor = f]
  <2>1. r.phase = "selectFactor" /\ r.factor = f /\ Keeps(q, r)
    BY <1>1 DEF Request, Keeps
  <2> HIDE DEF r
  <2>2. request'[h] = r /\ OthersStay(h)
    BY <1>2, BecomesMakes DEF r
  <2> QED  BY <2>1, <2>2
<1>3. revoked' = IF there = {} /\ q.op = "revoke"
                 THEN revoked \union {q.key} ELSE revoked
  BY DEF FindFactor
<1>4. CASE there # {}
  <2>1. PICK f \in there :
          Becomes(h, [q EXCEPT !.phase = "selectFactor", !.factor = f])
    BY <1>4 DEF FindFactor
  <2> QED  BY <1>2, <1>3, <1>4, <2>1
<1>5. CASE there = {} /\ q.op = "register" /\ Goes(h, "insertFactor")
  BY <1>3, <1>5, GoesMakes
<1>6. CASE there = {} /\ q.op = "revoke" /\ Ends(h)
  BY <1>3, <1>6, EndsMakes
<1> QED  BY <1>4, <1>5, <1>6 DEF FindFactor

LEMMA SelectFactorMakes ==
  ASSUME TypeOK, NEW h \in Requests, SelectFactor(h)
  PROVE  /\ OthersStay(h)
         /\ Keeps(request[h], request'[h])
         /\ request'[h].phase = "updateFactor"
         /\ request'[h].factor = request[h].factor
         /\ request'[h].flips =
              (factor[request[h].factor] # Wanted(request[h]))
<1> DEFINE q == request[h]
           flips == factor[q.factor] # Wanted(q)
           r == [q EXCEPT !.phase = "updateFactor", !.flips = flips]
<1>1. q \in Request
  BY DEF TypeOK
<1> HIDE DEF flips
<1>2. /\ Keeps(q, r) /\ r.phase = "updateFactor" /\ r.factor = q.factor
      /\ r.flips = flips
  BY <1>1 DEF Request, Keeps
<1>3. request'[h] = r /\ OthersStay(h)
  BY BecomesMakes DEF SelectFactor, flips
<1> HIDE DEF r
<1> QED  BY <1>2, <1>3 DEF flips

LEMMA UpdateFactorMakes ==
  ASSUME TypeOK, NEW h \in Requests, UpdateFactor(h)
  PROVE  /\ OthersStay(h)
         /\ \/ /\ request[h].op = "register"
               /\ request'[h].phase = "dropPending"
               /\ Keeps(request[h], request'[h])
               /\ UNCHANGED revoked
            \/ /\ request[h].op = "revoke"
               /\ request'[h] = Idle
               /\ revoked' = revoked \union {request[h].key}
<1> DEFINE q == request[h]
           r == [q EXCEPT !.phase = "dropPending", !.factor = 0,
                          !.flips = FALSE]
<1>1. q \in Request
  BY DEF TypeOK
<1>2. Keeps(q, r) /\ r.phase = "dropPending"
  BY <1>1 DEF Request, Keeps
<1> HIDE DEF r
<1>3. CASE q.op = "register" /\ Becomes(h, r) /\ UNCHANGED revoked
  BY <1>2, <1>3, BecomesMakes
<1>4. CASE /\ q.op = "revoke" /\ Ends(h)
           /\ revoked' = revoked \union {q.key}
  BY <1>4, EndsMakes
<1> QED  BY <1>3, <1>4 DEF UpdateFactor, r

LEMMA FindKeyMakes ==
  ASSUME TypeOK, NEW h \in Requests, FindKey(h)
  PROVE  /\ OthersStay(h)
         /\ \/ request'[h] = Idle
            \/ /\ Usable(request[h].key)
               /\ Fresh(cred[request[h].key].counter, request[h].count)
               /\ request'[h].phase = "select"
               /\ Keeps(request[h], request'[h])
               /\ request'[h].entity =
                    [cred[request[h].key] EXCEPT !.counter = request[h].count]
<1> DEFINE q == request[h]
           e == [cred[q.key] EXCEPT !.counter = q.count]
           r == [q EXCEPT !.phase = "select", !.entity = e]
<1>1. q \in Request
  BY DEF TypeOK
<1> HIDE DEF e
<1>2. Keeps(q, r) /\ r.phase = "select" /\ r.entity = e
  BY <1>1 DEF Request, Keeps
<1> HIDE DEF r
<1>3. CASE /\ Usable(q.key) /\ Fresh(cred[q.key].counter, q.count)
           /\ Becomes(h, r)
  BY <1>2, <1>3, BecomesMakes DEF e
<1>4. CASE Ends(h)
  BY <1>4, EndsMakes
<1> QED  BY <1>3, <1>4 DEF FindKey, r, e

LEMMA SelectMakes ==
  ASSUME TypeOK, NEW h \in Requests, Select(h)
  PROVE  /\ OthersStay(h)
         /\ Keeps(request[h], request'[h])
         /\ request'[h].phase = "update"
         /\ request'[h].entity = request[h].entity
         /\ request'[h].columns =
              {c \in {"status", "counter"} :
                 request[h].entity[c] # cred[request[h].key][c]
                   \/ (c = "counter" /\ request[h].op # "revoke")}
<1> DEFINE q == request[h]
           cs == {c \in {"status", "counter"} :
                    q.entity[c] # cred[q.key][c]
                      \/ (c = "counter" /\ q.op # "revoke")}
           r == [q EXCEPT !.phase = "update", !.columns = cs]
<1>1. q \in Request
  BY DEF TypeOK
<1>2. Becomes(h, r)
  BY DEF Select
<1> HIDE DEF cs
<1>3. /\ Keeps(q, r) /\ r.phase = "update" /\ r.entity = q.entity
      /\ r.columns = cs
  BY <1>1 DEF Request, Keeps
<1>4. request'[h] = r /\ OthersStay(h)
  BY <1>2, BecomesMakes
<1> HIDE DEF r
<1> QED  BY <1>3, <1>4 DEF cs

LEMMA UpdateMakes ==
  ASSUME IInv, NEW h \in Requests, Update(h)
  PROVE  /\ OthersStay(h)
         /\ Keeps(request[h], request'[h])
         /\ request'[h].phase = IF request[h].op = "revoke" THEN "count"
                                ELSE "dropOpen"
         /\ request[h].key \in Keys
         /\ cred'[request[h].key] =
              Written(request[h], cred[request[h].key])
         /\ \A k \in Keys : k # request[h].key => cred'[k] = cred[k]
<1> DEFINE q == request[h]
           to == IF q.op = "revoke" THEN "count" ELSE "dropOpen"
           r == [q EXCEPT !.phase = to, !.entity = Absent, !.columns = {}]
<1>1. q \in Request /\ q.key \in Keys
  BY DEF Update, At, IInv, TypeOK, AllHeld, Held
<1>2. /\ cred'[q.key] = Written(q, cred[q.key])
      /\ \A k \in Keys : k # q.key => cred'[k] = cred[k]
  BY <1>1 DEF Update, IInv, TypeOK
<1>3. Becomes(h, r)
  BY DEF Update
<1> HIDE DEF to
<1>4. Keeps(q, r) /\ r.phase = to
  BY <1>1 DEF Request, Keeps
<1>5. request'[h] = r /\ OthersStay(h)
  BY <1>3, BecomesMakes DEF IInv
<1> HIDE DEF r
<1> QED  BY <1>1, <1>2, <1>4, <1>5 DEF to

LEMMA WayStep ==
  ASSUME AllOnTheirWay, NEW h \in Requests, OthersStay(h),
         OnItsWay(request'[h])
  PROVE  AllOnTheirWay'
<1> SUFFICES ASSUME NEW g \in Requests  PROVE OnItsWay(request[g])'
  BY DEF AllOnTheirWay
<1>1. OnItsWay(request'[g])
  BY DEF AllOnTheirWay, OthersStay
<1> QED  BY <1>1 DEF OnItsWay, Challenges

LEMMA IdleOnItsWay == OnItsWay(Idle)
BY DEF OnItsWay, Idle

LEMMA RequestWay ==
  ASSUME IInv, AllOnTheirWay, NEW h \in Requests, RequestNext(h)
  PROVE  AllOnTheirWay'
<1> DEFINE q == request[h]
           r == request'[h]
<1>1. TypeOK /\ q \in Request /\ OnItsWay(q) /\ (q = Idle => q.phase = "idle")
  BY DEF IInv, TypeOK, AllOnTheirWay, Idle
<1>2. SUFFICES OthersStay(h) /\ OnItsWay(r)
  BY WayStep
<1>3. ASSUME Ends(h)  PROVE OthersStay(h) /\ OnItsWay(r)
  BY <1>1, <1>3, EndsMakes, IdleOnItsWay
<1>4. CASE \/ CreateChallenge(h) \/ SaveRow(h) \/ Raise(h) \/ DropPending(h)
           \/ UseRow(h)
           \/ \E k \in Keys : FinishRegistration(h, k) \/ RevokeCredential(h, k)
  BY <1>1, <1>3, <1>4, FirstSteps
     DEF SaveRow, Raise, DropPending, UseRow, OnItsWay
<1>5. CASE \E a \in signed :
             Login(h, a) \/ \E m \in Challenges : CompleteMfa(h, a, m)
  <2>1. \A a \in signed : a.challenge \in Challenges
    BY DEF IInv, TypeOK, Assertion
  <2> QED  BY <1>1, <1>5, <2>1, FirstSteps DEF OnItsWay
<1>6. ASSUME NEW found, NEW phase, Reads(h, found, phase),
             <<q.phase, phase>> \in
               {<<"getPending", "findExisting">>, <<"findExisting", "insert">>,
                <<"factors", "findRow">>, <<"factors", "countKeys">>,
                <<"countKeys", "findRow">>, <<"findRow", "getOpen">>,
                <<"getOpen", "findKey">>}
      PROVE  OthersStay(h) /\ OnItsWay(r)
  <2>1. CASE r = Idle
    BY <1>1, <1>6, <2>1, ReadsMakes, IdleOnItsWay
  <2>2. CASE Keeps(q, r) /\ r.phase = phase
    BY <1>1, <1>6, <2>2, ReadsMakes DEF OnItsWay, Keeps, Idle
  <2> QED  BY <1>1, <1>6, <2>1, <2>2, ReadsMakes
<1>7. CASE \/ GetPending(h) \/ FindExisting(h) \/ FindOn(h) \/ CountKeys(h)
           \/ FindRow(h) \/ GetOpen(h)
  <2>1. CASE GetPending(h)
    BY <1>6, <2>1 DEF GetPending, At
  <2>2. CASE FindExisting(h)
    <3>1. PICK found : Reads(h, found, "insert") /\ q.phase = "findExisting"
      BY <2>2 DEF FindExisting, At
    <3> QED  BY <1>6, <3>1
  <2>3. CASE FindOn(h)
    <3>1. /\ Reads(h, TRUE, "findRow") \/ Reads(h, TRUE, "countKeys")
          /\ q.phase = "factors"
      BY <2>3 DEF FindOn, At
    <3> QED  BY <1>6, <3>1
  <2>4. CASE CountKeys(h) \/ FindRow(h) \/ GetOpen(h)
    BY <1>6, <2>4 DEF CountKeys, FindRow, GetOpen, At
  <2> QED  BY <1>7, <2>1, <2>2, <2>3, <2>4
<1>8. ASSUME NEW phase, Goes(h, phase),
             <<q.phase, phase>> \in
               {<<"setOpen", "saveRow">>, <<"insert", "findFactor">>,
                <<"insertFactor", "dropPending">>, <<"count", "findFactor">>,
                <<"dropOpen", "useRow">>},
             phase = "useRow" => q.op = "mfa"
      PROVE  OthersStay(h) /\ OnItsWay(r)
  BY <1>1, <1>8, GoesMakes DEF OnItsWay, Keeps, Idle
<1>9. CASE SetOpen(h) \/ Insert(h) \/ InsertFactor(h) \/ CountEnabled(h)
           \/ DropOpen(h)
  <2>1. CASE SetOpen(h)
    BY <1>8, <2>1 DEF SetOpen, At
  <2>2. CASE Insert(h)
    BY <1>3, <1>8, <2>2 DEF Insert, At
  <2>3. CASE InsertFactor(h)
    <3>1. Goes(h, "dropPending") /\ q.phase = "insertFactor"
      BY <2>3 DEF InsertFactor, At
    <3> QED  BY <1>8, <3>1
  <2>4. CASE CountEnabled(h)
    BY <1>3, <1>8, <2>4 DEF CountEnabled, At
  <2>5. CASE DropOpen(h)
    <3>1. CASE Ends(h)
      BY <1>3, <3>1
    <3>2. CASE Goes(h, "useRow") /\ q.op = "mfa" /\ q.phase = "dropOpen"
      BY <1>8, <3>2
    <3> QED  BY <2>5, <3>1, <3>2 DEF DropOpen, At
  <2> QED  BY <1>9, <2>1, <2>2, <2>3, <2>4, <2>5
<1>10. CASE FindFactor(h)
  BY <1>1, <1>10, FindFactorMakes, IdleOnItsWay
     DEF FindFactor, At, OnItsWay, Keeps, Idle
<1>11. CASE SelectFactor(h)
  BY <1>1, <1>11, SelectFactorMakes DEF SelectFactor, At, OnItsWay, Keeps, Idle
<1>12. CASE UpdateFactor(h)
  BY <1>1, <1>12, UpdateFactorMakes, IdleOnItsWay
     DEF UpdateFactor, At, OnItsWay, Keeps, Idle
<1>13. CASE FindKey(h)
  BY <1>1, <1>13, FindKeyMakes, IdleOnItsWay
     DEF FindKey, At, OnItsWay, Keeps, Idle
<1>14. CASE Select(h)
  BY <1>1, <1>14, SelectMakes DEF Select, At, OnItsWay, Keeps, Idle
<1>15. CASE Update(h)
  BY <1>1, <1>15, UpdateMakes DEF Update, At, OnItsWay, Keeps, Idle
<1>16. \/ CreateChallenge(h) \/ SaveRow(h) \/ Raise(h) \/ DropPending(h)
       \/ UseRow(h)
       \/ \E k \in Keys : FinishRegistration(h, k) \/ RevokeCredential(h, k)
       \/ \E a \in signed :
             Login(h, a) \/ \E m \in Challenges : CompleteMfa(h, a, m)
       \/ GetPending(h) \/ FindExisting(h) \/ FindOn(h) \/ CountKeys(h)
       \/ FindRow(h) \/ GetOpen(h) \/ SetOpen(h) \/ Insert(h)
       \/ InsertFactor(h) \/ CountEnabled(h) \/ DropOpen(h) \/ FindFactor(h)
       \/ SelectFactor(h) \/ UpdateFactor(h) \/ FindKey(h) \/ Select(h)
       \/ Update(h)
  BY DEF RequestNext
<1> QED
  BY <1>4, <1>5, <1>7, <1>9, <1>10, <1>11, <1>12, <1>13, <1>14, <1>15, <1>16

\* What no request does: challenges are issued and expire, authenticators
\* create passkeys and sign.
Outside ==
  \/ BeginRegistration \/ BeginAuthentication \/ ChallengeExpires
  \/ \E k \in Keys : Attest(k) \/ \E c \in Challenges : Sign(k, c)
  \/ UNCHANGED vars

LEMMA NextCases ==
  [Next]_vars => Outside \/ \E h \in Requests : RequestNext(h)
BY DEF Next, Outside

LEMMA OutsideLeaves ==
  Outside => UNCHANGED <<cred, factor, request, faults, history>>
BY DEF Outside, BeginRegistration, BeginAuthentication, ChallengeExpires,
       Attest, Sign, vars, store, history

LEMMA NextWay == IInv /\ AllOnTheirWay /\ [Next]_vars => AllOnTheirWay'
<1> SUFFICES ASSUME IInv, AllOnTheirWay, [Next]_vars  PROVE AllOnTheirWay'
  OBVIOUS
<1>1. CASE Outside
  BY <1>1, OutsideLeaves DEF AllOnTheirWay, OnItsWay, Challenges
<1>2. CASE \E h \in Requests : RequestNext(h)
  BY <1>2, RequestWay
<1> QED  BY <1>1, <1>2, NextCases

LEMMA InitWay == Init => AllOnTheirWay
BY IdleOnItsWay DEF Init, AllOnTheirWay

\* The steps that write no row of a passkey or of the factor, and decide
\* nothing about them.
LEMMA QuietSteps ==
  ASSUME IInv, AllOnTheirWay, NEW h \in Requests, RequestNext(h)
  PROVE  \/ Insert(h) \/ FindFactor(h) \/ InsertFactor(h) \/ SelectFactor(h)
         \/ UpdateFactor(h) \/ CountEnabled(h) \/ FindKey(h) \/ Select(h)
         \/ Update(h) \/ \E k \in Keys : RevokeCredential(h, k)
         \/ /\ OthersStay(h)
            /\ request'[h].phase \notin
                 {"select", "update", "count", "findFactor", "insertFactor",
                  "selectFactor", "updateFactor", "dropPending"}
            /\ UNCHANGED <<cred, factor, revoked>>
            /\ \/ faults' # 0
               \/ /\ UNCHANGED faults
                  /\ request[h].phase \notin
                       {"count", "findFactor", "selectFactor", "updateFactor"}
<1> DEFINE q == request[h]
           r == request'[h]
           quiet ==
             /\ OthersStay(h)
             /\ r.phase \notin
                  {"select", "update", "count", "findFactor", "insertFactor",
                   "selectFactor", "updateFactor", "dropPending"}
             /\ UNCHANGED <<cred, factor, revoked>>
             /\ \/ faults' # 0
                \/ /\ UNCHANGED faults
                   /\ q.phase \notin
                        {"count", "findFactor", "selectFactor", "updateFactor"}
<1>1. TypeOK /\ (q = Idle => q.phase = "idle") /\ Idle.phase = "idle"
  BY DEF IInv, Idle
<1>2. CASE CreateChallenge(h) \/ \E k \in Keys : FinishRegistration(h, k)
  <2>1. UNCHANGED <<cred, factor, revoked, faults>>
    BY <1>2 DEF CreateChallenge, FinishRegistration, Begins, store, history
  <2> QED  BY <1>1, <1>2, <2>1, FirstSteps
<1>3. CASE \E a \in signed :
             Login(h, a) \/ \E m \in Challenges : CompleteMfa(h, a, m)
  <2>1. UNCHANGED <<cred, factor, revoked, faults>>
    BY <1>3 DEF Login, CompleteMfa, store, history
  <2> QED  BY <1>1, <1>3, <2>1, FirstSteps
<1>4. CASE SetOpen(h) \/ DropOpen(h)
  <2>1. /\ UNCHANGED <<cred, factor, revoked, faults>>
        /\ Goes(h, "saveRow") \/ Goes(h, "useRow") \/ Ends(h)
        /\ q.phase \in {"setOpen", "dropOpen"}
    BY <1>4 DEF SetOpen, DropOpen, At, history
  <2>2. CASE Ends(h)
    BY <1>1, <2>1, <2>2, EndsMakes
  <2>3. CASE Goes(h, "saveRow") \/ Goes(h, "useRow")
    <3>1. OthersStay(h) /\ r.phase \in {"saveRow", "useRow"}
      BY <1>1, <2>3, GoesMakes
    <3> QED  BY <2>1, <3>1
  <2> QED  BY <2>1, <2>2, <2>3
<1>5. CASE SaveRow(h) \/ DropPending(h) \/ UseRow(h) \/ Raise(h)
  <2>1. /\ UNCHANGED <<cred, factor, revoked>>
        /\ Ends(h)
        /\ \/ UNCHANGED faults /\ q.phase \in {"saveRow", "dropPending", "useRow"}
           \/ faults' = faults + 1
    BY <1>5 DEF SaveRow, DropPending, UseRow, Raise, At, history, store
  <2>2. faults' = faults + 1 => faults' # 0
    BY DEF IInv, TypeOK
  <2> QED  BY <1>1, <2>1, <2>2, EndsMakes
<1>6. ASSUME NEW found, NEW phase, Reads(h, found, phase),
             phase \in {"findExisting", "insert", "findRow", "countKeys",
                        "getOpen", "findKey"},
             q.phase \in {"getPending", "findExisting", "factors",
                          "countKeys", "findRow", "getOpen"}
      PROVE  quiet
  <2>1. UNCHANGED <<cred, factor, revoked, faults>>
    BY <1>6 DEF Reads, store, history
  <2>2. OthersStay(h) /\ (r = Idle \/ r.phase = phase)
    BY <1>1, <1>6, ReadsMakes
  <2> QED  BY <1>1, <1>6, <2>1, <2>2
<1>7. CASE GetPending(h) \/ FindExisting(h)
  <2>1. CASE GetPending(h)
    <3>1. PICK found : Reads(h, found, "findExisting") /\ q.phase = "getPending"
      BY <2>1 DEF GetPending, At
    <3> QED  BY <1>6, <3>1
  <2>2. CASE FindExisting(h)
    <3>1. PICK found : Reads(h, found, "insert") /\ q.phase = "findExisting"
      BY <2>2 DEF FindExisting, At
    <3> QED  BY <1>6, <3>1
  <2> QED  BY <1>7, <2>1, <2>2
<1>8. CASE FindOn(h) \/ CountKeys(h)
  <2>1. CASE FindOn(h)
    <3>1. /\ Reads(h, TRUE, "findRow") \/ Reads(h, TRUE, "countKeys")
          /\ q.phase = "factors"
      BY <2>1 DEF FindOn, At
    <3> QED  BY <1>6, <3>1
  <2>2. CASE CountKeys(h)
    <3>1. PICK found : Reads(h, found, "findRow") /\ q.phase = "countKeys"
      BY <2>2 DEF CountKeys, At
    <3> QED  BY <1>6, <3>1
  <2> QED  BY <1>8, <2>1, <2>2
<1>9. CASE FindRow(h) \/ GetOpen(h)
  <2>1. CASE FindRow(h)
    <3>1. PICK found : Reads(h, found, "getOpen") /\ q.phase = "findRow"
      BY <2>1 DEF FindRow, At
    <3> QED  BY <1>6, <3>1
  <2>2. CASE GetOpen(h)
    <3>1. PICK found : Reads(h, found, "findKey") /\ q.phase = "getOpen"
      BY <2>2 DEF GetOpen, At
    <3> QED  BY <1>6, <3>1
  <2> QED  BY <1>9, <2>1, <2>2
<1> QED
  BY <1>2, <1>3, <1>4, <1>5, <1>7, <1>8, <1>9 DEF RequestNext

-----------------------------------------------------------------------------
(* Revocations, where no login overlaps them                               *)

AtMostOne ==
  \A g, h \in Requests : request[g] # Idle /\ request[h] # Idle => g = h

OnlyOps(ops) == \A h \in Requests : request[h].op \in ops \union {"none"}

Saves(r) == r.phase \in {"select", "update"}

\* r has saved its revocation, and is not answered yet.
HasRevoked(r) ==
  /\ r.op = "revoke"
  /\ r.phase \in {"count", "findFactor", "selectFactor", "updateFactor"}

\* A revocation writes "revoked" or finds it written; a login saves the row
\* as the enabled one that it is.
SaveHeld(r, rows) ==
  /\ Saves(r) /\ r.op = "revoke" => r.entity.status = "revoked"
  /\ Saves(r) /\ r.op # "revoke" =>
       rows[r.key].status = "enabled" /\ r.entity.status = "enabled"
  /\ r.op = "revoke" /\ r.phase = "update" /\ "status" \notin r.columns =>
       rows[r.key].status = "revoked"
  /\ HasRevoked(r) => rows[r.key].status = "revoked"

RevokeInv ==
  /\ RevokedStaysRevoked
  /\ \A h \in Requests : SaveHeld(request[h], cred)

LEMMA OthersRest ==
  ASSUME AtMostOne, AtMostOne', NEW h \in Requests, OthersStay(h),
         request[h] # Idle \/ request'[h] # Idle
  PROVE  \A g \in Requests \ {h} : request[g] = Idle /\ request'[g] = Idle
BY DEF AtMostOne, OthersStay

LEMMA RowsLeft ==
  ASSUME RevokeInv, NEW h \in Requests, OthersStay(h), UNCHANGED cred,
         SaveHeld(request'[h], cred),
         \A k \in revoked' : k \in revoked \/ cred[k].status = "revoked"
  PROVE  RevokeInv'
<1>1. ASSUME NEW g \in Requests  PROVE SaveHeld(request'[g], cred)
  BY DEF RevokeInv, OthersStay
<1>2. \A g \in Requests : SaveHeld(request[g], cred)'
  BY <1>1 DEF SaveHeld, Saves, HasRevoked
<1> QED  BY <1>2 DEF RevokeInv, RevokedStaysRevoked

\* A row that is written: nobody else relies on its being enabled.
LEMMA RowWritten ==
  ASSUME IInv, RevokeInv, NEW h \in Requests, OthersStay(h),
         SaveHeld(request'[h], cred'), UNCHANGED revoked,
         \A k \in Keys :
           cred[k].status = "revoked" => cred'[k].status = "revoked",
         \A g \in Requests \ {h} :
           Saves(request[g]) => request[g].op = "revoke"
  PROVE  RevokeInv'
<1>1. ASSUME NEW g \in Requests  PROVE SaveHeld(request'[g], cred')
  <2>1. CASE g = h
    BY <2>1
  <2>2. CASE g # h
    <3>1. request'[g] = request[g] /\ SaveHeld(request[g], cred)
          /\ (Saves(request[g]) => request[g].op = "revoke")
      BY <2>2 DEF RevokeInv, OthersStay
    <3>2. Saves(request[g]) \/ HasRevoked(request[g]) => request[g].key \in Keys
      BY DEF IInv, AllHeld, Held, Saves, HasRevoked
    <3> QED  BY <3>1, <3>2 DEF SaveHeld, Saves
  <2> QED  BY <2>1, <2>2
<1>2. \A g \in Requests : SaveHeld(request[g], cred)'
  BY <1>1 DEF SaveHeld, Saves, HasRevoked
<1>3. revoked \subseteq Keys
  BY DEF IInv, TypeOK
<1> QED  BY <1>2, <1>3 DEF RevokeInv, RevokedStaysRevoked

LEMMA NobodyElseSaves ==
  ASSUME IInv, AllOnTheirWay, NEW h \in Requests, OthersStay(h),
         request[h] # Idle,
         \/ AtMostOne
         \/ OnlyOps({"register", "revoke"})
  PROVE  \A g \in Requests \ {h} :
           Saves(request[g]) => request[g].op = "revoke"
<1> SUFFICES ASSUME NEW g \in Requests, g # h, Saves(request[g])
             PROVE  request[g].op = "revoke"
  OBVIOUS
<1>1. OnItsWay(request[g]) /\ request[g].op \in Operations \union {"none"}
  BY DEF AllOnTheirWay, IInv, TypeOK, Request
<1>2. CASE AtMostOne
  <2>1. request[g] # Idle
    BY DEF Saves, Idle
  <2> QED  BY <1>2, <2>1 DEF AtMostOne
<1>3. CASE OnlyOps({"register", "revoke"})
  BY <1>1, <1>3 DEF OnlyOps, OnItsWay, Saves, Idle
<1> QED  BY <1>2, <1>3

LEMMA RequestRevokes ==
  ASSUME IInv, AllOnTheirWay, RevokeInv, NEW h \in Requests, RequestNext(h),
         \/ AtMostOne
         \/ OnlyOps({"register", "revoke"})
  PROVE  RevokeInv'
<1> DEFINE q == request[h]
           r == request'[h]
<1>1. /\ TypeOK /\ q \in Request /\ OnItsWay(q) /\ SaveHeld(q, cred)
      /\ Held(q, cred)
  BY DEF IInv, TypeOK, AllOnTheirWay, RevokeInv, AllHeld
<1>2. SaveHeld(Idle, cred)
  BY DEF SaveHeld, Saves, HasRevoked, Idle
<1>3. CASE Insert(h)
  <2>1. CASE Ends(h) /\ UNCHANGED <<cred, revoked>>
    BY <1>1, <1>2, <2>1, EndsMakes, RowsLeft
  <2>2. CASE /\ cred[q.key] = Absent /\ Goes(h, "findFactor")
             /\ cred' = [cred EXCEPT ![q.key].status = "enabled"]
             /\ UNCHANGED revoked
    <3>1. OthersStay(h) /\ r.phase = "findFactor" /\ r.op = "register"
          /\ q # Idle
      BY <1>1, <1>3, <2>2, GoesMakes DEF Keeps, Insert, At, OnItsWay, Idle, Request, Operations
    <3>2. SaveHeld(r, cred')
      BY <3>1 DEF SaveHeld, Saves, HasRevoked
    <3>3. \A k \in Keys :
            cred[k].status = "revoked" => cred'[k].status = "revoked"
      BY <2>2 DEF Absent, IInv, TypeOK
    <3> QED  BY <2>2, <3>1, <3>2, <3>3, NobodyElseSaves, RowWritten
  <2> QED  BY <1>3, <2>1, <2>2 DEF Insert, history
<1>4. CASE FindFactor(h)
  <2>1. UNCHANGED cred /\ q.phase = "findFactor"
    BY <1>4 DEF FindFactor, store, At
  <2>2. OthersStay(h) /\ SaveHeld(r, cred)
    BY <1>1, <1>2, <1>4, <2>1, FindFactorMakes
       DEF SaveHeld, Saves, HasRevoked, Keeps
  <2>3. \A k \in revoked' : k \in revoked \/ cred[k].status = "revoked"
    BY <1>1, <1>4, <2>1, FindFactorMakes DEF SaveHeld, HasRevoked
  <2> QED  BY <2>1, <2>2, <2>3, RowsLeft
<1>5. CASE InsertFactor(h)
  <2>1. UNCHANGED <<cred, revoked>> /\ Goes(h, "dropPending")
    BY <1>5 DEF InsertFactor, history
  <2>2. OthersStay(h) /\ SaveHeld(r, cred)
    BY <1>1, <2>1, GoesMakes DEF SaveHeld, Saves, HasRevoked
  <2> QED  BY <2>1, <2>2, RowsLeft
<1>6. CASE SelectFactor(h)
  <2>1. UNCHANGED <<cred, revoked>> /\ q.phase = "selectFactor"
    BY <1>6 DEF SelectFactor, store, history, At
  <2>2. OthersStay(h) /\ SaveHeld(r, cred)
    BY <1>1, <1>6, <2>1, SelectFactorMakes
       DEF SaveHeld, Saves, HasRevoked, Keeps
  <2> QED  BY <2>1, <2>2, RowsLeft
<1>7. CASE UpdateFactor(h)
  <2>1. UNCHANGED cred /\ q.phase = "updateFactor"
    BY <1>7 DEF UpdateFactor, At
  <2>2. OthersStay(h) /\ SaveHeld(r, cred)
    BY <1>1, <1>2, <1>7, <2>1, UpdateFactorMakes
       DEF SaveHeld, Saves, HasRevoked, Keeps
  <2>3. \A k \in revoked' : k \in revoked \/ cred[k].status = "revoked"
    BY <1>1, <1>7, <2>1, UpdateFactorMakes DEF SaveHeld, HasRevoked
  <2> QED  BY <2>1, <2>2, <2>3, RowsLeft
<1>8. CASE CountEnabled(h)
  <2>1. UNCHANGED cred /\ q.phase = "count" /\ q.op = "revoke"
        /\ cred[q.key].status = "revoked"
    BY <1>1, <1>8 DEF CountEnabled, At, store, OnItsWay, Held, SaveHeld, HasRevoked
  <2>2. CASE Goes(h, "findFactor") /\ UNCHANGED revoked
    <3>1. OthersStay(h) /\ SaveHeld(r, cred)
      BY <1>1, <2>1, <2>2, GoesMakes DEF SaveHeld, Saves, HasRevoked, Keeps
    <3> QED  BY <2>1, <2>2, <3>1, RowsLeft
  <2>3. CASE Ends(h) /\ revoked' = revoked \union {q.key}
    BY <1>1, <1>2, <2>1, <2>3, EndsMakes, RowsLeft
  <2> QED  BY <1>8, <2>2, <2>3 DEF CountEnabled
<1>9. CASE FindKey(h)
  <2>1. UNCHANGED <<cred, revoked>> /\ q.phase = "findKey" /\ q.key \in Keys
    BY <1>1, <1>9 DEF FindKey, At, store, history, Held
  <2>2. cred[q.key] \in Credential
    BY <1>1, <2>1 DEF TypeOK
  <2>3. OthersStay(h) /\ SaveHeld(r, cred)
    BY <1>1, <1>2, <1>9, <2>1, <2>2, FindKeyMakes
       DEF SaveHeld, Saves, HasRevoked, Keeps, Usable, OnItsWay, Credential
  <2> QED  BY <2>1, <2>3, RowsLeft
<1>10. CASE Select(h)
  <2>1. UNCHANGED <<cred, revoked>> /\ q.phase = "select"
    BY <1>10 DEF Select, At, store, history
  <2>2. "status" \notin r.columns => q.entity.status = cred[q.key].status
    BY <1>1, <1>10, SelectMakes
  <2>3. OthersStay(h) /\ SaveHeld(r, cred)
    BY <1>1, <1>10, <2>1, <2>2, SelectMakes
       DEF SaveHeld, Saves, HasRevoked, Keeps
  <2> QED  BY <2>1, <2>3, RowsLeft
<1>11. CASE Update(h)
  <2>1. UNCHANGED revoked /\ q.phase = "update" /\ q # Idle
    BY <1>11 DEF Update, At, history, Idle
  <2>2. /\ OthersStay(h) /\ Keeps(q, r)
        /\ r.phase = IF q.op = "revoke" THEN "count" ELSE "dropOpen"
        /\ cred'[q.key] = Written(q, cred[q.key])
        /\ q.key \in Keys
        /\ \A k \in Keys : k # q.key => cred'[k] = cred[k]
    BY <1>11, UpdateMakes
  <2>3. cred'[q.key].status =
          IF "status" \in q.columns THEN q.entity.status
          ELSE cred[q.key].status
    BY <2>2 DEF Written
  <2>4. cred[q.key].status = "revoked" => cred'[q.key].status = "revoked"
    BY <1>1, <2>1, <2>3 DEF SaveHeld, Saves
  <2>5. \A k \in Keys : cred[k].status = "revoked" => cred'[k].status = "revoked"
    BY <2>2, <2>4
  <2>6. SaveHeld(r, cred')
    BY <1>1, <2>1, <2>2, <2>3 DEF SaveHeld, Saves, HasRevoked, Keeps
  <2> QED
    BY <2>1, <2>2, <2>5, <2>6, NobodyElseSaves, RowWritten
<1>12. CASE \E k \in Keys : RevokeCredential(h, k)
  <2>1. PICK k \in Keys : RevokeCredential(h, k)
    BY <1>12
  <2>2. UNCHANGED <<cred, revoked>> /\ cred[k] \in Credential
    BY <1>1, <2>1 DEF RevokeCredential, store, history, TypeOK
  <2>3. OthersStay(h) /\ SaveHeld(r, cred)
    BY <1>1, <2>1, <2>2, FirstSteps DEF SaveHeld, Saves, HasRevoked, Credential
  <2> QED  BY <2>2, <2>3, RowsLeft
<1>13. CASE /\ OthersStay(h) /\ UNCHANGED <<cred, revoked>>
            /\ ~Saves(r) /\ ~HasRevoked(r)
  <2>1. SaveHeld(r, cred)
    BY <1>13 DEF SaveHeld, Saves
  <2>2. \A k \in revoked' : k \in revoked
    BY <1>13
  <2> QED  BY <1>13, <2>1, <2>2, RowsLeft
<1> QED
  BY <1>3, <1>4, <1>5, <1>6, <1>7, <1>8, <1>9, <1>10, <1>11, <1>12, <1>13,
     QuietSteps DEF Saves, HasRevoked

-----------------------------------------------------------------------------
(* The factor, where no registration overlaps                              *)

On == \E f \in Factors : factor[f] = "on"

\* What a request relies on.  There is one row of the factor, since it is
\* inserted when there is none.
FactorHeld(r) ==
  /\ r.phase \in {"selectFactor", "updateFactor"} =>
       r.factor = 1 /\ r.factor \in Factors /\ factor[r.factor] # "none"
  /\ r.op = "revoke" /\ r.phase = "updateFactor" /\ ~r.flips =>
       factor[1] # "on"
  /\ r.phase = "insertFactor" => \A f \in Factors : factor[f] = "none"
  /\ Inserted(r) => cred[r.key].status = "enabled"
  /\ Saves(r) /\ r.op # "revoke" => r.entity.status = "enabled"

OneRow == \A f \in Factors : f # 1 => factor[f] = "none"

\* A factor that is on has a passkey, or a revocation is about to see to it.
SwitchedOff ==
  faults = 0 /\ On /\ Enabled = {} => \E h \in Requests : HasRevoked(request[h])

FactorInv ==
  OneRow /\ SwitchedOff /\ \A h \in Requests : FactorHeld(request[h])

LEMMA IdleFactor == ~HasRevoked(Idle) /\ FactorHeld(Idle)
BY DEF HasRevoked, FactorHeld, Inserted, Saves, Idle

\* Only Keys have rows that count.
LEMMA EnabledStays ==
  ASSUME \A k \in Keys : cred[k].status = "enabled" => cred'[k].status = "enabled"
  PROVE  Enabled' = {} => Enabled = {}
BY DEF Enabled

\* The factor's rows stay, and no passkey that was enabled is lost to those
\* who registered it.
LEMMA FactorLeft ==
  ASSUME FactorInv, NEW h \in Requests, OthersStay(h), UNCHANGED factor,
         \A g \in Requests \ {h} :
           Inserted(request[g]) =>
             cred'[request[g].key] = cred[request[g].key],
         FactorHeld(request[h])', SwitchedOff'
  PROVE  FactorInv'
<1>1. ASSUME NEW g \in Requests  PROVE FactorHeld(request[g])'
  <2>1. CASE g = h
    BY <2>1
  <2>2. CASE g # h
    <3>1. request'[g] = request[g] /\ FactorHeld(request[g])
          /\ (Inserted(request[g]) =>
                cred'[request[g].key] = cred[request[g].key])
      BY <2>2 DEF FactorInv, OthersStay
    <3> QED  BY <3>1 DEF FactorHeld, Saves, Inserted, Factors
  <2> QED  BY <2>1, <2>2
<1>2. OneRow'
  BY DEF FactorInv, OneRow, Factors
<1> QED  BY <1>1, <1>2 DEF FactorInv

\* The witness of SwitchedOff stays, unless it is the one that moves.
LEMMA StillSeenTo ==
  ASSUME FactorInv, NEW h \in Requests, OthersStay(h),
         On' => On, Enabled' = {} => Enabled = {},
         faults' = 0 => faults = 0,
         HasRevoked(request[h]) =>
           HasRevoked(request'[h]) \/ ~(faults' = 0 /\ On' /\ Enabled' = {})
  PROVE  SwitchedOff'
<1> SUFFICES ASSUME faults' = 0, On', Enabled' = {}
             PROVE  \E g \in Requests : HasRevoked(request'[g])
  BY DEF SwitchedOff, HasRevoked
<1>1. PICK g \in Requests : HasRevoked(request[g])
  BY DEF FactorInv, SwitchedOff
<1> QED  BY <1>1 DEF OthersStay

LEMMA NobodyElseRegisters ==
  ASSUME IInv, AtMostOne \/ OnlyOps({"revoke", "login"}), NEW h \in Requests,
         request[h] # Idle
  PROVE  /\ \A g \in Requests \ {h} :
              ~Inserted(request[g]) /\ request[g].phase # "insertFactor"
         /\ request[h].op = "register" =>
              \A g \in Requests \ {h} : request[g] = Idle
<1>1. Idle.op = "none"
  BY DEF Idle
<1>2. ASSUME NEW g \in Requests \ {h}  PROVE request[g].op # "register"
  <2>1. CASE AtMostOne
    <3>1. request[g] = Idle
      BY <2>1 DEF AtMostOne
    <3> QED  BY <1>1, <3>1
  <2>2. CASE OnlyOps({"revoke", "login"})
    BY <2>2 DEF OnlyOps
  <2> QED  BY <2>1, <2>2
<1>3. ASSUME NEW g \in Requests \ {h}
      PROVE  ~Inserted(request[g]) /\ request[g].phase # "insertFactor"
  <2>1. Held(request[g], cred) /\ request[g].op # "register"
    BY <1>2 DEF IInv, AllHeld
  <2> QED  BY <2>1 DEF Held, Inserted
<1>4. ASSUME request[h].op = "register", NEW g \in Requests \ {h}
      PROVE  request[g] = Idle
  BY <1>4 DEF AtMostOne, OnlyOps
<1> QED  BY <1>3, <1>4

\* A row of the factor is written.  Those who have read it are switching it
\* off, as this request does, or this request is alone.
LEMMA FactorWritten ==
  ASSUME FactorInv, NEW h \in Requests, OthersStay(h), UNCHANGED cred,
         \A g \in Requests \ {h} :
           ~Inserted(request[g]) /\ request[g].phase # "insertFactor",
         \/ \A g \in Requests \ {h} : request[g] = Idle
         \/ factor[1] # "on" => factor'[1] # "on",
         \A f \in Factors : factor[f] # "none" => factor'[f] # "none",
         OneRow', FactorHeld(request[h])', SwitchedOff'
  PROVE  FactorInv'
<1>1. ASSUME NEW g \in Requests  PROVE FactorHeld(request[g])'
  <2>1. CASE g = h
    BY <2>1
  <2>2. CASE g # h
    <3>1. request'[g] = request[g] /\ FactorHeld(request[g])
          /\ ~Inserted(request[g]) /\ request[g].phase # "insertFactor"
      BY <2>2 DEF FactorInv, OthersStay
    <3>2. CASE request[g] = Idle
      BY <3>1, <3>2 DEF FactorHeld, Saves, Inserted, Factors, Idle
    <3>3. CASE factor[1] # "on" => factor'[1] # "on"
      BY <3>1, <3>3 DEF FactorHeld, Saves, Inserted, Factors
    <3> QED  BY <2>2, <3>2, <3>3
  <2> QED  BY <2>1, <2>2
<1> QED  BY <1>1 DEF FactorInv

LEMMA RequestFactor ==
  ASSUME IInv, AllOnTheirWay, FactorInv, NEW h \in Requests, RequestNext(h),
         AtMostOne \/ OnlyOps({"revoke", "login"})
  PROVE  FactorInv'
<1> DEFINE q == request[h]
           r == request'[h]
<1>1. /\ TypeOK /\ q \in Request /\ OnItsWay(q) /\ FactorHeld(q)
      /\ Held(q, cred) /\ (q = Idle => q.phase = "idle" /\ q.op = "none")
  BY DEF IInv, TypeOK, AllOnTheirWay, FactorInv, AllHeld, Idle
<1>2. ASSUME UNCHANGED <<cred, factor>>, OthersStay(h), FactorHeld(request[h])',
             faults' = 0 => faults = 0,
             \/ ~HasRevoked(q) \/ HasRevoked(r)
             \/ faults' # 0 \/ ~On \/ Enabled # {}
      PROVE  FactorInv'
  <2>1. (On <=> On') /\ Enabled' = Enabled
    BY <1>2 DEF On, Factors, Enabled
  <2>2. SwitchedOff'
    BY <1>2, <2>1, StillSeenTo
  <2> QED  BY <1>2, <2>2, FactorLeft
<1>3. FactorHeld(Idle) /\ (\A f \in Factors : f = 1 => 1 \in Factors)
  BY IdleFactor
<1>4. CASE FindFactor(h)
  <2>1. UNCHANGED <<cred, factor, faults>> /\ q.phase = "findFactor"
    BY <1>4 DEF FindFactor, store, At
  <2>2. OthersStay(h)
    BY <1>1, <1>4, FindFactorMakes
  <2>3. CASE /\ r.phase = "selectFactor" /\ Keeps(q, r)
             /\ r.factor \in Factors /\ factor[r.factor] # "none"
    <3>1. r.factor = 1
      BY <2>3 DEF FactorInv, OneRow
    <3>2. FactorHeld(request[h])'
      BY <1>1, <2>1, <2>3, <3>1
         DEF FactorHeld, Inserted, Saves, Keeps, Factors
    <3>3. HasRevoked(q) => HasRevoked(r)
      BY <2>3 DEF HasRevoked, Keeps
    <3> QED  BY <1>2, <2>1, <2>2, <3>2, <3>3
  <2>4. CASE /\ q.op = "register" /\ \A f \in Factors : factor[f] = "none"
             /\ r.phase = "insertFactor" /\ Keeps(q, r)
    <3>1. FactorHeld(request[h])'
      BY <1>1, <2>1, <2>4 DEF FactorHeld, Inserted, Saves, Keeps, Factors
    <3>2. ~HasRevoked(q)
      BY <2>4 DEF HasRevoked
    <3> QED  BY <1>2, <2>1, <2>2, <3>1, <3>2
  <2>5. CASE (\A f \in Factors : factor[f] = "none") /\ r = Idle
    <3>1. ~On
      BY <2>5 DEF On
    <3>2. FactorHeld(request[h])'
      BY <2>5 DEF FactorHeld, Inserted, Saves, Idle
    <3> QED  BY <1>2, <2>1, <2>2, <3>1, <3>2
  <2> QED  BY <1>1, <1>4, <2>3, <2>4, <2>5, FindFactorMakes
<1>5. CASE SelectFactor(h)
  <2>1. UNCHANGED <<cred, factor, faults>> /\ q.phase = "selectFactor"
    BY <1>5 DEF SelectFactor, store, At
  <2>2. /\ OthersStay(h) /\ Keeps(q, r) /\ r.phase = "updateFactor"
        /\ r.factor = q.factor /\ r.flips = (factor[q.factor] # Wanted(q))
    BY <1>1, <1>5, SelectFactorMakes
  <2>3. q.factor = 1 /\ q.factor \in Factors /\ factor[1] # "none"
    BY <1>1, <2>1 DEF FactorHeld
  <2>4. r.op = "revoke" /\ ~r.flips => factor[1] # "on"
    BY <2>2, <2>3 DEF Wanted, Keeps
  <2>5. FactorHeld(request[h])'
    BY <1>1, <2>1, <2>2, <2>3, <2>4
       DEF FactorHeld, Inserted, Saves, Keeps, Factors
  <2>6. HasRevoked(q) => HasRevoked(r)
    BY <2>2 DEF HasRevoked, Keeps
  <2> QED  BY <1>2, <2>1, <2>2, <2>5, <2>6
<1>6. CASE CountEnabled(h)
  <2>1. UNCHANGED <<cred, factor, faults>> /\ q.phase = "count"
        /\ q.op = "revoke"
    BY <1>1, <1>6 DEF CountEnabled, store, At, OnItsWay, Held
  <2>2. CASE Goes(h, "findFactor")
    <3>1. OthersStay(h) /\ Keeps(q, r) /\ r.phase = "findFactor"
      BY <1>1, <2>2, GoesMakes
    <3>2. FactorHeld(request[h])' /\ HasRevoked(r)
      BY <2>1, <3>1 DEF FactorHeld, Inserted, Saves, Keeps, HasRevoked
    <3> QED  BY <1>2, <2>1, <3>1, <3>2
  <2>3. CASE ~NoneLeft /\ Ends(h)
    <3>1. OthersStay(h) /\ r = Idle
      BY <1>1, <2>3, EndsMakes
    <3>2. FactorHeld(request[h])' /\ Enabled # {}
      BY <2>3, <3>1 DEF FactorHeld, Inserted, Saves, Idle, NoneLeft
    <3> QED  BY <1>2, <2>1, <3>1, <3>2
  <2> QED  BY <1>6, <2>2, <2>3 DEF CountEnabled
<1>7. CASE FindKey(h)
  <2>1. /\ UNCHANGED <<cred, factor, faults>> /\ q.phase = "findKey"
        /\ q.key \in Keys /\ cred[q.key] \in Credential /\ ~HasRevoked(q)
    BY <1>1, <1>7 DEF FindKey, store, At, Held, TypeOK, HasRevoked
  <2>2. OthersStay(h)
    BY <1>1, <1>7, FindKeyMakes
  <2>3. CASE r = Idle
    <3>1. FactorHeld(request[h])'
      BY <2>3 DEF FactorHeld, Inserted, Saves, Idle
    <3> QED  BY <1>2, <2>1, <2>2, <3>1
  <2>4. CASE /\ Usable(q.key) /\ r.phase = "select" /\ Keeps(q, r)
             /\ r.entity = [cred[q.key] EXCEPT !.counter = q.count]
    <3>1. r.entity.status = "enabled"
      BY <2>1, <2>4 DEF Usable, Credential
    <3>2. FactorHeld(request[h])'
      BY <2>4, <3>1 DEF FactorHeld, Inserted
    <3> QED  BY <1>2, <2>1, <2>2, <3>2
  <2> QED  BY <1>1, <1>7, <2>3, <2>4, FindKeyMakes
<1>8. CASE Select(h)
  <2>1. /\ UNCHANGED <<cred, factor, faults>> /\ q.phase = "select"
        /\ ~HasRevoked(q)
    BY <1>8 DEF Select, store, At, HasRevoked
  <2>2. /\ OthersStay(h) /\ Keeps(q, r) /\ r.phase = "update"
        /\ r.entity = q.entity
    BY <1>1, <1>8, SelectMakes
  <2>3. FactorHeld(request[h])'
    BY <1>1, <2>1, <2>2 DEF FactorHeld, Inserted, Saves, Keeps
  <2> QED  BY <1>2, <2>1, <2>2, <2>3
<1>9. CASE \E k \in Keys : RevokeCredential(h, k)
  <2>1. PICK k \in Keys : RevokeCredential(h, k)
    BY <1>9
  <2>2. UNCHANGED <<cred, factor, faults>>
    BY <2>1 DEF RevokeCredential, store
  <2>3. /\ OthersStay(h) /\ q = Idle /\ r.op = "revoke"
        /\ r.phase = "select"
    BY <1>1, <2>1, FirstSteps
  <2>4. FactorHeld(request[h])' /\ ~HasRevoked(q)
    BY <2>3, IdleFactor DEF FactorHeld, Inserted
  <2> QED  BY <1>2, <2>2, <2>3, <2>4
<1>10. CASE /\ OthersStay(h) /\ UNCHANGED <<cred, factor>>
            /\ r.phase \notin
                 {"select", "update", "count", "findFactor", "insertFactor",
                  "selectFactor", "updateFactor", "dropPending"}
            /\ \/ faults' # 0
               \/ /\ UNCHANGED faults
                  /\ q.phase \notin
                       {"count", "findFactor", "selectFactor", "updateFactor"}
  <2>1. FactorHeld(request[h])'
    BY <1>10 DEF FactorHeld, Inserted, Saves
  <2>2. HasRevoked(q) =>
          q.phase \in {"count", "findFactor", "selectFactor", "updateFactor"}
    BY DEF HasRevoked
  <2>3. UNCHANGED <<cred, factor>> /\ OthersStay(h)
    BY <1>10
  <2>4. CASE faults' # 0
    BY <1>2, <2>1, <2>3, <2>4
  <2>5. CASE UNCHANGED faults /\ ~HasRevoked(q)
    BY <1>2, <2>1, <2>3, <2>5
  <2> QED  BY <1>10, <2>2, <2>4, <2>5
<1>11. CASE Insert(h)
  <2>1. /\ UNCHANGED <<factor, faults>> /\ q.phase = "insert"
        /\ q.op = "register" /\ q.key \in Keys /\ ~HasRevoked(q)
    BY <1>1, <1>11
       DEF Insert, At, OnItsWay, Held, HasRevoked, Request, Operations, Idle
  <2>2. CASE Ends(h) /\ UNCHANGED cred
    <3>1. OthersStay(h) /\ r = Idle
      BY <1>1, <2>2, EndsMakes
    <3>2. FactorHeld(request[h])'
      BY <3>1 DEF FactorHeld, Inserted, Saves, Idle
    <3> QED  BY <1>2, <2>1, <2>2, <3>1, <3>2
  <2>3. CASE /\ cred' = [cred EXCEPT ![q.key].status = "enabled"]
             /\ Goes(h, "findFactor")
    <3>1. OthersStay(h) /\ Keeps(q, r) /\ r.phase = "findFactor"
      BY <1>1, <2>3, GoesMakes
    <3>2. cred'[q.key].status = "enabled"
      BY <1>1, <2>1, <2>3 DEF TypeOK, Credential
    <3>3. FactorHeld(request[h])'
      BY <2>1, <3>1, <3>2 DEF FactorHeld, Saves, Keeps
    <3>4. SwitchedOff'
      BY <2>1, <3>2 DEF SwitchedOff, Enabled
    <3>5. \A g \in Requests \ {h} : ~Inserted(request[g])
      BY <1>1, <2>1, NobodyElseRegisters
    <3> QED  BY <2>1, <3>1, <3>3, <3>4, <3>5, FactorLeft
  <2> QED  BY <1>11, <2>2, <2>3 DEF Insert
<1>12. CASE Update(h)
  <2>1. /\ UNCHANGED <<factor, faults>> /\ q.phase = "update"
        /\ ~HasRevoked(q) /\ q # Idle
    BY <1>1, <1>12 DEF Update, At, HasRevoked
  <2>2. /\ OthersStay(h) /\ Keeps(q, r)
        /\ r.phase = IF q.op = "revoke" THEN "count" ELSE "dropOpen"
        /\ cred'[q.key] = Written(q, cred[q.key])
        /\ q.key \in Keys
        /\ \A k \in Keys : k # q.key => cred'[k] = cred[k]
    BY <1>12, UpdateMakes
  <2>3. FactorHeld(request[h])'
    BY <2>2 DEF FactorHeld, Inserted, Saves
  <2>4. SwitchedOff'
    <3>1. CASE q.op = "revoke"
      <4>1. HasRevoked(r)
        BY <2>2, <3>1 DEF HasRevoked, Keeps
      <4> QED  BY <4>1 DEF SwitchedOff, HasRevoked
    <3>2. CASE q.op # "revoke"
      <4>1. cred[q.key].status = "enabled" => cred'[q.key].status = "enabled"
        BY <1>1, <2>1, <2>2, <3>2 DEF Written, FactorHeld, Saves
      <4>2. Enabled' = {} => Enabled = {}
        BY <2>2, <4>1, EnabledStays
      <4>3. On' => On
        BY <2>1 DEF On, Factors
      <4> QED  BY <2>1, <2>2, <4>2, <4>3, StillSeenTo
    <3> QED  BY <3>1, <3>2
  <2>5. \A g \in Requests \ {h} : ~Inserted(request[g])
    BY <2>1, NobodyElseRegisters
  <2> QED  BY <2>1, <2>2, <2>3, <2>4, <2>5, FactorLeft
<1>13. CASE InsertFactor(h)
  <2>1. /\ UNCHANGED <<cred, faults>> /\ q.phase = "insertFactor"
        /\ q.op = "register" /\ q # Idle /\ q.key \in Keys
        /\ \A f \in Factors : factor[f] = "none"
    BY <1>1, <1>13 DEF InsertFactor, At, Held, FactorHeld
  <2>2. PICK f \in Factors : /\ \A g \in 1 .. f - 1 : factor[g] # "none"
                             /\ factor' = [factor EXCEPT ![f] = "on"]
    BY <1>13 DEF InsertFactor
  <2>3. f = 1
    <3>1. f \in 1 .. Cardinality(Requests)
      BY DEF Factors
    <3>2. f > 1 => 1 \in 1 .. f - 1 /\ 1 \in Factors
      BY <3>1, Bounds DEF Factors
    <3> QED  BY <2>1, <2>2, <3>1, <3>2
  <2>4. OneRow' /\ \A g \in Factors : factor[g] # "none" => factor'[g] # "none"
    BY <1>1, <2>1, <2>2, <2>3 DEF OneRow, TypeOK, Factors
  <2>5. OthersStay(h) /\ Keeps(q, r) /\ r.phase = "dropPending"
    BY <1>1, <1>13, GoesMakes DEF InsertFactor
  <2>6. cred[q.key].status = "enabled"
    BY <1>1, <2>1 DEF FactorHeld, Inserted
  <2>7. FactorHeld(request[h])'
    BY <2>1, <2>5, <2>6 DEF FactorHeld, Saves, Keeps
  <2>8. SwitchedOff'
    BY <2>1, <2>6 DEF SwitchedOff, Enabled
  <2>9. /\ \A g \in Requests \ {h} :
             ~Inserted(request[g]) /\ request[g].phase # "insertFactor"
        /\ \A g \in Requests \ {h} : request[g] = Idle
    BY <2>1, NobodyElseRegisters
  <2> QED  BY <2>1, <2>4, <2>5, <2>7, <2>8, <2>9, FactorWritten
<1>14. CASE UpdateFactor(h)
  <2>1. /\ UNCHANGED <<cred, faults>> /\ q.phase = "updateFactor"
        /\ q # Idle
        /\ q.factor = 1 /\ 1 \in Factors /\ factor[1] # "none"
        /\ factor' = IF q.flips THEN [factor EXCEPT ![1] = Wanted(q)]
                     ELSE factor
    BY <1>1, <1>14 DEF UpdateFactor, At, FactorHeld
  <2>2. OthersStay(h)
    BY <1>1, <1>14, UpdateFactorMakes
  <2>3. /\ \A g \in Factors : g # 1 => factor'[g] = factor[g]
        /\ q.flips => factor'[1] = Wanted(q)
        /\ ~q.flips => factor'[1] = factor[1]
        /\ q.flips \in BOOLEAN
    BY <1>1, <2>1 DEF TypeOK, Request
  <2>4. OneRow' /\ \A g \in Factors : factor[g] # "none" => factor'[g] # "none"
    <3>1. factor'[1] # "none"
      BY <2>1, <2>3 DEF Wanted
    <3> QED  BY <2>3, <3>1 DEF FactorInv, OneRow, Factors
  <2>5. /\ \A g \in Requests \ {h} :
             ~Inserted(request[g]) /\ request[g].phase # "insertFactor"
        /\ q.op = "register" => \A g \in Requests \ {h} : request[g] = Idle
    BY <2>1, NobodyElseRegisters
  <2>6. CASE /\ q.op = "register" /\ r.phase = "dropPending" /\ Keeps(q, r)
    <3>1. cred[q.key].status = "enabled" /\ q.key \in Keys
      BY <1>1, <2>1, <2>6 DEF FactorHeld, Inserted, Held
    <3>2. FactorHeld(request[h])'
      BY <2>1, <2>6, <3>1 DEF FactorHeld, Saves, Keeps
    <3>3. SwitchedOff'
      BY <2>1, <3>1 DEF SwitchedOff, Enabled
    <3> QED
      BY <2>1, <2>2, <2>4, <2>5, <2>6, <3>2, <3>3, FactorWritten
  <2>7. CASE q.op = "revoke" /\ r = Idle
    <3>1. FactorHeld(request[h])'
      BY <2>7 DEF FactorHeld, Inserted, Saves, Idle
    <3>2. factor'[1] # "on"
      BY <1>1, <2>1, <2>3, <2>7 DEF FactorHeld, Wanted
    <3>3. SwitchedOff'
      <4>1. ~On'
        BY <3>2, <2>4 DEF On, OneRow
      <4> QED  BY <4>1 DEF SwitchedOff
    <3> QED
      BY <2>1, <2>2, <2>4, <2>5, <3>1, <3>2, <3>3, FactorWritten
  <2> QED  BY <1>1, <1>14, <2>6, <2>7, UpdateFactorMakes
<1> QED
  BY <1>4, <1>5, <1>6, <1>7, <1>8, <1>9, <1>10, <1>11, <1>12, <1>13, <1>14,
     QuietSteps

-----------------------------------------------------------------------------
(* Requests that take turns                                                *)

Spent(c) == \E k \in Keys : accepted[<<k, c>>] > 0

\* r has found its challenge in Redis.
Opens(r) ==
  /\ r.op \in {"login", "mfa"}
  /\ r.phase \in {"findKey", "select", "update", "dropOpen", "useRow"}

\* What the only request in flight knows is so.
InTurn(r) ==
  /\ r.op = "challenge" =>
       /\ r.challenge \in 1 .. issued
       /\ row[r.challenge] = "none"
       /\ ~Spent(r.challenge)
  /\ Opens(r) => r.challenge \in 1 .. issued /\ ~Spent(r.challenge)
  /\ r.phase = "useRow" => r.challenge \notin open
  /\ r.op = "mfa" => row[r.mfa] # "none"
  /\ r.op = "mfa" /\ (Opens(r) \/ r.phase = "getOpen") => passed[r.mfa] = 0
  /\ Opens(r) /\ r.phase # "findKey" => cred[r.key].status = "enabled"
  /\ Saves(r) => r.entity.counter >= cred[r.key].counter

\* A challenge is opened for one login, and its row used for one.
Issued == \A c \in Challenges : c \in open \/ row[c] # "none" \/ Spent(c) => c <= issued
SpentGone == \A c \in Challenges : Spent(c) => c \notin open
PassedUsed ==
  \A c \in Challenges :
    passed[c] = 0 \/ (passed[c] = 1 /\ row[c] = "used")
SpentOnce == \A k \in Keys, c \in Challenges : accepted[<<k, c>>] <= 1

ChallengesInTurns == Issued /\ SpentGone /\ PassedUsed /\ SpentOnce

TurnsInv ==
  /\ AtMostOne
  /\ ChallengesInTurns
  /\ \A h \in Requests : InTurn(request[h])

LEMMA IdleInTurn == InTurn(Idle)
BY DEF InTurn, Opens, Saves, Idle

\* It is enough to know of h what a step makes of it.
LEMMA TurnStep ==
  ASSUME AtMostOne, AtMostOne', NEW h \in Requests, OthersStay(h),
         request[h] # Idle \/ request'[h] # Idle,
         ChallengesInTurns', InTurn(request[h])'
  PROVE  TurnsInv'
<1>1. ASSUME NEW g \in Requests  PROVE InTurn(request[g])'
  <2>1. CASE g = h
    BY <2>1
  <2>2. CASE g # h
    <3>1. request'[g] = Idle
      BY <2>2, OthersRest
    <3> QED  BY <3>1 DEF InTurn, Opens, Saves, Idle
  <2> QED  BY <2>1, <2>2
<1> QED  BY <1>1 DEF TurnsInv

\* A step that leaves the challenges.
LEMMA ChallengesLeft ==
  ASSUME TurnsInv, AtMostOne', NEW h \in Requests, OthersStay(h),
         request[h] # Idle \/ request'[h] # Idle,
         UNCHANGED <<open, row, issued, accepted, passed>>,
         InTurn(request[h])'
  PROVE  TurnsInv'
<1>1. ChallengesInTurns'
  BY DEF TurnsInv, ChallengesInTurns, Issued, SpentGone, PassedUsed, SpentOnce,
         Spent, Challenges
<1> QED  BY <1>1, TurnStep DEF TurnsInv

\* Requests that read.
LEMMA ReadTurns ==
  ASSUME IInv, AllOnTheirWay, TurnsInv, AtMostOne', NEW h \in Requests,
         \/ GetPending(h) \/ FindExisting(h) \/ FindOn(h) \/ CountKeys(h)
         \/ FindRow(h) \/ GetOpen(h)
  PROVE  TurnsInv'
<1> DEFINE q == request[h]
           r == request'[h]
<1>1. /\ TypeOK /\ OnItsWay(q) /\ InTurn(q)
      /\ UNCHANGED <<cred, open, row, issued, accepted, passed>>
  BY DEF IInv, AllOnTheirWay, TurnsInv, GetPending, FindExisting, FindOn,
         CountKeys, FindRow, GetOpen, Reads, store, history
<1>2. q # Idle
  <2>1. q.phase # "idle" /\ Idle.phase = "idle"
    BY DEF GetPending, FindExisting, FindOn, CountKeys, FindRow, GetOpen, At,
           Idle
  <2> QED  BY <2>1
<1>3. ASSUME OthersStay(h), InTurn(request[h])'  PROVE TurnsInv'
  BY <1>1, <1>2, <1>3, ChallengesLeft
<1>4. r = Idle => InTurn(request[h])'
  BY DEF InTurn, Opens, Saves, Idle
<1>5. CASE FindRow(h)
  <2>1. /\ q.op = "mfa" /\ q.mfa \in Challenges
        /\ Reads(h, row[q.mfa] = "open", "getOpen")
    BY <1>1, <1>5 DEF FindRow, At, OnItsWay, IInv, TypeOK, Request, Operations, Idle
  <2>2. CASE row[q.mfa] = "open" /\ Keeps(q, r) /\ r.phase = "getOpen"
    <3>1. passed[q.mfa] = 0
      BY <2>1, <2>2 DEF TurnsInv, ChallengesInTurns, PassedUsed
    <3>2. InTurn(request[h])'
      BY <1>1, <2>1, <2>2, <3>1 DEF InTurn, Opens, Saves, Keeps
    <3> QED  BY <1>1, <1>3, <2>1, <3>2, ReadsMakes
  <2> QED  BY <1>1, <1>3, <1>4, <2>1, <2>2, ReadsMakes
<1>6. CASE GetOpen(h)
  <2>1. /\ q.phase = "getOpen" /\ q.op \in {"login", "mfa"}
        /\ q.challenge \in Challenges
        /\ Reads(h, q.challenge \in open, "findKey")
    BY <1>1, <1>6 DEF GetOpen, At, OnItsWay, IInv, TypeOK, Request, Operations, Idle
  <2>2. CASE q.challenge \in open /\ Keeps(q, r) /\ r.phase = "findKey"
    <3>1. q.challenge \in 1 .. issued /\ ~Spent(q.challenge)
      BY <2>1, <2>2 DEF TurnsInv, ChallengesInTurns, Issued, SpentGone,
                        Challenges, IInv, TypeOK
    <3>2. InTurn(request[h])'
      BY <1>1, <2>1, <2>2, <3>1 DEF InTurn, Opens, Saves, Keeps, Spent
    <3> QED  BY <1>1, <1>3, <2>1, <3>2, ReadsMakes
  <2>3. CASE Ends(h)
    BY <1>1, <1>3, <1>4, <2>3, EndsMakes
  <2>4. CASE q.challenge \in open /\ Goes(h, "findKey")
    BY <1>1, <2>2, <2>4, GoesMakes
  <2> QED  BY <2>1, <2>3, <2>4 DEF Reads
<1>7. ASSUME NEW found, NEW phase, Reads(h, found, phase),
             q.op \in {"register", "mfa"},
             q.op = "mfa" => row[q.mfa] # "none",
             phase \in {"findExisting", "insert", "findRow", "countKeys"}
      PROVE  TurnsInv'
  <2>1. OthersStay(h)
    BY <1>1, <1>7, ReadsMakes
  <2>2. CASE Keeps(q, r) /\ r.phase = phase
    <3>1. InTurn(request[h])'
      BY <1>1, <1>7, <2>2 DEF InTurn, Opens, Saves, Keeps
    <3> QED  BY <1>3, <2>1, <3>1
  <2>3. CASE r = Idle
    BY <1>3, <1>4, <2>1, <2>3
  <2> QED  BY <1>1, <1>7, <2>2, <2>3, ReadsMakes
<1>8. CASE GetPending(h) \/ FindExisting(h)
  <2>1. q.op = "register"
    BY <1>1, <1>8
       DEF GetPending, FindExisting, At, OnItsWay, IInv, TypeOK, Request, Operations, Idle
  <2>2. PICK found, phase :
          /\ Reads(h, found, phase)
          /\ phase \in {"findExisting", "insert", "findRow", "countKeys"}
    BY <1>8 DEF GetPending, FindExisting
  <2> QED  BY <1>7, <2>1, <2>2
<1>9. CASE FindOn(h) \/ CountKeys(h)
  <2>1. q.op = "mfa" /\ row[q.mfa] # "none"
    <3>1. q.phase \in {"factors", "countKeys"}
      BY <1>9 DEF FindOn, CountKeys, At
    <3> QED
      BY <1>1, <3>1
         DEF OnItsWay, IInv, TypeOK, Request, Operations, Idle, InTurn
  <2>2. PICK found, phase :
          /\ Reads(h, found, phase)
          /\ phase \in {"findExisting", "insert", "findRow", "countKeys"}
    BY <1>9 DEF FindOn, CountKeys
  <2> QED  BY <1>7, <2>1, <2>2
<1> QED  BY <1>5, <1>6, <1>8, <1>9

\* Requests that save a passkey: the counter they write was found smaller.
LEMMA SaveTurns ==
  ASSUME IInv, AllOnTheirWay, TurnsInv, RevokeInv, AtMostOne',
         NEW h \in Requests,
         \/ FindKey(h) \/ Select(h) \/ Update(h)
         \/ \E k \in Keys : RevokeCredential(h, k)
  PROVE  TurnsInv'
<1> DEFINE q == request[h]
           r == request'[h]
<1>1. /\ TypeOK /\ q \in Request /\ OnItsWay(q) /\ InTurn(q)
      /\ Held(q, cred) /\ SaveHeld(q, cred)
      /\ UNCHANGED <<open, row, issued, accepted, passed>>
  BY DEF IInv, TypeOK, AllOnTheirWay, TurnsInv, AllHeld, RevokeInv,
         FindKey, Select, Update, RevokeCredential, store, history
<1>2. ASSUME OthersStay(h), q # Idle \/ r # Idle, InTurn(request[h])'
      PROVE  TurnsInv'
  BY <1>1, <1>2, ChallengesLeft
<1>3. Idle.phase = "idle"
  BY DEF Idle
<1>4. CASE FindKey(h)
  <2>1. /\ q.phase = "findKey" /\ q.op \in {"login", "mfa"} /\ q.key \in Keys
        /\ UNCHANGED cred /\ cred[q.key] \in Credential
    BY <1>1, <1>4
       DEF FindKey, At, OnItsWay, Held, TypeOK, Request, Operations, Idle, store
  <2>2. CASE r = Idle
    <3>1. InTurn(request[h])'
      BY <2>2 DEF InTurn, Opens, Saves, Idle
    <3> QED  BY <1>1, <1>2, <1>3, <1>4, <2>1, <3>1, FindKeyMakes
  <2>3. CASE /\ Usable(q.key) /\ Fresh(cred[q.key].counter, q.count)
             /\ r.phase = "select" /\ Keeps(q, r)
             /\ r.entity = [cred[q.key] EXCEPT !.counter = q.count]
    <3>1. r.entity.counter = q.count
      BY <2>1, <2>3 DEF Credential
    <3>2. q.count >= cred[q.key].counter
      <4>1. q.count \in Nat /\ cred[q.key].counter \in Nat
        BY <1>1, <2>1, Bounds DEF Request, Credential
      <4> QED  BY <2>3, <4>1 DEF Fresh
    <3>3. InTurn(request[h])'
      BY <1>1, <2>1, <2>3, <3>1, <3>2
         DEF InTurn, Opens, Saves, Keeps, Usable, Spent
    <3> QED  BY <1>1, <1>2, <1>3, <1>4, <2>1, <3>3, FindKeyMakes
  <2> QED  BY <1>1, <1>4, <2>2, <2>3, FindKeyMakes
<1>5. CASE Select(h)
  <2>1. q.phase = "select" /\ UNCHANGED cred
    BY <1>5 DEF Select, At, store
  <2>2. /\ OthersStay(h) /\ Keeps(q, r) /\ r.phase = "update"
        /\ r.entity = q.entity
    BY <1>1, <1>5, SelectMakes
  <2>3. InTurn(request[h])'
    BY <1>1, <2>1, <2>2 DEF InTurn, Opens, Saves, Keeps, Spent, OnItsWay
  <2> QED  BY <1>2, <1>3, <2>1, <2>2, <2>3
<1>6. CASE Update(h)
  <2>1. q.phase = "update"
    BY <1>6 DEF Update, At
  <2>2. /\ OthersStay(h) /\ Keeps(q, r)
        /\ r.phase = IF q.op = "revoke" THEN "count" ELSE "dropOpen"
        /\ cred'[q.key] = Written(q, cred[q.key])
        /\ q.key \in Keys
    BY <1>6, UpdateMakes
  <2>3. q.op # "revoke" => cred'[q.key].status = "enabled"
    BY <1>1, <2>1, <2>2 DEF Written, SaveHeld, Saves
  <2>4. InTurn(request[h])'
    BY <1>1, <2>1, <2>2, <2>3 DEF InTurn, Opens, Saves, Keeps, Spent, OnItsWay
  <2> QED  BY <1>2, <1>3, <2>1, <2>2, <2>4
<1>7. ASSUME NEW k \in Keys, RevokeCredential(h, k)  PROVE TurnsInv'
  <2>1. UNCHANGED cred /\ cred[k] \in Credential
    BY <1>7 DEF RevokeCredential, store, IInv, TypeOK
  <2>2. /\ OthersStay(h) /\ r.op = "revoke" /\ r.phase = "select"
        /\ r.key = k /\ r.entity = [cred[k] EXCEPT !.status = "revoked"]
    BY <1>1, <1>7, FirstSteps
  <2>3. r.entity.counter = cred[k].counter /\ cred[k].counter \in Nat
    BY <2>1, <2>2, Bounds DEF Credential
  <2>4. InTurn(request[h])'
    BY <2>1, <2>2, <2>3 DEF InTurn, Opens, Saves
  <2> QED  BY <1>2, <1>3, <2>2, <2>4
<1> QED  BY <1>4, <1>5, <1>6, <1>7

\* Registrations and the switching of the factor use no challenge of a login.
LEMMA SettingTurns ==
  ASSUME IInv, AllOnTheirWay, TurnsInv, AtMostOne', NEW h \in Requests,
         \/ Insert(h) \/ DropPending(h) \/ FindFactor(h) \/ InsertFactor(h)
         \/ SelectFactor(h) \/ UpdateFactor(h) \/ CountEnabled(h) \/ Raise(h)
         \/ \E k \in Keys : FinishRegistration(h, k)
         \/ \E a \in signed :
              Login(h, a) \/ \E m \in Challenges : CompleteMfa(h, a, m)
  PROVE  TurnsInv'
<1> DEFINE q == request[h]
           r == request'[h]
<1>1. /\ TypeOK /\ q \in Request /\ OnItsWay(q)
      /\ UNCHANGED <<open, row, issued, passed, accepted>>
  BY DEF IInv, TypeOK, AllOnTheirWay, Insert, DropPending, FindFactor,
         InsertFactor, SelectFactor, UpdateFactor, CountEnabled, Raise,
         FinishRegistration, Begins, Login, CompleteMfa, store, history
<1>2. InTurn(Idle)' /\ Idle.phase = "idle" /\ Idle.op = "none"
  BY DEF InTurn, Opens, Saves, Idle
<1>3. ASSUME OthersStay(h), q # Idle \/ r # Idle,
             \/ r = Idle
             \/ /\ r.op \notin {"challenge", "login", "mfa"}
                /\ r.phase \notin {"select", "update", "useRow"}
             \/ r.op = "login" /\ r.phase = "getOpen"
             \/ r.op = "mfa" /\ r.phase = "factors" /\ row[r.mfa] # "none"
      PROVE  TurnsInv'
  <2>1. InTurn(request[h])'
    BY <1>1, <1>2, <1>3 DEF InTurn, Opens, Saves
  <2> QED  BY <1>1, <1>3, <2>1, ChallengesLeft
<1>4. ASSUME Ends(h), q # Idle  PROVE TurnsInv'
  BY <1>1, <1>3, <1>4, EndsMakes
<1>5. ASSUME NEW phase, Goes(h, phase), q.op \in {"register", "revoke"},
             phase \in {"findFactor", "insertFactor", "dropPending"}
      PROVE  TurnsInv'
  BY <1>1, <1>2, <1>3, <1>5, GoesMakes DEF Keeps
<1>6. CASE Raise(h) \/ DropPending(h)
  BY <1>2, <1>4, <1>6 DEF Raise, DropPending, At
<1>7. q.phase \in {"insert", "findFactor", "insertFactor", "selectFactor",
                   "updateFactor", "count"}
        => q.op \in {"register", "revoke"} /\ q # Idle
  BY <1>1, <1>2 DEF OnItsWay, Request, Operations
<1>8. CASE Insert(h) \/ InsertFactor(h) \/ CountEnabled(h)
  <2>1. q.op \in {"register", "revoke"} /\ q # Idle
    BY <1>7, <1>8 DEF Insert, InsertFactor, CountEnabled, At
  <2>2. \/ Ends(h) \/ Goes(h, "findFactor") \/ Goes(h, "dropPending")
    BY <1>8 DEF Insert, InsertFactor, CountEnabled
  <2> QED  BY <1>4, <1>5, <2>1, <2>2
<1>9. CASE FindFactor(h) \/ SelectFactor(h) \/ UpdateFactor(h)
  <2>1. q.op \in {"register", "revoke"} /\ q # Idle
    BY <1>7, <1>9 DEF FindFactor, SelectFactor, UpdateFactor, At
  <2>2. /\ OthersStay(h)
        /\ \/ r = Idle
           \/ /\ Keeps(q, r)
              /\ r.phase \in {"selectFactor", "insertFactor", "updateFactor",
                              "dropPending"}
    BY <1>1, <1>9, FindFactorMakes, SelectFactorMakes, UpdateFactorMakes
  <2> QED  BY <1>3, <2>1, <2>2 DEF Keeps
<1>10. CASE \/ \E k \in Keys : FinishRegistration(h, k)
            \/ \E a \in signed :
                 Login(h, a) \/ \E m \in Challenges : CompleteMfa(h, a, m)
  <2>1. \A a \in signed, m \in Challenges :
          CompleteMfa(h, a, m) => row[m] # "none"
    BY DEF CompleteMfa
  <2> QED  BY <1>1, <1>2, <1>3, <1>10, <2>1, FirstSteps
<1> QED  BY <1>6, <1>8, <1>9, <1>10

\* A challenge of a second factor is new, and opened before its row is there.
LEMMA CreateTurns ==
  ASSUME IInv, AllOnTheirWay, TurnsInv, AtMostOne', NEW h \in Requests,
         CreateChallenge(h) \/ SetOpen(h) \/ SaveRow(h)
  PROVE  TurnsInv'
<1> DEFINE q == request[h]
           r == request'[h]
           c == q.challenge
<1>1. /\ TypeOK /\ q \in Request /\ OnItsWay(q) /\ InTurn(q)
      /\ AtMostOne /\ ChallengesInTurns
      /\ UNCHANGED <<accepted, passed>> /\ issued \in Nat
      /\ Idle.phase = "idle"
  BY Bounds DEF IInv, TypeOK, AllOnTheirWay, TurnsInv, CreateChallenge, SetOpen,
         SaveRow, history, Idle
<1>2. CASE CreateChallenge(h)
  <2>1. /\ issued' = issued + 1 /\ issued + 1 \in Challenges
        /\ UNCHANGED <<open, row>>
    BY <1>1, <1>2, Bounds DEF CreateChallenge, store, Challenges, IInv, TypeOK
  <2>2. /\ OthersStay(h) /\ r.op = "challenge" /\ r.phase = "setOpen"
        /\ r.challenge = issued + 1
    BY <1>1, <1>2, FirstSteps
  <2>3. row[issued + 1] = "none" /\ ~Spent(issued + 1)
    BY <1>1, <2>1 DEF ChallengesInTurns, Issued
  <2>4. InTurn(request[h])'
    <3>1. /\ row'[r.challenge] = "none" /\ r.challenge \in 1 .. issued'
          /\ ~\E k \in Keys : accepted'[<<k, r.challenge>>] > 0
      BY <1>1, <2>1, <2>2, <2>3 DEF Spent
    <3> QED  BY <2>2, <3>1 DEF InTurn, Opens, Saves, Spent
  <2>5. ChallengesInTurns'
    BY <1>1, <2>1 DEF ChallengesInTurns, Issued, SpentGone, PassedUsed,
                      SpentOnce, Spent, Challenges
  <2> QED  BY <1>1, <2>2, <2>4, <2>5, TurnStep
<1>3. CASE SetOpen(h)
  <2>1. /\ open' = open \union {c} /\ UNCHANGED <<row, issued>>
        /\ Goes(h, "saveRow") /\ q.phase = "setOpen"
    BY <1>3 DEF SetOpen, At
  <2>2. q.op = "challenge" /\ c \in 1 .. issued /\ row[c] = "none" /\ ~Spent(c)
    BY <1>1, <2>1 DEF OnItsWay, InTurn, Request, Operations
  <2>3. OthersStay(h) /\ Keeps(q, r) /\ r.phase = "saveRow"
    BY <1>1, <2>1, GoesMakes
  <2>4. InTurn(request[h])'
    BY <1>1, <2>1, <2>2, <2>3 DEF InTurn, Opens, Saves, Spent, Keeps
  <2>5. ChallengesInTurns'
    BY <1>1, <2>1, <2>2 DEF ChallengesInTurns, Issued, SpentGone, PassedUsed,
                      SpentOnce, Spent, Challenges
  <2> QED  BY <1>1, <2>1, <2>3, <2>4, <2>5, TurnStep
<1>4. CASE SaveRow(h)
  <2>1. /\ row' = [row EXCEPT ![c] = "open"] /\ UNCHANGED <<open, issued>>
        /\ Ends(h) /\ q.phase = "saveRow"
    BY <1>4 DEF SaveRow, At
  <2>2. c \in 1 .. issued /\ row[c] = "none" /\ ~Spent(c)
    BY <1>1, <2>1 DEF OnItsWay, InTurn, Request, Operations
  <2>3. OthersStay(h) /\ r = Idle
    BY <1>1, <2>1, EndsMakes
  <2>4. InTurn(request[h])'
    BY <2>3 DEF InTurn, Opens, Saves, Idle
  <2>5. \A d \in Challenges : row'[d] = IF d = c THEN "open" ELSE row[d]
    BY <1>1, <2>1 DEF TypeOK
  <2>6. ChallengesInTurns'
    BY <1>1, <2>1, <2>2, <2>5
       DEF ChallengesInTurns, Issued, SpentGone, PassedUsed, SpentOnce, Spent,
           Challenges
  <2> QED  BY <1>1, <2>1, <2>3, <2>4, <2>6, TurnStep
<1> QED  BY <1>2, <1>3, <1>4

\* A login succeeds once its challenge is gone.
LEMMA SuccessTurns ==
  ASSUME IInv, TurnsInv, AtMostOne', NEW h \in Requests,
         Succeeds(request[h]), Ends(h),
         Opens(request[h]), request[h].key \in Keys,
         request[h].challenge \in Challenges,
         request[h].challenge \notin open', open' \subseteq open,
         UNCHANGED issued,
         PassedUsed',
         \A c \in Challenges : row'[c] # "none" => c <= issued
  PROVE  TurnsInv'
<1> DEFINE q == request[h]
           x == <<q.key, q.challenge>>
<1>1. TypeOK /\ InTurn(q) /\ AtMostOne /\ ChallengesInTurns
  BY DEF IInv, TurnsInv
<1>2. q.challenge \in 1 .. issued /\ ~Spent(q.challenge)
  BY <1>1 DEF InTurn
<1>3. x \in Keys \X Challenges /\ accepted[x] \in Nat /\ ~(accepted[x] > 0)
  BY <1>1, <1>2 DEF Spent, TypeOK
<1>4. /\ accepted'[x] = 1
      /\ \A y \in Keys \X Challenges : y # x => accepted'[y] = accepted[y]
  BY <1>1, <1>3 DEF Succeeds, TypeOK
<1>5. ASSUME NEW c \in Challenges, Spent(c)'
      PROVE  Spent(c) \/ c = q.challenge
  <2>1. PICK k \in Keys : accepted'[<<k, c>>] > 0
    BY <1>5 DEF Spent
  <2>2. CASE <<k, c>> = x
    BY <2>2
  <2>3. CASE <<k, c>> # x
    BY <1>4, <2>1, <2>3 DEF Spent
  <2> QED  BY <2>2, <2>3
<1>6. Issued' /\ SpentGone'
  BY <1>1, <1>2, <1>5 DEF ChallengesInTurns, Issued, SpentGone, Challenges
<1>7. SpentOnce'
  <2> SUFFICES ASSUME NEW k \in Keys, NEW c \in Challenges
               PROVE  accepted'[<<k, c>>] <= 1
    BY DEF SpentOnce, Challenges
  <2>1. CASE <<k, c>> = x
    BY <1>4, <2>1
  <2>2. CASE <<k, c>> # x
    BY <1>1, <1>4, <2>2 DEF ChallengesInTurns, SpentOnce
  <2> QED  BY <2>1, <2>2
<1>8. OthersStay(h) /\ request'[h] = Idle /\ q # Idle
  <2>1. q.phase # "idle" /\ Idle.phase = "idle"
    BY DEF Opens, Idle
  <2> QED  BY <1>1, <2>1, EndsMakes
<1>9. InTurn(request[h])'
  BY <1>8 DEF InTurn, Opens, Saves, Idle
<1> QED  BY <1>1, <1>6, <1>7, <1>8, <1>9, TurnStep DEF ChallengesInTurns

LEMMA EndTurns ==
  ASSUME IInv, AllOnTheirWay, TurnsInv, AtMostOne', NEW h \in Requests,
         DropOpen(h) \/ UseRow(h)
  PROVE  TurnsInv'
<1> DEFINE q == request[h]
           r == request'[h]
<1>1. /\ TypeOK /\ q \in Request /\ OnItsWay(q) /\ InTurn(q)
      /\ AtMostOne /\ ChallengesInTurns /\ Idle.phase = "idle"
      /\ q.phase \in {"dropOpen", "useRow"}
      /\ UNCHANGED <<cred, issued>>
  BY DEF IInv, TypeOK, AllOnTheirWay, TurnsInv, DropOpen, UseRow, At, Idle
<1>2. /\ q.op \in {"login", "mfa"} /\ Opens(q) /\ q.key \in Keys
      /\ q.challenge \in Challenges
      /\ q.op = "mfa" => /\ q.mfa \in Challenges /\ passed[q.mfa] = 0
                         /\ row[q.mfa] # "none"
  BY <1>1
     DEF OnItsWay, Opens, IInv, AllHeld, Held, InTurn, Request, Operations, Idle
<1>3. CASE DropOpen(h)
  <2>1. open' = open \ {q.challenge} /\ UNCHANGED <<row, passed>>
        /\ q.phase = "dropOpen"
    BY <1>3 DEF DropOpen, At
  <2>2. CASE Succeeds(q) /\ Ends(h)
    <3>1. /\ PassedUsed'
          /\ \A c \in Challenges : row'[c] # "none" => c <= issued
      BY <1>1, <2>1 DEF ChallengesInTurns, PassedUsed, Issued, Challenges
    <3> QED  BY <1>1, <1>2, <2>1, <2>2, <3>1, SuccessTurns
  <2>3. CASE Goes(h, "useRow") /\ UNCHANGED accepted
    <3>1. OthersStay(h) /\ Keeps(q, r) /\ r.phase = "useRow"
      BY <1>1, <2>3, GoesMakes
    <3>2. InTurn(request[h])'
      BY <1>1, <1>2, <2>1, <2>3, <3>1 DEF InTurn, Opens, Saves, Keeps, Spent
    <3>3. ChallengesInTurns'
      BY <1>1, <2>1, <2>3 DEF ChallengesInTurns, Issued, SpentGone, PassedUsed,
                              SpentOnce, Spent, Challenges
    <3> QED  BY <1>1, <3>1, <3>2, <3>3, TurnStep
  <2> QED  BY <1>3, <2>2, <2>3 DEF DropOpen
<1>4. CASE UseRow(h)
  <2>1. /\ row' = [row EXCEPT ![q.mfa] = "used"] /\ Succeeds(q)
        /\ passed' = [passed EXCEPT ![q.mfa] = @ + 1] /\ Ends(h)
        /\ UNCHANGED open /\ q.phase = "useRow"
    BY <1>4 DEF UseRow, At
  <2>2. q.challenge \notin open /\ q.op = "mfa"
    BY <1>1, <1>2, <2>1 DEF InTurn, OnItsWay
  <2>3. PassedUsed'
    BY <1>1, <1>2, <2>1, <2>2
       DEF ChallengesInTurns, PassedUsed, TypeOK, Challenges
  <2>4. \A c \in Challenges : row'[c] # "none" => c <= issued
    BY <1>1, <1>2, <2>1, <2>2 DEF ChallengesInTurns, Issued, TypeOK
  <2> QED  BY <1>1, <1>2, <2>1, <2>2, <2>3, <2>4, SuccessTurns
<1> QED  BY <1>3, <1>4

\* Challenges that are issued are new, and those that expire were not used.
LEMMA OutsideTurns ==
  ASSUME IInv, AllOnTheirWay, TurnsInv, Outside
  PROVE  TurnsInv'
<1>1. /\ TypeOK /\ issued \in Nat /\ ChallengesInTurns /\ AtMostOne
      /\ UNCHANGED <<cred, request, accepted, passed>>
      /\ \A h \in Requests : InTurn(request[h])
  BY OutsideLeaves, Bounds DEF IInv, TypeOK, TurnsInv, history
<1>2. AtMostOne'
  BY <1>1 DEF AtMostOne
<1>3. CASE UNCHANGED <<open, row>> /\ (issued' = issued \/ issued' = issued + 1)
  <2>1. ChallengesInTurns'
    BY <1>1, <1>3 DEF ChallengesInTurns, Issued, SpentGone, PassedUsed,
                      SpentOnce, Spent, Challenges
  <2>2. ASSUME NEW h \in Requests  PROVE InTurn(request[h])'
    <3>1. InTurn(request[h])
      BY <1>1
    <3> QED  BY <1>1, <1>3, <3>1 DEF InTurn, Opens, Saves, Spent
  <2> QED  BY <1>2, <2>1, <2>2 DEF TurnsInv
<1>4. CASE BeginAuthentication
  <2>1. /\ issued' = issued + 1 /\ open' = open \union {issued + 1}
        /\ row' = row
    BY <1>4 DEF BeginAuthentication
  <2>2. issued + 1 \in Challenges => ~Spent(issued + 1)
    BY <1>1 DEF ChallengesInTurns, Issued
  <2>3. ChallengesInTurns'
    BY SMTT(30), <1>1, <2>1, <2>2 DEF ChallengesInTurns, Issued, SpentGone, PassedUsed,
                      SpentOnce, Spent, Challenges
  <2>4. ASSUME NEW h \in Requests  PROVE InTurn(request[h])'
    <3>1. InTurn(request[h]) /\ OnItsWay(request[h])
      BY <1>1 DEF AllOnTheirWay
    <3>2. request[h].phase = "useRow" => Opens(request[h])
      BY <3>1 DEF OnItsWay, Opens, IInv, TypeOK, Request, Operations, Idle
    <3> QED  BY <1>1, <2>1, <3>1, <3>2 DEF InTurn, Opens, Saves, Spent
  <2> QED  BY <1>2, <2>3, <2>4 DEF TurnsInv
<1>5. CASE ChallengeExpires
  <2>1. /\ open' \subseteq open /\ issued' = issued
        /\ \A c \in Challenges :
             \/ row'[c] = row[c]
             \/ row[c] = "open" /\ row'[c] = "expired"
    BY <1>1, <1>5 DEF ChallengeExpires, TypeOK
  <2>2. ChallengesInTurns'
    BY <1>1, <2>1 DEF ChallengesInTurns, Issued, SpentGone, PassedUsed,
                      SpentOnce, Spent, Challenges
  <2>3. ASSUME NEW h \in Requests  PROVE InTurn(request[h])'
    <3>1. /\ InTurn(request[h]) /\ OnItsWay(request[h])
          /\ request[h] \in Request
      BY <1>1 DEF AllOnTheirWay, TypeOK
    <3>2. request[h].op = "mfa" => request[h].mfa \in Challenges
      BY <3>1 DEF OnItsWay
    <3>3. request[h].op = "challenge" /\ request[h].challenge \in 1 .. issued
            => request[h].challenge \in Challenges
      BY <1>1, Bounds DEF Challenges, TypeOK
    <3> QED
      BY <1>1, <2>1, <3>1, <3>2, <3>3 DEF InTurn, Opens, Saves, Spent
  <2> QED  BY <1>2, <2>2, <2>3 DEF TurnsInv
<1> QED
  BY <1>3, <1>4, <1>5
     DEF Outside, BeginRegistration, Attest, Sign, vars, store

LEMMA RequestTurns ==
  ASSUME IInv, AllOnTheirWay, TurnsInv, RevokeInv, AtMostOne',
         NEW h \in Requests, RequestNext(h)
  PROVE  TurnsInv'
BY ReadTurns, SaveTurns, SettingTurns, CreateTurns, EndTurns DEF RequestNext

-----------------------------------------------------------------------------
(* What the run checks, for every value of the constants                   *)

\* What each scenario keeps.
ScenarioInv ==
  /\ AllOnTheirWay
  /\ Within
  /\ scenario # "logins" => RevokeInv
  /\ scenario # "settings" => FactorInv
  /\ scenario = "turns" => TurnsInv

LEMMA WithinTurns ==
  ASSUME Within, scenario = "turns"
  PROVE  AtMostOne
<1> SUFFICES ASSUME NEW g \in Requests, NEW h \in Requests,
                    request[g] # Idle, request[h] # Idle, g # h
             PROVE  FALSE
  BY DEF AtMostOne
<1>1. {g, h} \subseteq InFlight /\ IsFiniteSet(InFlight)
  <2>1. InFlight \in SUBSET Requests
    BY DEF InFlight
  <2> QED  BY <2>1, PasskeyConstants, FS_Subset DEF InFlight
<1>2. Cardinality({g, h}) = 2
  <2>1. Cardinality({g}) = 1 /\ IsFiniteSet({g})
    BY FS_Singleton
  <2>2. Cardinality({g} \union {h}) = Cardinality({g}) + 1
    BY <2>1, FS_AddElement
  <2>3. {g} \union {h} = {g, h}
    OBVIOUS
  <2> QED  BY <2>1, <2>2, <2>3
<1>3. Cardinality({g, h}) <= Cardinality(InFlight)
  BY <1>1, FS_Subset
<1>4. Cardinality(InFlight) \in Nat /\ Cardinality(InFlight) <= 1
  BY <1>1, FS_CardinalityType DEF Within
<1> QED  BY <1>2, <1>3, <1>4

\* Who may be in flight.
LEMMA WithinOps ==
  ASSUME Within
  PROVE  /\ scenario \in {"turns", "logins", "settings"}
         /\ scenario # "logins" => AtMostOne \/ OnlyOps({"register", "revoke"})
         /\ scenario # "settings" => AtMostOne \/ OnlyOps({"revoke", "login"})
<1>1. Idle.op = "none"
  BY DEF Idle
<1>2. ASSUME NEW ops, Only(ops)  PROVE OnlyOps(ops)
  BY <1>1, <1>2 DEF Only, OnlyOps, InFlight
<1>3. CASE scenario = "turns"
  BY <1>3, WithinTurns
<1>4. CASE scenario = "logins" /\ Only({"revoke", "login"})
  BY <1>2, <1>4
<1>5. CASE scenario = "settings" /\ Only({"register", "revoke"})
  BY <1>2, <1>5
<1> QED  BY <1>3, <1>4, <1>5 DEF Within

\* Rows and requests are left alone.
LEMMA OutsideScenarios ==
  ASSUME IInv, Outside
  PROVE  /\ RevokeInv => RevokeInv'
         /\ FactorInv => FactorInv'
<1>1. UNCHANGED <<cred, factor, request, faults, revoked>>
  BY OutsideLeaves DEF history
<1>2. RevokeInv => RevokeInv'
  BY <1>1 DEF RevokeInv, RevokedStaysRevoked, SaveHeld, Saves, HasRevoked
<1>3. ASSUME FactorInv  PROVE FactorInv'
  <2>1. OneRow'
    BY <1>1, <1>3 DEF FactorInv, OneRow, Factors
  <2>2. SwitchedOff'
    BY <1>1, <1>3 DEF FactorInv, SwitchedOff, On, Factors, Enabled, HasRevoked
  <2>3. ASSUME NEW h \in Requests  PROVE FactorHeld(request[h])'
    <3>1. FactorHeld(request[h])
      BY <1>3 DEF FactorInv
    <3> QED
      BY <1>1, <3>1 DEF FactorHeld, Inserted, Saves, Factors
  <2> QED  BY <2>1, <2>2, <2>3 DEF FactorInv
<1> QED  BY <1>2, <1>3

LEMMA NextScenarios ==
  IInv /\ ScenarioInv /\ [MCNext]_<<vars, scenario>> => ScenarioInv'
<1> SUFFICES ASSUME IInv, ScenarioInv, [MCNext]_<<vars, scenario>>
             PROVE  ScenarioInv'
  OBVIOUS
<1>1. scenario' = scenario /\ [Next]_vars
  BY DEF MCNext
<1>2. AllOnTheirWay'
  BY <1>1, NextWay DEF ScenarioInv
<1>3. CASE UNCHANGED <<vars, scenario>>
  <2>1. Outside
    BY <1>3 DEF Outside
  <2>2. Within'
    BY <1>3 DEF ScenarioInv, Within, InFlight, Only, vars, store
  <2>3. scenario = "turns" => TurnsInv'
    BY <2>1, OutsideTurns DEF ScenarioInv
  <2> QED  BY <1>1, <1>2, <2>1, <2>2, <2>3, OutsideScenarios DEF ScenarioInv
<1>4. CASE MCNext
  <2>1. Within' /\ Within
    BY <1>4 DEF MCNext, ScenarioInv
  <2>2. scenario = "turns" => AtMostOne'
    <3>1. Within' /\ (scenario = "turns")' => AtMostOne'
      BY WithinTurns, PTL
    <3> QED  BY <1>1, <2>1, <3>1
  <2>3. CASE Outside
    <3>1. scenario = "turns" => TurnsInv'
      BY <2>3, OutsideTurns DEF ScenarioInv
    <3> QED  BY <1>1, <1>2, <2>1, <2>3, <3>1, OutsideScenarios DEF ScenarioInv
  <2>4. ASSUME NEW h \in Requests, RequestNext(h)  PROVE ScenarioInv'
    <3>1. scenario # "logins" => RevokeInv'
      BY <2>1, <2>4, WithinOps, RequestRevokes DEF ScenarioInv
    <3>2. scenario # "settings" => FactorInv'
      BY <2>1, <2>4, WithinOps, RequestFactor DEF ScenarioInv
    <3>3. scenario = "turns" => TurnsInv'
      BY <2>2, <2>4, RequestTurns DEF ScenarioInv
    <3> QED  BY <1>1, <1>2, <2>1, <3>1, <3>2, <3>3 DEF ScenarioInv
  <2> QED  BY <1>1, <2>3, <2>4, NextCases
<1> QED  BY <1>3, <1>4

LEMMA InitScenarios == MCInit => ScenarioInv
<1> SUFFICES ASSUME MCInit  PROVE ScenarioInv
  OBVIOUS
<1>1. /\ \A h \in Requests : request[h] = Idle
      /\ Init /\ scenario \in {"turns", "logins", "settings"}
      /\ faults = 0 /\ open = {} /\ pending = 0 /\ revoked = {} /\ issued = 0
  BY DEF MCInit, Init
<1>2. AllOnTheirWay
  BY <1>1, InitWay
<1>3. Within
  <2>1. InFlight = {}
    BY <1>1 DEF InFlight
  <2>2. Cardinality(InFlight) = 0 /\ Cardinality(open) = 0
    BY <1>1, <2>1, FS_EmptySet
  <2> QED  BY <1>1, <2>1, <2>2 DEF Within, Only
<1>4. RevokeInv
  <2>1. SaveHeld(Idle, cred)
    BY DEF SaveHeld, Saves, HasRevoked, Idle
  <2> QED  BY <1>1, <2>1 DEF RevokeInv, RevokedStaysRevoked
<1>5. FactorInv
  <2>1. /\ \A f \in Factors : f # 1 => factor[f] = "none"
        /\ On => Enabled # {}
    BY <1>1 DEF Init, On, Enabled
  <2> QED  BY <1>1, <2>1, IdleFactor DEF FactorInv, OneRow, SwitchedOff
<1>6. TurnsInv
  <2>1. /\ \A k \in Keys, c \in Challenges : accepted[<<k, c>>] = 0
        /\ \A c \in Challenges : passed[c] = 0 /\ row[c] = "none"
    BY <1>1 DEF Init
  <2>2. ChallengesInTurns
    <3>1. ASSUME NEW c \in Challenges  PROVE ~Spent(c)
      <4>1. \A k \in Keys : accepted[<<k, c>>] = 0
        BY <2>1
      <4>2. ~(0 > 0)
        OBVIOUS
      <4> QED  BY <4>1, <4>2 DEF Spent
    <3>2. Issued /\ SpentGone
      BY <1>1, <2>1, <3>1 DEF Issued, SpentGone
    <3>3. PassedUsed /\ SpentOnce
      BY <2>1 DEF PassedUsed, SpentOnce
    <3> QED  BY <3>2, <3>3 DEF ChallengesInTurns
  <2>3. AtMostOne
    BY <1>1 DEF AtMostOne
  <2> QED  BY <1>1, <2>2, <2>3, IdleInTurn DEF TurnsInv
<1> QED  BY <1>2, <1>3, <1>4, <1>5, <1>6 DEF ScenarioInv

LEMMA SpecScenarios == MCSpec => [](IInv /\ ScenarioInv)
<1>1. MCInit => IInv /\ ScenarioInv
  BY InitIInv, InitScenarios DEF MCInit
<1>2. IInv /\ ScenarioInv /\ [MCNext]_<<vars, scenario>>
        => IInv' /\ ScenarioInv'
  <2>1. [MCNext]_<<vars, scenario>> => [Next]_vars
    BY DEF MCNext
  <2> QED  BY <2>1, NextIInv, NextScenarios
<1> QED  BY <1>1, <1>2, PTL DEF MCSpec

\* Whatever overlaps, a passkey is registered once.  Unless a login overlaps
\* it, a revocation stays; unless a registration does, the factor goes with
\* the last passkey; in turns, a signature and a second factor let a user in
\* once.  The argument: a save writes a status that is as the row has it, or
\* "revoked" (SaveHeld); whoever finds no passkey left switches the only row
\* of the factor off before he is answered (SwitchedOff); a challenge leaves
\* Redis before its login succeeds (SpentGone).
THEOREM KeysAreSafe == MCSpec => []KeysSafe
<1>1. IInv /\ ScenarioInv => KeysSafe
  <2> SUFFICES ASSUME IInv, ScenarioInv  PROVE KeysSafe
    OBVIOUS
  <2>1. TypeOK /\ RegisteredOnce
    BY DEF IInv, RegistrationsCounted, RegisteredOnce
  <2>2. RevokedStaysUnlessLogin
    BY DEF ScenarioInv, RevokeInv, RevokedStaysUnlessLogin
  <2>3. FactorBackedUnlessRegistering
    <3>1. (\A h \in Requests : request[h] = Idle)
            => ~\E h \in Requests : HasRevoked(request[h])
      BY IdleFactor
    <3>2. scenario # "settings" => SwitchedOff
      BY DEF ScenarioInv, FactorInv
    <3> QED
      BY <3>1, <3>2
         DEF SwitchedOff, On, FactorBacked, FactorBackedUnlessRegistering
  <2>4. AcceptedOnceInTurns
    <3>1. SpentOnce /\ PassedUsed => AcceptedOnce
      BY DEF SpentOnce, PassedUsed, AcceptedOnce
    <3> QED
      BY <3>1
         DEF ScenarioInv, TurnsInv, ChallengesInTurns, AcceptedOnceInTurns
  <2> QED  BY <2>1, <2>2, <2>3, <2>4 DEF KeysSafe
<1> QED  BY <1>1, SpecScenarios, PTL

\* The steps that write a row of a passkey.
LEMMA WritingSteps ==
  ASSUME NEW h \in Requests, RequestNext(h), ~Insert(h), ~Update(h)
  PROVE  UNCHANGED cred
BY DEF RequestNext, CreateChallenge, SetOpen, SaveRow, FinishRegistration,
       Begins, RevokeCredential, GetPending, FindExisting, Reads, DropPending,
       FindFactor, InsertFactor, SelectFactor, UpdateFactor, CountEnabled,
       Login, CompleteMfa, FindOn, CountKeys, FindRow, GetOpen, FindKey,
       Select, DropOpen, UseRow, Raise, store

\* In turns, what Update writes is no step back, and revokes at most.
LEMMA UpdateWrites ==
  ASSUME IInv, TurnsInv, RevokeInv, NEW h \in Requests, Update(h)
  PROVE  LET k == request[h].key
         IN  /\ k \in Keys
             /\ cred'[k].counter >= cred[k].counter
             /\ \/ cred'[k].status = cred[k].status
                \/ cred'[k].status = "revoked" /\ cred[k].status # "absent"
             /\ \A j \in Keys : j # k => cred'[j] = cred[j]
<1> DEFINE q == request[h]
           k == q.key
<1>1. /\ q \in Request /\ Held(q, cred) /\ SaveHeld(q, cred) /\ InTurn(q)
      /\ q.phase = "update"
  BY DEF IInv, TypeOK, AllHeld, RevokeInv, TurnsInv, Update, At
<1>2. /\ k \in Keys
      /\ cred'[k] = Written(q, cred[k])
      /\ \A j \in Keys : j # k => cred'[j] = cred[j]
  BY UpdateMakes
<1>3. cred[k].counter \in Nat
  BY <1>2, Bounds DEF IInv, TypeOK, Credential
<1>4. /\ cred'[k].counter = IF "counter" \in q.columns THEN q.entity.counter
                            ELSE cred[k].counter
      /\ cred'[k].status = IF "status" \in q.columns THEN q.entity.status
                           ELSE cred[k].status
  BY <1>2 DEF Written
<1>5. cred'[k].counter >= cred[k].counter
  BY <1>1, <1>3, <1>4 DEF InTurn, Saves
<1>6. \/ cred'[k].status = cred[k].status
      \/ cred'[k].status = "revoked" /\ cred[k].status # "absent"
  BY <1>1, <1>4 DEF SaveHeld, Saves, Held
<1> QED  BY <1>2, <1>5, <1>6

\* What Insert writes.
LEMMA InsertWrites ==
  ASSUME IInv, NEW h \in Requests, Insert(h)
  PROVE  \/ UNCHANGED cred
         \/ LET k == request[h].key
            IN  /\ k \in Keys /\ cred[k] = Absent
                /\ cred'[k].status = "enabled"
                /\ cred'[k].counter = 0
                /\ \A j \in Keys : j # k => cred'[j] = cred[j]
<1> DEFINE k == request[h].key
<1>1. k \in Keys /\ cred \in [Keys -> Credential]
  BY DEF Insert, At, IInv, TypeOK, AllHeld, Held
<1>2. \/ UNCHANGED cred
      \/ cred[k] = Absent /\ cred' = [cred EXCEPT ![k].status = "enabled"]
  BY Zenon DEF Insert
<1> HIDE DEF k
<1>3. ASSUME cred[k] = Absent, cred' = [cred EXCEPT ![k].status = "enabled"]
      PROVE  /\ cred'[k].status = "enabled"
             /\ cred'[k].counter = 0
             /\ \A j \in Keys : j # k => cred'[j] = cred[j]
  <2>1. cred[k].counter = 0 /\ cred[k] \in Credential
    BY <1>1, <1>3 DEF Absent
  <2> QED  BY <1>1, <1>3, <2>1 DEF Credential
<1> QED  BY Zenon, <1>1, <1>2, <1>3 DEF k

\* In turns no save takes a counter back: a revocation writes none, and a
\* login one that was found smaller.
THEOREM CountersGrow == MCSpec => CounterGrowsInTurns
<1>1. IInv /\ ScenarioInv /\ [MCNext]_<<vars, scenario>>
        => [scenario = "turns" =>
              \A k \in Keys : cred'[k].counter >= cred[k].counter]_vars
  <2> SUFFICES ASSUME IInv, ScenarioInv, [MCNext]_<<vars, scenario>>,
                      scenario = "turns", NEW k \in Keys, ~UNCHANGED vars
               PROVE  cred'[k].counter >= cred[k].counter
    OBVIOUS
  <2>1. TurnsInv /\ RevokeInv /\ cred[k].counter \in Nat
    BY Bounds DEF ScenarioInv, IInv, TypeOK, Credential
  <2>2. CASE UNCHANGED cred
    BY <2>1, <2>2
  <2>3. CASE Outside
    BY <2>2, <2>3, OutsideLeaves
  <2>4. ASSUME NEW h \in Requests, RequestNext(h)
        PROVE  cred'[k].counter >= cred[k].counter
    <3>1. CASE Update(h)
      BY <2>1, <3>1, UpdateWrites
    <3>2. CASE Insert(h)
      <4>1. CASE k = request[h].key /\ ~UNCHANGED cred
        <5>1. cred[k] = Absent /\ cred'[k].counter = 0
          BY Zenon, <2>1, <3>2, <4>1, InsertWrites
        <5> QED  BY <5>1 DEF Absent
      <4>2. CASE k # request[h].key /\ ~UNCHANGED cred
        <5>1. cred'[k] = cred[k]
          BY Zenon, <2>1, <3>2, <4>2, InsertWrites
        <5> QED  BY <2>1, <5>1
      <4> QED  BY <2>2, <4>1, <4>2
    <3> QED  BY <2>2, <2>4, <3>1, <3>2, WritingSteps
  <2> QED  BY <2>3, <2>4, NextCases DEF MCNext
<1> QED  BY <1>1, SpecScenarios, PTL DEF MCSpec, CounterGrowsInTurns

-----------------------------------------------------------------------------
(* Passkeys implements KeyRing                                             *)

Dead == {k \in Keys : cred[k].status = "revoked"}
Opened == {e \in Keys \X Challenges : accepted[e] > 0}

\* In turns, the key ring is what the rows say.
LEMMA RingIs ==
  ASSUME scenario = "turns", scenario' = "turns"
  PROVE  /\ ([Ring!Next]_(Ring!vars)) <=>
              \/ \E k \in Keys :
                   \/ /\ k \notin Enabled \union Dead
                      /\ Enabled' = Enabled \union {k}
                      /\ Dead' = Dead /\ Opened' = Opened
                   \/ /\ k \in Enabled
                      /\ Enabled' = Enabled \ {k}
                      /\ Dead' = Dead \union {k}
                      /\ Opened' = Opened
                   \/ \E c \in Challenges :
                        /\ k \in Enabled
                        /\ \A e \in Opened : e[2] # c
                        /\ Opened' = Opened \union {<<k, c>>}
                        /\ Enabled' = Enabled /\ Dead' = Dead
              \/ Enabled' = Enabled /\ Dead' = Dead /\ Opened' = Opened
BY DEF Ring!Next, Ring!vars, Ring!Register, Ring!Revoke, Ring!Open, Dead,
       Opened

LEMMA UpdateRing ==
  ASSUME IInv, TurnsInv, RevokeInv, NEW h \in Requests, Update(h),
         scenario = "turns", scenario' = "turns"
  PROVE  [Ring!Next]_(Ring!vars)
<1> DEFINE k == request[h].key
<1>1. /\ k \in Keys
      /\ \/ cred'[k].status = cred[k].status
         \/ cred'[k].status = "revoked" /\ cred[k].status # "absent"
      /\ \A j \in Keys : j # k => cred'[j] = cred[j]
  BY UpdateWrites
<1>2. Opened' = Opened /\ cred[k] \in Credential
  BY <1>1 DEF Update, Opened, Challenges, history, IInv, TypeOK
<1> HIDE DEF k
<1>3. CASE cred'[k].status = cred[k].status
  <2>1. Enabled' = Enabled /\ Dead' = Dead
    BY <1>1, <1>3 DEF Enabled, Dead
  <2> QED  BY <1>2, <2>1, RingIs
<1>4. CASE cred'[k].status = "revoked" /\ cred[k].status = "enabled"
  <2>1. k \in Enabled /\ Enabled' = Enabled \ {k} /\ Dead' = Dead \union {k}
    BY <1>1, <1>4 DEF Enabled, Dead
  <2> QED  BY <1>1, <1>2, <2>1, RingIs
<1>5. cred[k].status \in {"absent", "enabled", "revoked"}
  BY <1>2 DEF Credential
<1> QED  BY <1>1, <1>3, <1>4, <1>5

LEMMA InsertRing ==
  ASSUME IInv, NEW h \in Requests, Insert(h),
         scenario = "turns", scenario' = "turns"
  PROVE  [Ring!Next]_(Ring!vars)
<1> DEFINE k == request[h].key
<1>1. Opened' = Opened
  BY DEF Insert, Opened, Challenges, history
<1>2. CASE UNCHANGED cred
  <2>1. Enabled' = Enabled /\ Dead' = Dead
    BY <1>2 DEF Enabled, Dead
  <2> QED  BY <1>1, <2>1, RingIs
<1>3. CASE /\ k \in Keys /\ cred[k] = Absent
           /\ cred'[k].status = "enabled"
           /\ \A j \in Keys : j # k => cred'[j] = cred[j]
  <2>1. cred[k].status = "absent" /\ cred'[k].status = "enabled"
    BY <1>3 DEF Absent
  <2>2. /\ k \notin Enabled \union Dead
        /\ Enabled' = Enabled \union {k} /\ Dead' = Dead
    BY <1>3, <2>1 DEF Enabled, Dead
  <2> QED  BY <1>1, <1>3, <2>2, RingIs
<1> QED  BY <1>2, <1>3, InsertWrites

\* A login that succeeds has found its passkey enabled, and nobody has opened
\* its challenge.
LEMMA SuccessRing ==
  ASSUME IInv, AllOnTheirWay, TurnsInv, NEW h \in Requests,
         DropOpen(h) \/ UseRow(h), scenario = "turns", scenario' = "turns"
  PROVE  [Ring!Next]_(Ring!vars)
<1> DEFINE q == request[h]
           k == q.key
           c == q.challenge
<1>1. /\ InTurn(q) /\ OnItsWay(q) /\ Held(q, cred) /\ q \in Request
      /\ q.phase \in {"dropOpen", "useRow"} /\ UNCHANGED cred
  BY DEF IInv, TypeOK, AllHeld, AllOnTheirWay, TurnsInv, DropOpen, UseRow, At
<1>2. /\ k \in Keys /\ c \in Challenges /\ cred[k].status = "enabled"
      /\ ~Spent(c)
  <2>1. Opens(q)
    BY <1>1 DEF Opens, OnItsWay, Request, Operations, Idle
  <2> QED  BY <1>1, <2>1 DEF InTurn, Opens, OnItsWay, Held
<1>3. Enabled' = Enabled /\ Dead' = Dead /\ k \in Enabled
  BY <1>1, <1>2 DEF Enabled, Dead
<1>4. CASE UNCHANGED accepted
  BY <1>3, <1>4, RingIs DEF Opened, Challenges
<1>5. CASE Succeeds(q)
  <2>1. <<k, c>> \in Keys \X Challenges /\ accepted[<<k, c>>] \in Nat
    BY <1>2 DEF IInv, TypeOK
  <2>2. /\ accepted'[<<k, c>>] = accepted[<<k, c>>] + 1
        /\ \A y \in Keys \X Challenges : y # <<k, c>> => accepted'[y] = accepted[y]
    BY <1>5, <2>1 DEF Succeeds, IInv, TypeOK
  <2>3. accepted'[<<k, c>>] > 0
    BY <2>1, <2>2
  <2>4. Opened' = Opened \union {<<k, c>>}
    BY <2>1, <2>2, <2>3 DEF Opened, Challenges
  <2>5. \A e \in Opened : e[2] # c
    BY <1>2 DEF Opened, Spent
  <2> QED  BY <1>2, <1>3, <2>4, <2>5, RingIs
<1> QED  BY <1>4, <1>5 DEF DropOpen, UseRow

LEMMA OtherRing ==
  ASSUME NEW h \in Requests, RequestNext(h), ~DropOpen(h), ~UseRow(h)
  PROVE  UNCHANGED accepted
BY DEF RequestNext, CreateChallenge, SetOpen, SaveRow, FinishRegistration,
       Begins, RevokeCredential, GetPending, FindExisting, Reads, Insert,
       DropPending, FindFactor, InsertFactor, SelectFactor, UpdateFactor,
       CountEnabled, Login, CompleteMfa, FindOn, CountKeys, FindRow, GetOpen,
       FindKey, Select, Update, Raise, history

\* When requests take turns, passkeys keep to KeyRing, whichever call fails:
\* only a live key opens a challenge, once, and a dead one never lives again.
THEOREM PasskeysImplementKeyRing == MCSpec => ImplementsKeyRing
<1>1. MCInit => Ring!Init
  <2> SUFFICES ASSUME MCInit  PROVE Ring!Init
    OBVIOUS
  <2>1. \A k \in Keys : cred[k].status # "revoked"
    BY DEF MCInit, Init, Absent
  <2>2. \A e \in Keys \X Challenges : accepted[e] = 0
    BY DEF MCInit, Init
  <2>3. ~(0 > 0)
    OBVIOUS
  <2>4. /\ {k \in Keys : scenario = "turns" /\ cred[k].status = "revoked"} = {}
        /\ {e \in Keys \X Challenges :
              scenario = "turns" /\ accepted[e] > 0} = {}
    BY <2>1, <2>2, <2>3
  <2> QED  BY <2>4 DEF Ring!Init, Enabled
<1>2. IInv /\ ScenarioInv /\ [MCNext]_<<vars, scenario>>
        => [Ring!Next]_(Ring!vars)
  <2> SUFFICES ASSUME IInv, ScenarioInv, [MCNext]_<<vars, scenario>>
               PROVE  [Ring!Next]_(Ring!vars)
    OBVIOUS
  <2>1. scenario' = scenario /\ [Next]_vars
    BY DEF MCNext
  <2>2. CASE scenario # "turns"
    BY <2>1, <2>2 DEF Ring!vars
  <2>3. CASE scenario = "turns" /\ UNCHANGED <<cred, accepted>>
    <3>1. Enabled' = Enabled /\ Dead' = Dead /\ Opened' = Opened
      BY <2>3 DEF Enabled, Dead, Opened, Challenges
    <3> QED  BY <2>1, <2>3, <3>1, RingIs
  <2>4. CASE scenario = "turns" /\ Outside
    BY <2>3, <2>4, OutsideLeaves DEF history
  <2>5. ASSUME scenario = "turns", NEW h \in Requests, RequestNext(h)
        PROVE  [Ring!Next]_(Ring!vars)
    <3>1. TurnsInv /\ RevokeInv /\ AllOnTheirWay /\ scenario' = "turns"
      BY <2>1, <2>5 DEF ScenarioInv
    <3>2. CASE Insert(h)
      BY <2>5, <3>1, <3>2, InsertRing
    <3>3. CASE Update(h)
      BY <2>5, <3>1, <3>3, UpdateRing
    <3>4. CASE DropOpen(h) \/ UseRow(h)
      BY <2>5, <3>1, <3>4, SuccessRing
    <3>5. CASE ~Insert(h) /\ ~Update(h) /\ ~DropOpen(h) /\ ~UseRow(h)
      BY <2>3, <2>5, <3>5, WritingSteps, OtherRing
    <3> QED  BY <3>2, <3>3, <3>4, <3>5
  <2> QED  BY <2>1, <2>2, <2>4, <2>5, NextCases
<1> QED  BY <1>1, <1>2, SpecScenarios, PTL DEF MCSpec, ImplementsKeyRing, Ring!Spec

=============================================================================
