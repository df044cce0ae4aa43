--------------------------- MODULE RecoveryProofs ---------------------------
(***************************************************************************)
(* Theorems about RecoveryCodes, proved for any number of requests, codes, *)
(* batches and failures.  Whichever operations overlap, no batch closes    *)
(* early and guesses are bounded.  In the scenario of MCRecovery in which  *)
(* requests take turns, the one in flight knows the batch and its codes as *)
(* they are: a code is accepted once, one batch is active, a revoked batch *)
(* stays so, its status is honest, and the codes implement CodeLedger.     *)
(***************************************************************************)
EXTENDS MCRecovery, FiniteSetTheorems, TLAPS

-----------------------------------------------------------------------------
(* The inductive invariant: rows and copies                                *)

\* A row counts no more codes than are used.
RowsCount ==
  \A b \in Batches :
    /\ batch[b].usedCodes <= Cardinality(used[b])
    /\ batch[b].isActive => batch[b].exists

\* What a request holds, when rows and codes are as given: its batch exists;
\* its copy counts no more codes than are used, and while its own code is
\* still to be used, than are used besides that; and it closes the batch only
\* when all are.
Backed(r, rows, codes) ==
  /\ r.entered # 0 => r.code # 0
  /\ r.phase \in {"findCode", "saveCode", "diff", "write"} =>
       /\ r.id # 0
       /\ rows[r.id].exists
  /\ r.phase \in {"findCode", "diff", "write"} =>
       r.entity.usedCodes <= Cardinality(codes[r.id])
  /\ r.phase = "saveCode" =>
       /\ r.code # 0
       /\ r.entity.usedCodes <= Cardinality(codes[r.id] \ {r.code})
  /\ r.phase \in {"findCode", "saveCode"} => r.entity.isActive
  /\ r.phase \in {"diff", "write"} /\ ~r.entity.isActive =>
       codes[r.id] = Codes

CopiesBacked == \A h \in Requests : Backed(request[h], batch, used)

IInv == TypeOK /\ NotClosedEarly /\ RowsCount /\ CopiesBacked

-----------------------------------------------------------------------------
(* Sets of codes                                                           *)

LEMMA Bounds ==
  /\ CodeCount \in Nat /\ CodeCount > 0
  /\ MaxAttempts \in Nat /\ MaxAttempts > 1
  /\ MaxBatches \in Nat /\ MaxCount \in Nat /\ MaxFaults \in Nat
  /\ IsFiniteSet(Requests)
BY RecoveryConstants

LEMMA Counted ==
  ASSUME NEW T \in SUBSET Codes
  PROVE  /\ IsFiniteSet(T)
         /\ Cardinality(T) \in Nat
         /\ Cardinality(T) <= CodeCount
         /\ Cardinality(T) = CodeCount => T = Codes
<1>1. IsFiniteSet(Codes) /\ Cardinality(Codes) = CodeCount
  BY Bounds, FS_Interval DEF Codes
<1> QED  BY <1>1, FS_Subset, FS_CardinalityType

\* More codes never count less.
LEMMA CountGrows ==
  ASSUME NEW S \in SUBSET Codes, NEW T \in SUBSET Codes, S \subseteq T
  PROVE  Cardinality(S) <= Cardinality(T)
BY Counted, FS_Subset

\* A code that is used now was not, or does not count.
LEMMA CountUse ==
  ASSUME NEW S \in SUBSET Codes, NEW c \in Codes
  PROVE  Cardinality(S \union {c}) = Cardinality(S \ {c}) + 1
<1>1. S \ {c} \in SUBSET Codes /\ (S \ {c}) \union {c} = S \union {c}
  OBVIOUS
<1> QED  BY <1>1, Counted, FS_AddElement

LEMMA IdleType == Idle \in Request /\ NoBatch \in Batch
<1>1. NoBatch \in Batch
  BY DEF NoBatch, Batch
<1>2. 0 \in 0 .. MaxBatches /\ 0 \in 0 .. CodeCount
  BY Bounds
<1> QED  BY <1>1, <1>2 DEF Idle, Request, Operations, Phase

LEMMA IdleBacked ==
  ASSUME NEW rows, NEW codes  PROVE Backed(Idle, rows, codes)
BY DEF Backed, Idle

-----------------------------------------------------------------------------
(* What a step must do                                                     *)

\* A copy stays backed while codes are used and rows are kept.
LEMMA BackedStays ==
  ASSUME NEW r \in Request,
         NEW rows, NEW newRows,
         NEW codes \in [Batches -> SUBSET Codes],
         NEW newCodes \in [Batches -> SUBSET Codes],
         \A b \in Batches : codes[b] \subseteq newCodes[b],
         \A b \in Batches : rows[b].exists => newRows[b].exists,
         Backed(r, rows, codes)
  PROVE  Backed(r, newRows, newCodes)
<1>1. CASE r.id = 0
  BY <1>1 DEF Backed
<1>2. CASE r.id # 0
  <2>1. r.id \in Batches
    BY <1>2, Bounds DEF Request, Batches
  <2>2. Cardinality(codes[r.id]) <= Cardinality(newCodes[r.id])
    BY <2>1, CountGrows
  <2>3. Cardinality(codes[r.id] \ {r.code})
          <= Cardinality(newCodes[r.id] \ {r.code})
    BY <2>1, CountGrows
  <2>4. /\ Cardinality(codes[r.id]) \in Nat
        /\ Cardinality(newCodes[r.id]) \in Nat
        /\ Cardinality(codes[r.id] \ {r.code}) \in Nat
        /\ Cardinality(newCodes[r.id] \ {r.code}) \in Nat
    BY <2>1, Counted
  <2>5. r.entity.usedCodes \in Nat
    BY DEF Request, Batch
  <2>6. codes[r.id] = Codes => newCodes[r.id] = Codes
    BY <2>1
  <2> QED  BY <2>1, <2>2, <2>3, <2>4, <2>5, <2>6 DEF Backed
<1> QED  BY <1>1, <1>2

\* What holds of the request that moves, and of the others, holds of all.
LEMMA CopiesStay ==
  ASSUME TypeOK, CopiesBacked, NEW h \in Requests, NEW r \in Request,
         Becomes(h, r),
         used' \in [Batches -> SUBSET Codes],
         \A b \in Batches : used[b] \subseteq used'[b],
         \A b \in Batches : batch[b].exists => batch'[b].exists,
         Backed(r, batch', used')
  PROVE  CopiesBacked' /\ request' \in [Requests -> Request]
<1>1. request' \in [Requests -> Request]
  BY DEF TypeOK, Becomes
<1>2. ASSUME NEW g \in Requests  PROVE Backed(request'[g], batch', used')
  <2>1. CASE g = h
    BY <2>1 DEF Becomes, TypeOK
  <2>2. CASE g # h
    <3>1. request'[g] = request[g]
      BY <2>2 DEF Becomes, TypeOK
    <3>2. Backed(request[g], batch, used) /\ request[g] \in Request
      BY DEF CopiesBacked, TypeOK
    <3>3. used \in [Batches -> SUBSET Codes]
      BY DEF TypeOK
    <3> QED  BY <3>1, <3>2, <3>3, BackedStays
  <2> QED  BY <2>1, <2>2
<1>3. CopiesBacked'
  BY <1>2 DEF CopiesBacked
<1> QED  BY <1>1, <1>3

\* The variables but rows, codes and requests keep their types.
RestTyped ==
  /\ begun \in 0 .. MaxBatches
  /\ attempts \in Nat
  /\ {expiring, locked} \subseteq BOOLEAN
  /\ faults \in 0 .. MaxFaults
  /\ accepted \in [Batches \X Codes -> Nat]
  /\ revoked \subseteq Batches
  /\ guesses \in Nat

\* A step of a request that writes neither rows nor codes.
LEMMA RowsStay ==
  ASSUME IInv, NEW h \in Requests, NEW r \in Request, Becomes(h, r),
         UNCHANGED <<batch, used, revoked>>, RestTyped',
         Backed(r, batch, used)
  PROVE  IInv'
<1>1. CopiesBacked' /\ request' \in [Requests -> Request]
  BY CopiesStay DEF IInv, TypeOK
<1>2. TypeOK'
  BY <1>1 DEF IInv, TypeOK, RestTyped
<1>3. NotClosedEarly' /\ RowsCount'
  BY DEF IInv, NotClosedEarly, RowsCount
<1> QED  BY <1>1, <1>2, <1>3 DEF IInv

\* A request that ends holds nothing.
LEMMA EndStays ==
  ASSUME IInv, NEW h \in Requests, Ends(h),
         UNCHANGED <<batch, used, revoked>>, RestTyped'
  PROVE  IInv'
BY RowsStay, IdleType, IdleBacked DEF Ends

-----------------------------------------------------------------------------
(* generateForUser, revokeActiveBatch and acknowledgeBatch                 *)

LEMMA GenerateStep ==
  ASSUME IInv, NEW h \in Requests, Generate(h)  PROVE IInv'
<1> DEFINE r == [Idle EXCEPT !.op = "generate", !.phase = "match",
                             !.id = begun + 1]
<1>1. begun + 1 \in 0 .. MaxBatches
  BY Bounds DEF Generate, IInv, TypeOK
<1>2. r \in Request
  BY <1>1, IdleType DEF Request, Operations, Phase
<1>3. Backed(r, batch, used)
  BY DEF Backed, Idle
<1>4. RestTyped'
  BY <1>1 DEF Generate, history, IInv, TypeOK, RestTyped
<1> QED  BY <1>2, <1>3, <1>4, RowsStay DEF Generate, history

LEMMA RevokeStep ==
  ASSUME IInv, NEW h \in Requests, Revoke(h)  PROVE IInv'
<1> DEFINE r == [Idle EXCEPT !.op = "revoke", !.phase = "match"]
<1>1. r \in Request
  BY IdleType DEF Request, Operations, Phase
<1>2. Backed(r, batch, used)
  BY DEF Backed, Idle
<1>3. RestTyped'
  BY DEF Revoke, history, IInv, TypeOK, RestTyped
<1> QED  BY <1>1, <1>2, <1>3, RowsStay DEF Revoke, history

LEMMA MatchStep ==
  ASSUME IInv, NEW h \in Requests, Match(h)  PROVE IInv'
<1> DEFINE r == [request[h] EXCEPT !.phase = "lock", !.seen = Active]
<1>1. r \in Request
  BY ZenonT(60) DEF IInv, TypeOK, Request, Phase, Active
<1>2. Backed(r, batch, used)
  BY DEF IInv, TypeOK, CopiesBacked, Backed, Request
<1>3. RestTyped'
  BY DEF Match, history, IInv, TypeOK, RestTyped
<1> QED  BY <1>1, <1>2, <1>3, RowsStay DEF Match, history

LEMMA LockStep ==
  ASSUME IInv, NEW h \in Requests, Lock(h)  PROVE IInv'
<1> DEFINE r == [request[h] EXCEPT !.phase = "commit",
                                   !.seen = @ \intersect Active]
<1>1. r \in Request
  BY ZenonT(60) DEF IInv, TypeOK, Request, Phase
<1>2. Backed(r, batch, used)
  BY DEF IInv, TypeOK, CopiesBacked, Backed, Request
<1>3. RestTyped'
  BY DEF Lock, history, IInv, TypeOK, RestTyped
<1> QED  BY <1>1, <1>2, <1>3, RowsStay DEF Lock, history

\* The batches that lose their activity are revoked; the new one is active.
LEMMA CommitStep ==
  ASSUME IInv, NEW h \in Requests, Commit(h)  PROVE IInv'
<1> DEFINE r == request[h]
<1>1. r.seen \subseteq Batches
  BY DEF IInv, TypeOK, Request
<1>2. ASSUME NEW b \in Batches
      PROVE  /\ batch'[b] \in Batch
             /\ \/ /\ batch'[b].exists /\ batch'[b].isActive
                   /\ batch'[b].usedCodes = 0
                \/ /\ batch'[b].exists = batch[b].exists
                   /\ batch'[b].usedCodes = batch[b].usedCodes
                   /\ batch'[b].isActive => batch[b].isActive
                   /\ ~batch'[b].isActive =>
                        ~batch[b].isActive \/ b \in r.seen
  <2>1. batch[b] \in Batch
    BY DEF IInv, TypeOK
  <2>2. CASE r.op = "generate" /\ b = r.id
    <3>1. batch'[b] = [exists |-> TRUE, isActive |-> TRUE, usedCodes |-> 0]
      BY <2>2 DEF Commit
    <3> QED  BY <3>1 DEF Batch
  <2>3. CASE ~(r.op = "generate" /\ b = r.id)
    <3>1. batch'[b] = [batch[b] EXCEPT !.isActive = @ /\ b \notin r.seen]
      BY <2>3 DEF Commit
    <3> QED  BY <3>1, <2>1 DEF Batch
  <2> QED  BY <2>2, <2>3
<1>3. batch' \in [Batches -> Batch]
  BY <1>2 DEF Commit
<1>4. UNCHANGED used /\ used \in [Batches -> SUBSET Codes]
  BY DEF Commit, IInv, TypeOK
<1>5. RestTyped'
  BY <1>1 DEF Commit, IInv, TypeOK, RestTyped
<1>6. CopiesBacked' /\ request' \in [Requests -> Request]
  <2>1. \A b \in Batches : batch[b].exists => batch'[b].exists
    BY <1>2
  <2>2. Becomes(h, Idle)
    BY DEF Commit, Ends
  <2> QED  BY <2>1, <2>2, <1>4, CopiesStay, IdleType, IdleBacked DEF IInv
<1>7. TypeOK'
  BY <1>3, <1>4, <1>5, <1>6 DEF TypeOK, RestTyped
<1>8. RowsCount'
  <2> SUFFICES ASSUME NEW b \in Batches
               PROVE  /\ batch'[b].usedCodes <= Cardinality(used[b])
                      /\ batch'[b].isActive => batch'[b].exists
    BY <1>4 DEF RowsCount
  <2>1. Cardinality(used[b]) \in Nat
    BY <1>4, Counted
  <2>2. /\ batch[b].usedCodes <= Cardinality(used[b])
        /\ batch[b].isActive => batch[b].exists
    BY DEF IInv, RowsCount
  <2> QED  BY <2>1, <2>2, <1>2
<1>9. NotClosedEarly'
  BY ZenonT(60), <1>2, <1>4 DEF Commit, IInv, NotClosedEarly
<1> QED  BY <1>7, <1>8, <1>9, <1>6 DEF IInv

\* What is found is active, and counts no more codes than are used.
LEMMA FoundBacked ==
  ASSUME IInv, NEW b \in Active
  PROVE  /\ b \in Batches /\ b \in 0 .. MaxBatches /\ b # 0
         /\ batch[b] \in Batch
         /\ batch[b].exists /\ batch[b].isActive
         /\ batch[b].usedCodes <= Cardinality(used[b])
BY Bounds DEF IInv, TypeOK, RowsCount, Active, Batches

LEMMA AcknowledgeStep ==
  ASSUME IInv, NEW h \in Requests, NEW b \in Batches, Acknowledge(h, b)
  PROVE  IInv'
<1> DEFINE r == [Idle EXCEPT !.op = "acknowledge", !.phase = "diff",
                             !.id = b, !.entity = batch[b]]
<1>1. b \in Active
  BY DEF Acknowledge
<1>2. r \in Request
  BY <1>1, FoundBacked, IdleType DEF Request, Operations, Phase
<1>3. Backed(r, batch, used)
  BY <1>1, FoundBacked DEF Backed, Idle
<1>4. RestTyped'
  BY DEF Acknowledge, history, IInv, TypeOK, RestTyped
<1> QED  BY <1>2, <1>3, <1>4, RowsStay DEF Acknowledge, history

LEMMA DiffStep ==
  ASSUME IInv, NEW h \in Requests, Diff(h)  PROVE IInv'
<1> DEFINE q == request[h]
           r == [q EXCEPT !.phase = "write", !.columns =
                   {c \in {"isActive", "usedCodes"} :
                      q.entity[c] # batch[q.id][c]}]
<1>1. q \in Request /\ Backed(q, batch, used) /\ q.phase = "diff"
  BY DEF IInv, TypeOK, CopiesBacked, Diff, At
<1>2. r \in Request
  BY <1>1 DEF Request, Phase
<1>3. Backed(r, batch, used)
  BY <1>1 DEF Backed, Request
<1>4. RestTyped'
  BY DEF Diff, history, IInv, TypeOK, RestTyped
<1> QED  BY <1>2, <1>3, <1>4, RowsStay DEF Diff, history

\* Each column comes from a copy that is backed, or stays.
LEMMA WriteStep ==
  ASSUME IInv, NEW h \in Requests, Write(h)  PROVE IInv'
<1> DEFINE q == request[h]
           b == q.id
           next == IF q.op = "verify"
                   THEN [Idle EXCEPT !.op = "verify",
                                     !.phase = "clearAttempts",
                                     !.entered = q.entered, !.code = q.code]
                   ELSE Idle
<1>1. q \in Request /\ Backed(q, batch, used) /\ q.phase = "write"
  BY DEF IInv, TypeOK, CopiesBacked, Write, At
<1>2. b \in Batches /\ batch[b].exists
  BY <1>1, Bounds DEF Backed, Request, Batches
<1>3. q.entity \in Batch /\ batch[b] \in Batch
  BY <1>1, <1>2 DEF Request, IInv, TypeOK
<1>4. /\ batch'[b].exists
      /\ batch'[b].isActive \in {q.entity.isActive, batch[b].isActive}
      /\ batch'[b].usedCodes \in {q.entity.usedCodes, batch[b].usedCodes}
      /\ batch'[b] \in Batch
  <2> DEFINE a == IF "isActive" \in q.columns THEN q.entity.isActive
                  ELSE batch[b].isActive
             u == IF "usedCodes" \in q.columns THEN q.entity.usedCodes
                  ELSE batch[b].usedCodes
  <2>1. batch'[b] = [exists |-> TRUE, isActive |-> a, usedCodes |-> u]
    BY <1>2 DEF Write, IInv, TypeOK
  <2>2. /\ a \in {q.entity.isActive, batch[b].isActive}
        /\ u \in {q.entity.usedCodes, batch[b].usedCodes}
    OBVIOUS
  <2>3. a \in BOOLEAN /\ u \in Nat
    BY <1>3 DEF Batch
  <2> HIDE DEF a, u
  <2> QED  BY <2>1, <2>2, <2>3 DEF Batch
<1>5. \A c \in Batches : c # b => batch'[c] = batch[c]
  BY DEF Write, IInv, TypeOK
<1>6. batch' \in [Batches -> Batch]
  BY <1>2, <1>4, <1>5 DEF Write, IInv, TypeOK
<1>7. UNCHANGED used /\ used \in [Batches -> SUBSET Codes]
  BY DEF Write, IInv, TypeOK
<1>8. next \in Request /\ Becomes(h, next)
  BY <1>1, IdleType DEF Write, Request, Operations, Phase, Ends
<1>9. Backed(next, batch', used')
  BY <1>1 DEF Backed, Idle
<1>10. CopiesBacked' /\ request' \in [Requests -> Request]
  <2>1. \A c \in Batches : batch[c].exists => batch'[c].exists
    BY <1>4, <1>5
  <2> HIDE DEF next
  <2> QED  BY <2>1, <1>7, <1>8, <1>9, CopiesStay DEF IInv
<1>11. TypeOK'
  BY <1>6, <1>7, <1>10 DEF Write, history, IInv, TypeOK
<1>12. RowsCount'
  BY <1>1, <1>2, <1>4, <1>5, <1>7 DEF IInv, RowsCount, Backed
<1>13. NotClosedEarly'
  <2> SUFFICES ASSUME NEW c \in Batches, batch'[c].exists,
                      ~batch'[c].isActive, c \notin revoked
               PROVE  used[c] = Codes
    BY <1>7 DEF NotClosedEarly, Write, history
  <2>1. CASE c # b
    BY <2>1, <1>5 DEF IInv, NotClosedEarly
  <2>2. CASE c = b
    BY <2>2, <1>1, <1>2, <1>4 DEF IInv, NotClosedEarly, Backed
  <2> QED  BY <2>1, <2>2
<1> QED  BY <1>10, <1>11, <1>12, <1>13 DEF IInv

-----------------------------------------------------------------------------
(* verifyAndConsume and registerFailedAttempt                              *)

LEMMA VerifyStep ==
  ASSUME IInv, NEW h \in Requests,
         NEW b \in 0 .. MaxBatches, NEW c \in 0 .. CodeCount,
         b # 0 => c # 0, Verify(h, b, c)
  PROVE  IInv'
<1> DEFINE r == [Idle EXCEPT !.op = "verify", !.phase = "findBatch",
                             !.entered = b, !.code = c]
<1>1. r \in Request
  BY IdleType DEF Request, Operations, Phase
<1>2. Backed(r, batch, used)
  BY DEF Backed, Idle
<1>3. RestTyped'
  BY DEF Verify, history, IInv, TypeOK, RestTyped
<1> QED  BY <1>1, <1>2, <1>3, RowsStay DEF Verify, history

LEMMA RefuseStep ==
  ASSUME IInv, NEW h \in Requests, Refuse(h),
         UNCHANGED <<batch, used, begun, attempts, expiring, locked, faults,
                     accepted, revoked>>
  PROVE  IInv'
<1> DEFINE r == [Idle EXCEPT !.op = "verify", !.phase = "count"]
<1>1. r \in Request
  BY IdleType DEF Request, Operations, Phase
<1>2. Backed(r, batch, used)
  BY DEF Backed, Idle
<1>3. RestTyped'
  BY DEF Refuse, IInv, TypeOK, RestTyped
<1> QED  BY <1>1, <1>2, <1>3, RowsStay DEF Refuse

LEMMA FindBatchStep ==
  ASSUME IInv, NEW h \in Requests, FindBatch(h)  PROVE IInv'
<1>1. ASSUME NEW b \in Active, UNCHANGED guesses,
             Becomes(h, [request[h] EXCEPT !.phase = "findCode", !.id = b,
                                           !.entity = batch[b]])
      PROVE  IInv'
  <2> DEFINE q == request[h]
             r == [q EXCEPT !.phase = "findCode", !.id = b,
                            !.entity = batch[b]]
  <2>1. q \in Request /\ Backed(q, batch, used)
    BY DEF IInv, TypeOK, CopiesBacked
  <2>2. r \in Request
    BY <2>1, FoundBacked DEF Request, Phase
  <2>3. Backed(r, batch, used)
    BY <2>1, FoundBacked DEF Backed, Request
  <2>4. RestTyped'
    BY <1>1 DEF FindBatch, IInv, TypeOK, RestTyped
  <2> QED  BY <1>1, <2>2, <2>3, <2>4, RowsStay DEF FindBatch
<1>2. CASE Refuse(h)
  BY <1>2, RefuseStep DEF FindBatch
<1> QED  BY <1>1, <1>2 DEF FindBatch

\* The code that is found is not among those that the copy counts.
LEMMA FindCodeStep ==
  ASSUME IInv, NEW h \in Requests, FindCode(h)  PROVE IInv'
<1>1. CASE Unused(request[h]) /\ Goes(h, "saveCode") /\ UNCHANGED guesses
  <2> DEFINE q == request[h]
             r == [q EXCEPT !.phase = "saveCode"]
  <2>1. q \in Request /\ Backed(q, batch, used) /\ q.phase = "findCode"
    BY DEF IInv, TypeOK, CopiesBacked, FindCode, At
  <2>2. r \in Request
    BY <2>1 DEF Request, Phase
  <2>3. used[q.id] \ {q.code} = used[q.id] /\ q.code # 0
    BY <1>1, <2>1 DEF Unused, Backed
  <2>4. Backed(r, batch, used)
    BY <2>1, <2>3 DEF Backed, Request
  <2>5. RestTyped'
    BY <1>1 DEF FindCode, IInv, TypeOK, RestTyped
  <2> QED  BY <1>1, <2>2, <2>4, <2>5, RowsStay DEF FindCode, Goes
<1>2. CASE Refuse(h)
  BY <1>2, RefuseStep DEF FindCode
<1> QED  BY <1>1, <1>2 DEF FindCode

\* With the code, what the copy counts stays within what is used; when it
\* closes the batch, all codes are.
LEMMA SaveCodeStep ==
  ASSUME IInv, NEW h \in Requests, SaveCode(h)  PROVE IInv'
<1> DEFINE q == request[h]
           b == q.id
           e == Consumed(q.entity)
           r == [q EXCEPT !.phase = "diff", !.entity = e]
           grown == used[b] \union {q.code}
<1>1. q \in Request /\ Backed(q, batch, used) /\ q.phase = "saveCode"
  BY DEF IInv, TypeOK, CopiesBacked, SaveCode, At
<1>2. /\ b \in Batches /\ batch[b].exists
      /\ q.code \in Codes
      /\ q.entity \in Batch /\ q.entity.isActive
  BY <1>1, Bounds DEF Backed, Request, Batches, Codes
<1>3. /\ used \in [Batches -> SUBSET Codes]
      /\ used' = [used EXCEPT ![b] = grown]
      /\ UNCHANGED <<batch, revoked>>
  BY DEF SaveCode, history, IInv, TypeOK
<1>4. /\ used' \in [Batches -> SUBSET Codes]
      /\ used'[b] = grown
      /\ \A c \in Batches : used[c] \subseteq used'[c]
  BY <1>2, <1>3
<1>5. /\ Cardinality(grown) \in Nat
      /\ Cardinality(grown) <= CodeCount
      /\ Cardinality(grown) = CodeCount => grown = Codes
  BY <1>2, <1>4, Counted
<1>6. q.entity.usedCodes + 1 <= Cardinality(grown)
  <2>1. Cardinality(grown) = Cardinality(used[b] \ {q.code}) + 1
    BY <1>2, <1>3, CountUse
  <2>2. Cardinality(used[b] \ {q.code}) \in Nat
    BY <1>2, <1>3, Counted
  <2>3. q.entity.usedCodes <= Cardinality(used[b] \ {q.code})
    BY <1>1 DEF Backed
  <2> QED  BY <2>1, <2>2, <2>3, <1>2 DEF Batch
<1>7. /\ e \in Batch
      /\ e.usedCodes = q.entity.usedCodes + 1
      /\ ~e.isActive => q.entity.usedCodes + 1 >= CodeCount
  <2> DEFINE left == q.entity.isActive /\ q.entity.usedCodes + 1 < CodeCount
  <2>1. left \in BOOLEAN /\ q.entity.usedCodes + 1 \in Nat
    BY <1>2 DEF Batch
  <2>2. ~left => q.entity.usedCodes + 1 >= CodeCount
    BY <1>2, <2>1, Bounds
  <2>3. e = [q.entity EXCEPT !.usedCodes = @ + 1, !.isActive = left]
    BY DEF Consumed
  <2> HIDE DEF left
  <2>4. e = [exists |-> q.entity.exists, isActive |-> left,
             usedCodes |-> q.entity.usedCodes + 1]
    BY <1>2, <2>3 DEF Batch
  <2> HIDE DEF e
  <2> QED  BY <1>2, <2>1, <2>2, <2>4 DEF Batch
<1>8. ~e.isActive => grown = Codes
  BY <1>2, <1>5, <1>6, <1>7, Bounds DEF Batch
<1> HIDE DEF e, grown
<1>9. r \in Request
  BY <1>1, <1>7 DEF Request, Phase
<1>10. Backed(r, batch', used')
  BY <1>1, <1>2, <1>3, <1>4, <1>6, <1>7, <1>8 DEF Backed, Request
<1>11. Becomes(h, r)
  BY DEF SaveCode, e
<1>12. CopiesBacked' /\ request' \in [Requests -> Request]
  <2>1. \A c \in Batches : batch[c].exists => batch'[c].exists
    BY <1>3
  <2> HIDE DEF r
  <2> QED  BY <2>1, <1>4, <1>9, <1>10, <1>11, CopiesStay DEF IInv
<1>13. TypeOK'
  BY <1>4, <1>12 DEF SaveCode, history, IInv, TypeOK
<1>14. RowsCount'
  <2> SUFFICES ASSUME NEW c \in Batches
               PROVE  batch[c].usedCodes <= Cardinality(used'[c])
    BY <1>3 DEF IInv, RowsCount
  <2>1. Cardinality(used[c]) <= Cardinality(used'[c])
    BY <1>3, <1>4, CountGrows
  <2>2. Cardinality(used[c]) \in Nat /\ Cardinality(used'[c]) \in Nat
    BY <1>3, <1>4, Counted
  <2>3. batch[c].usedCodes \in Nat
    BY DEF IInv, TypeOK, Batch
  <2> QED  BY <2>1, <2>2, <2>3 DEF IInv, RowsCount
<1>15. NotClosedEarly'
  <2>1. \A c \in Batches : used[c] = Codes => used'[c] = Codes
    BY <1>4
  <2> QED  BY <1>3, <2>1 DEF IInv, NotClosedEarly
<1> QED  BY <1>12, <1>13, <1>14, <1>15 DEF IInv

LEMMA ClearAttemptsStep ==
  ASSUME IInv, NEW h \in Requests, ClearAttempts(h)  PROVE IInv'
<1> DEFINE r == [request[h] EXCEPT !.phase = "clearLock"]
<1>1. r \in Request
  BY DEF IInv, TypeOK, Request, Phase
<1>2. Backed(r, batch, used)
  BY DEF IInv, TypeOK, CopiesBacked, Backed, Request
<1>3. RestTyped'
  BY DEF ClearAttempts, IInv, TypeOK, RestTyped
<1> QED  BY <1>1, <1>2, <1>3, RowsStay DEF ClearAttempts, Goes

\* Counters of a table.
LEMMA OneMore ==
  ASSUME NEW S, NEW f \in [S -> Nat], NEW x
  PROVE  [f EXCEPT ![x] = @ + 1] \in [S -> Nat]
<1> DEFINE g == [f EXCEPT ![x] = @ + 1]
<1>1. g = [y \in S |-> IF y = x THEN f[x] + 1 ELSE f[y]]
  OBVIOUS
<1>2. \A y \in S : (IF y = x THEN f[x] + 1 ELSE f[y]) \in Nat
  OBVIOUS
<1> QED  BY <1>1, <1>2

LEMMA Zeros == \A S : [x \in S |-> 0] \in [S -> Nat]
OBVIOUS

LEMMA ClearLockStep ==
  ASSUME IInv, NEW h \in Requests, ClearLock(h)  PROVE IInv'
<1> DEFINE x == <<request[h].entered, request[h].code>>
<1>1. accepted' \in [Batches \X Codes -> Nat]
  <2>1. /\ accepted \in [Batches \X Codes -> Nat]
        /\ accepted' = [accepted EXCEPT ![x] = @ + 1]
    BY DEF ClearLock, IInv, TypeOK
  <2> HIDE DEF x
  <2> QED  BY <2>1, OneMore
<1>2. RestTyped'
  BY <1>1 DEF ClearLock, IInv, TypeOK, RestTyped
<1> QED  BY <1>2, EndStays DEF ClearLock

LEMMA CountStep ==
  ASSUME IInv, NEW h \in Requests, Count(h)  PROVE IInv'
<1>1. ASSUME NEW phase \in {"expire", "setLock"}, Goes(h, phase)
      PROVE  IInv'
  <2> DEFINE r == [request[h] EXCEPT !.phase = phase]
  <2>1. r \in Request
    BY DEF IInv, TypeOK, Request, Phase
  <2>2. Backed(r, batch, used)
    BY DEF IInv, TypeOK, CopiesBacked, Backed, Request
  <2>3. RestTyped'
    BY DEF Count, history, IInv, TypeOK, RestTyped
  <2> QED  BY <1>1, <2>1, <2>2, <2>3, RowsStay DEF Count, history, Goes
<1>2. CASE Ends(h)
  <2>1. RestTyped'
    BY DEF Count, history, IInv, TypeOK, RestTyped
  <2> QED  BY <1>2, <2>1, EndStays DEF Count, history
<1> QED  BY <1>1, <1>2 DEF Count

LEMMA EndingStep ==
  ASSUME IInv, NEW h \in Requests, Expire(h) \/ SetLock(h) \/ Fault(h)
  PROVE  IInv'
<1>1. CASE Expire(h)
  <2>1. RestTyped'
    BY <1>1 DEF Expire, history, IInv, TypeOK, RestTyped
  <2> QED  BY <1>1, <2>1, EndStays DEF Expire, history
<1>2. CASE SetLock(h)
  <2>1. RestTyped'
    BY <1>2 DEF SetLock, history, IInv, TypeOK, RestTyped
  <2> QED  BY <1>2, <2>1, EndStays DEF SetLock, history
<1>3. CASE Fault(h)
  <2>1. faults + 1 \in 0 .. MaxFaults
    BY <1>3, Bounds DEF Fault, IInv, TypeOK
  <2>2. RestTyped'
    BY <1>3, <2>1 DEF Fault, history, IInv, TypeOK, RestTyped
  <2> QED  BY <1>3, <2>2, EndStays DEF Fault, history
<1> QED  BY <1>1, <1>2, <1>3

-----------------------------------------------------------------------------
(* The theorems                                                            *)

LEMMA InitIInv == Init => IInv
<1> SUFFICES ASSUME Init  PROVE IInv
  OBVIOUS
<1>1. \A b \in Batches : ~batch[b].exists /\ ~batch[b].isActive
                         /\ batch[b].usedCodes = 0 /\ used[b] = {}
  BY DEF Init, NoBatch
<1>2. TypeOK
  <2>1. accepted \in [Batches \X Codes -> Nat]
    BY Zeros DEF Init
  <2>2. used \in [Batches -> SUBSET Codes]
    BY DEF Init
  <2>3. batch \in [Batches -> Batch] /\ request \in [Requests -> Request]
    BY IdleType DEF Init
  <2>4. {expiring, locked} \subseteq BOOLEAN
    BY DEF Init
  <2>5. /\ begun \in 0 .. MaxBatches /\ faults \in 0 .. MaxFaults
        /\ attempts \in Nat /\ guesses \in Nat
        /\ revoked \subseteq Batches
    BY Bounds DEF Init
  <2> QED  BY <2>1, <2>2, <2>3, <2>4, <2>5 DEF TypeOK
<1>3. NotClosedEarly
  BY <1>1 DEF NotClosedEarly
<1>4. RowsCount
  BY <1>1, FS_EmptySet DEF RowsCount
<1>5. CopiesBacked
  BY IdleBacked DEF Init, CopiesBacked
<1> QED  BY <1>2, <1>3, <1>4, <1>5 DEF IInv

LEMMA NextIInv == IInv /\ [Next]_vars => IInv'
<1> SUFFICES ASSUME IInv, [Next]_vars  PROVE IInv'
  OBVIOUS
<1>1. ASSUME NEW h \in Requests, RequestNext(h)  PROVE IInv'
  <2>1. ASSUME Verify(h, 0, 0)  PROVE IInv'
    BY <2>1, VerifyStep, Bounds
  <2>2. ASSUME NEW b \in Batches, NEW c \in Codes, Verify(h, b, c)
        PROVE  IInv'
    BY <2>2, VerifyStep, Bounds DEF Batches, Codes
  <2> QED
    BY <1>1, <2>1, <2>2, GenerateStep, RevokeStep, MatchStep, LockStep,
       CommitStep, AcknowledgeStep, DiffStep, WriteStep, FindBatchStep,
       FindCodeStep, SaveCodeStep, ClearAttemptsStep, ClearLockStep,
       CountStep, EndingStep DEF RequestNext
<1>2. CASE AttemptsExpire \/ LockExpires
  <2>1. UNCHANGED <<batch, used, request, revoked>>
    BY <1>2 DEF AttemptsExpire, LockExpires, history
  <2>2. TypeOK'
    <3>1. CASE AttemptsExpire
      BY <3>1 DEF AttemptsExpire, IInv, TypeOK
    <3>2. CASE LockExpires
      BY <3>2 DEF LockExpires, history, IInv, TypeOK
    <3> QED  BY <1>2, <3>1, <3>2
  <2> QED
    BY <2>1, <2>2 DEF IInv, NotClosedEarly, RowsCount, CopiesBacked
<1>3. CASE UNCHANGED vars
  BY <1>3 DEF vars, history, IInv, TypeOK, NotClosedEarly, RowsCount,
              CopiesBacked
<1> QED  BY <1>1, <1>2, <1>3 DEF Next

\* Every row, request and counter has the form the service relies on, and a
\* request that goes on about a batch has the number of one.
THEOREM RecoveryTypeCorrect == Spec => []TypeOK
<1>1. IInv => TypeOK
  BY DEF IInv
<1> QED  BY <1>1, InitIInv, NextIInv, PTL DEF Spec

\* 'all_codes_consumed': a batch that verifyAndConsume closes has no code
\* left, though it closes it by a count in a copy of the row that other
\* requests have outdated.  The argument: no copy counts more codes than are
\* used (CopiesBacked), for the code found is not among those it counts.
THEOREM NoBatchClosesEarly == Spec => []NotClosedEarly
<1>1. IInv => NotClosedEarly
  BY DEF IInv
<1> QED  BY <1>1, InitIInv, NextIInv, PTL DEF Spec

-----------------------------------------------------------------------------
(* The lock of verification                                                *)

InPhase(req, phases) == {h \in Requests : req[h].phase \in phases}

Number(req, phases) == Cardinality(InPhase(req, phases))

Is(r, phases) == IF r.phase \in phases THEN 1 ELSE 0

\* Requests that may fail yet, that are about to count their failure, and
\* that are about to lock verification.
Trying(req) == Number(req, {"findBatch", "findCode"})
Counting(req) == Number(req, {"count"})
Locking(req) == Number(req, {"setLock"})

\* Failures are counted, or about to be; what is counted expires; while there
\* is no lock, at most MaxAttempts - 1 failures are not known to a request
\* that counts or locks; and once there is one, only requests that were let
\* in before add to them.
FailuresCounted ==
  faults = 0 =>
    /\ guesses <= attempts + Counting(request)
    /\ attempts > 0 => expiring \/ \E h \in Requests : At(h, "expire")
    /\ ~locked =>
         guesses + 1 <= MaxAttempts + Counting(request) + Locking(request)
    /\ locked =>
         guesses + Trying(request) + 1 <= MaxAttempts + Cardinality(Requests)

LEMMA NumberType ==
  ASSUME NEW req, NEW phases
  PROVE  /\ IsFiniteSet(InPhase(req, phases))
         /\ Number(req, phases) \in Nat
         /\ Number(req, phases) <= Cardinality(Requests)
         /\ Cardinality(Requests) \in Nat
BY Bounds, FS_Subset, FS_CardinalityType DEF InPhase, Number

LEMMA DisjointCount ==
  ASSUME NEW S, NEW T, IsFiniteSet(S), IsFiniteSet(T), S \intersect T = {}
  PROVE  /\ IsFiniteSet(S \union T)
         /\ Cardinality(S \union T) = Cardinality(S) + Cardinality(T)
<1>1. Cardinality(S \intersect T) = 0
  BY FS_EmptySet
<1>2. Cardinality(S) \in Nat /\ Cardinality(T) \in Nat
  BY FS_CardinalityType
<1>3. /\ IsFiniteSet(S \union T)
      /\ Cardinality(S \union T) =
           Cardinality(S) + Cardinality(T) - Cardinality(S \intersect T)
  BY FS_Union, Zenon
<1> QED  BY <1>1, <1>2, <1>3

\* No request is in two phases.
LEMMA NumbersDisjoint ==
  ASSUME NEW req
  PROVE  Trying(req) + Counting(req) + Locking(req) <= Cardinality(Requests)
<1> DEFINE T == InPhase(req, {"findBatch", "findCode"})
           C == InPhase(req, {"count"})
           L == InPhase(req, {"setLock"})
<1>0. /\ IsFiniteSet(T) /\ IsFiniteSet(C) /\ IsFiniteSet(L)
      /\ T \intersect C = {} /\ (T \union C) \intersect L = {}
  BY NumberType DEF InPhase
<1>1. /\ IsFiniteSet(T \union C)
      /\ Cardinality(T \union C) = Cardinality(T) + Cardinality(C)
  <2> HIDE DEF T, C, L
  <2> QED  BY <1>0, DisjointCount
<1>2. Cardinality((T \union C) \union L)
        = Cardinality(T \union C) + Cardinality(L)
  <2> HIDE DEF T, C, L
  <2> QED  BY <1>0, <1>1, DisjointCount
<1>3. (T \union C) \union L \in SUBSET Requests
  BY DEF InPhase
<1>4. Cardinality((T \union C) \union L) <= Cardinality(Requests)
  BY <1>3, Bounds, FS_Subset
<1> QED  BY <1>1, <1>2, <1>4 DEF Trying, Counting, Locking, Number

\* A request that moves leaves one phase and enters another.
LEMMA PhaseMoves ==
  ASSUME TypeOK, NEW h \in Requests, NEW r, Becomes(h, r)
  PROVE  /\ request'[h] = r
         /\ \A g \in Requests : g # h => request'[g] = request[g]
         /\ \A phases :
              Number(request', phases) =
                Number(request, phases) - Is(request[h], phases)
                  + Is(r, phases)
<1>1. /\ request'[h] = r
      /\ \A g \in Requests : g # h => request'[g] = request[g]
  BY DEF TypeOK, Becomes
<1>2. ASSUME NEW phases
      PROVE  Number(request', phases) =
               Number(request, phases) - Is(request[h], phases) + Is(r, phases)
  <2> DEFINE others == InPhase(request, phases) \ {h}
  <2>1. /\ IsFiniteSet(others)
        /\ Cardinality(others) = Number(request, phases)
             - Is(request[h], phases)
    <3>1. h \in InPhase(request, phases) <=> request[h].phase \in phases
      BY DEF InPhase
    <3> QED  BY SMTT(30), <3>1, NumberType, FS_RemoveElement DEF Number, Is
  <2>2. CASE r.phase \in phases
    <3>1. InPhase(request', phases) = others \union {h}
      BY <1>1, <2>2 DEF InPhase
    <3>2. Cardinality(others \union {h}) = Cardinality(others) + 1
      BY <2>1, FS_AddElement
    <3> QED  BY <2>1, <2>2, <3>1, <3>2, NumberType DEF Number, Is
  <2>3. CASE r.phase \notin phases
    <3>1. InPhase(request', phases) = others
      BY <1>1, <2>3 DEF InPhase
    <3> QED  BY <2>1, <2>3, <3>1, NumberType DEF Number, Is
  <2> QED  BY <2>2, <2>3
<1> QED  BY <1>1, <1>2

Telling == {"count", "setLock", "expire"}

\* A step that has nothing to do with failures, or lets a request in.
LEMMA QuietMove ==
  ASSUME TypeOK, FailuresCounted, NEW h \in Requests, NEW r, Becomes(h, r),
         request[h].phase \notin Telling, r.phase \notin Telling,
         locked /\ r.phase \in {"findBatch", "findCode"} =>
           request[h].phase \in {"findBatch", "findCode"},
         UNCHANGED <<attempts, expiring, locked, faults, guesses>>
  PROVE  FailuresCounted'
<1> SUFFICES ASSUME faults = 0
             PROVE  /\ guesses <= attempts + Counting(request')
                    /\ attempts > 0 =>
                         expiring \/ \E g \in Requests : At(g, "expire")'
                    /\ ~locked => guesses + 1 <= MaxAttempts
                         + Counting(request') + Locking(request')
                    /\ locked => guesses + Trying(request') + 1
                         <= MaxAttempts + Cardinality(Requests)
  BY DEF FailuresCounted
<1>1. /\ Counting(request') = Counting(request)
      /\ Locking(request') = Locking(request)
      /\ locked => Trying(request') <= Trying(request)
  BY PhaseMoves, NumberType DEF Counting, Locking, Trying, Telling, Is
<1>2. ASSUME NEW g \in Requests, At(g, "expire")
      PROVE  At(g, "expire")'
  BY <1>2, PhaseMoves DEF At, Telling
<1>3. /\ guesses <= attempts + Counting(request)
      /\ attempts > 0 => expiring \/ \E g \in Requests : At(g, "expire")
      /\ ~locked =>
           guesses + 1 <= MaxAttempts + Counting(request) + Locking(request)
      /\ locked => guesses + Trying(request) + 1
           <= MaxAttempts + Cardinality(Requests)
  BY DEF FailuresCounted
<1>4. /\ guesses \in Nat /\ Trying(request) \in Nat
      /\ Trying(request') \in Nat /\ Cardinality(Requests) \in Nat
  BY NumberType DEF TypeOK, Trying
<1> QED  BY <1>1, <1>2, <1>3, <1>4, Bounds

\* A failure is one more, and one that is about to be counted.
LEMMA RefuseCounts ==
  ASSUME TypeOK, FailuresCounted, NEW h \in Requests, Refuse(h),
         request[h].phase \in {"findBatch", "findCode"},
         UNCHANGED <<attempts, expiring, locked, faults>>
  PROVE  FailuresCounted'
<1> DEFINE r == [Idle EXCEPT !.op = "verify", !.phase = "count"]
<1>1. r.phase = "count" /\ Becomes(h, r) /\ guesses' = guesses + 1
  BY DEF Refuse, Idle
<1> HIDE DEF r
<1>2. /\ Counting(request') = Counting(request) + 1
      /\ Locking(request') = Locking(request)
      /\ Trying(request') = Trying(request) - 1
  BY <1>1, PhaseMoves, NumberType DEF Counting, Locking, Trying, Is
<1>3. ASSUME NEW g \in Requests, At(g, "expire")
      PROVE  At(g, "expire")'
  BY <1>1, <1>3, PhaseMoves DEF At
<1>4. /\ guesses \in Nat /\ attempts \in Nat /\ Trying(request) \in Nat
      /\ Counting(request) \in Nat /\ Locking(request) \in Nat
      /\ Cardinality(Requests) \in Nat
  BY NumberType DEF TypeOK, Trying, Counting, Locking
<1> QED  BY <1>1, <1>2, <1>3, <1>4, Bounds DEF FailuresCounted

\* Failures are forgotten.
LEMMA Forgotten ==
  ASSUME guesses' = 0, attempts' = 0 \/ UNCHANGED <<attempts, expiring>>,
         TypeOK, FailuresCounted,
         attempts' \in Nat, UNCHANGED faults,
         attempts' # 0 => \A g \in Requests :
           At(g, "expire") => At(g, "expire")'
  PROVE  FailuresCounted'
<1>1. /\ Trying(request') \in Nat /\ Counting(request') \in Nat
      /\ Locking(request') \in Nat /\ Cardinality(Requests) \in Nat
      /\ Trying(request') <= Cardinality(Requests)
  BY NumberType DEF Trying, Counting, Locking
<1> QED  BY <1>1, Bounds DEF FailuresCounted

\* The failure is counted; the request goes on to lock, to set the expiry of
\* the first, or ends.
LEMMA CountCounts ==
  ASSUME TypeOK, FailuresCounted, NEW h \in Requests, Count(h)
  PROVE  FailuresCounted'
<1>1. /\ request[h].phase = "count"
      /\ attempts' = attempts + 1
      /\ UNCHANGED <<expiring, locked, faults, guesses>>
  BY DEF Count, At, history
<1>2. PICK r :
        /\ Becomes(h, r)
        /\ \/ attempts' = 1 /\ r.phase = "expire"
           \/ attempts' > 1 /\ attempts' >= MaxAttempts /\ r.phase = "setLock"
           \/ attempts' > 1 /\ attempts' < MaxAttempts /\ r.phase = "idle"
  <2>1. CASE attempts' = 1 /\ Goes(h, "expire")
    <3> DEFINE r == [request[h] EXCEPT !.phase = "expire"]
    <3>1. Becomes(h, r) /\ r.phase = "expire"
      BY <2>1 DEF Goes, TypeOK, Request
    <3> QED  BY <2>1, <3>1
  <2>2. CASE attempts' > 1 /\ Locks(attempts') /\ Goes(h, "setLock")
    <3> DEFINE r == [request[h] EXCEPT !.phase = "setLock"]
    <3>1. Becomes(h, r) /\ r.phase = "setLock"
      BY <2>2 DEF Goes, TypeOK, Request
    <3> QED  BY <2>2, <3>1 DEF Locks
  <2>3. CASE attempts' > 1 /\ ~Locks(attempts') /\ Ends(h)
    <3>1. Becomes(h, Idle) /\ Idle.phase = "idle"
      BY <2>3 DEF Ends, Idle
    <3>2. attempts' < MaxAttempts
      BY <1>1, <2>3, Bounds DEF Locks, TypeOK
    <3> QED  BY <2>3, <3>1, <3>2
  <2> QED  BY <2>1, <2>2, <2>3 DEF Count
<1>3. /\ Counting(request') = Counting(request) - 1
      /\ Locking(request') =
           Locking(request) + (IF r.phase = "setLock" THEN 1 ELSE 0)
      /\ Trying(request') = Trying(request)
  BY <1>1, <1>2, PhaseMoves, NumberType DEF Counting, Locking, Trying, Is
<1>4. ASSUME NEW g \in Requests, At(g, "expire")
      PROVE  At(g, "expire")'
  BY <1>1, <1>2, <1>4, PhaseMoves DEF At
<1>5. attempts' = 1 => At(h, "expire")'
  BY <1>1, <1>2, PhaseMoves, Bounds DEF At
<1>6. /\ guesses \in Nat /\ attempts \in Nat /\ Trying(request) \in Nat
      /\ Counting(request) \in Nat /\ Locking(request) \in Nat
      /\ Cardinality(Requests) \in Nat
  BY NumberType DEF TypeOK, Trying, Counting, Locking
<1>7. faults = 0 =>
        expiring' \/ \E g \in Requests : At(g, "expire")'
  <2>1. attempts > 0 \/ attempts' = 1
    BY <1>1, <1>6
  <2> QED  BY <1>1, <1>4, <1>5, <2>1 DEF FailuresCounted
<1>8. faults = 0 =>
        /\ guesses <= attempts' + Counting(request')
        /\ ~locked => guesses + 1 <= MaxAttempts
             + Counting(request') + Locking(request')
        /\ locked => guesses + Trying(request') + 1
             <= MaxAttempts + Cardinality(Requests)
  BY <1>1, <1>2, <1>3, <1>6, Bounds DEF FailuresCounted
<1> QED  BY <1>1, <1>7, <1>8 DEF FailuresCounted

LEMMA AdmittedIdle ==
  ASSUME NEW h, NEW op, Admitted(h, op)
  PROVE  request[h].phase = "idle"
BY DEF Admitted, Idle

\* Batches are nothing to the lock.
LEMMA BatchSteps ==
  ASSUME TypeOK, FailuresCounted, NEW h \in Requests,
         \/ Generate(h) \/ Revoke(h) \/ Match(h) \/ Lock(h) \/ Commit(h)
         \/ \E b \in Batches : Acknowledge(h, b)
         \/ Diff(h) \/ Write(h) \/ SaveCode(h)
  PROVE  FailuresCounted'
<1> DEFINE q == request[h]
<1>1. UNCHANGED <<attempts, expiring, locked, faults, guesses>>
  BY DEF Generate, Revoke, Match, Lock, Commit, Acknowledge, Diff, Write,
         SaveCode, history
<1>2. ASSUME NEW r, Becomes(h, r),
             q.phase \in {"idle", "match", "lock", "commit", "diff", "write",
                         "saveCode"},
             r.phase \in {"idle", "match", "lock", "commit", "diff", "write",
                         "clearAttempts"}
      PROVE  FailuresCounted'
  BY <1>1, <1>2, QuietMove DEF Telling
<1>3. CASE Generate(h)
  <2> DEFINE r == [Idle EXCEPT !.op = "generate", !.phase = "match",
                               !.id = begun + 1]
  <2>1. Becomes(h, r)
    BY <1>3 DEF Generate
  <2>2. r.phase = "match"
    BY DEF Idle
  <2>3. q.phase = "idle"
    BY <1>3, AdmittedIdle DEF Generate
  <2> HIDE DEF r
  <2> QED  BY <1>2, <2>1, <2>2, <2>3
<1>4. CASE Revoke(h)
  <2> DEFINE r == [Idle EXCEPT !.op = "revoke", !.phase = "match"]
  <2>1. Becomes(h, r)
    BY <1>4 DEF Revoke
  <2>2. r.phase = "match"
    BY DEF Idle
  <2>3. q.phase = "idle"
    BY <1>4, AdmittedIdle DEF Revoke
  <2> HIDE DEF r
  <2> QED  BY <1>2, <2>1, <2>2, <2>3
<1>5. CASE Match(h)
  <2> DEFINE r == [q EXCEPT !.phase = "lock", !.seen = Active]
  <2>1. Becomes(h, r)
    BY <1>5 DEF Match
  <2>2. r.phase = "lock"
    BY DEF TypeOK, Request
  <2>3. q.phase = "match"
    BY <1>5 DEF Match, At
  <2> HIDE DEF r
  <2> QED  BY <1>2, <2>1, <2>2, <2>3
<1>6. CASE Lock(h)
  <2> DEFINE r == [q EXCEPT !.phase = "commit",
                            !.seen = @ \intersect Active]
  <2>1. Becomes(h, r)
    BY <1>6 DEF Lock
  <2>2. r.phase = "commit"
    BY DEF TypeOK, Request
  <2>3. q.phase = "lock"
    BY <1>6 DEF Lock, At
  <2> HIDE DEF r
  <2> QED  BY <1>2, <2>1, <2>2, <2>3
<1>7. CASE Commit(h)
  <2> DEFINE r == Idle
  <2>1. Becomes(h, r)
    BY <1>7 DEF Commit, Ends
  <2>2. r.phase = "idle"
    BY DEF Idle
  <2>3. q.phase = "commit"
    BY <1>7 DEF Commit, At
  <2> HIDE DEF r
  <2> QED  BY <1>2, <2>1, <2>2, <2>3
<1>8. ASSUME NEW b \in Batches, Acknowledge(h, b)  PROVE FailuresCounted'
  <2> DEFINE r == [Idle EXCEPT !.op = "acknowledge", !.phase = "diff",
                               !.id = b, !.entity = batch[b]]
  <2>1. Becomes(h, r)
    BY <1>8 DEF Acknowledge
  <2>2. r.phase = "diff"
    BY DEF Idle
  <2>3. q.phase = "idle"
    BY <1>8, AdmittedIdle DEF Acknowledge
  <2> HIDE DEF r
  <2> QED  BY <1>2, <2>1, <2>2, <2>3
<1>9. CASE Diff(h)
  <2> DEFINE r == [q EXCEPT !.phase = "write", !.columns =
                     {c \in {"isActive", "usedCodes"} :
                        q.entity[c] # batch[q.id][c]}]
  <2>1. Becomes(h, r)
    BY <1>9 DEF Diff
  <2>2. r.phase = "write"
    BY DEF TypeOK, Request
  <2>3. q.phase = "diff"
    BY <1>9 DEF Diff, At
  <2> HIDE DEF r
  <2> QED  BY <1>2, <2>1, <2>2, <2>3
<1>10. CASE Write(h)
  <2> DEFINE r == [Idle EXCEPT !.op = "verify", !.phase = "clearAttempts",
                               !.entered = q.entered, !.code = q.code]
  <2>1. Becomes(h, r) \/ Becomes(h, Idle)
    BY <1>10 DEF Write, Ends
  <2>2. r.phase = "clearAttempts" /\ Idle.phase = "idle"
    BY DEF Idle
  <2>3. q.phase = "write"
    BY <1>10 DEF Write, At
  <2> HIDE DEF r
  <2> QED  BY <1>2, <2>1, <2>2, <2>3
<1>11. CASE SaveCode(h)
  <2> DEFINE r == [q EXCEPT !.phase = "diff", !.entity = Consumed(@)]
  <2>1. Becomes(h, r)
    BY <1>11 DEF SaveCode
  <2>2. r.phase = "diff"
    BY DEF TypeOK, Request
  <2>3. q.phase = "saveCode"
    BY <1>11 DEF SaveCode, At
  <2> HIDE DEF r
  <2> QED  BY <1>2, <2>1, <2>2, <2>3
<1> QED
  BY <1>3, <1>4, <1>5, <1>6, <1>7, <1>8, <1>9, <1>10, <1>11

\* Finding the batch and the code, or refusing.
LEMMA VerifySteps ==
  ASSUME TypeOK, FailuresCounted, NEW h \in Requests,
         \/ Verify(h, 0, 0)
         \/ \E b \in Batches, c \in Codes : Verify(h, b, c)
         \/ FindBatch(h) \/ FindCode(h)
  PROVE  FailuresCounted'
<1> DEFINE q == request[h]
<1>1. ASSUME NEW b, NEW c, Verify(h, b, c)
      PROVE  FailuresCounted'
  <2> DEFINE r == [Idle EXCEPT !.op = "verify", !.phase = "findBatch",
                               !.entered = b, !.code = c]
  <2>1. Becomes(h, r)
    BY <1>1 DEF Verify
  <2>2. r.phase = "findBatch"
    BY DEF Idle
  <2>3. q.phase = "idle"
    BY <1>1, AdmittedIdle DEF Verify
  <2>4. ~locked /\ UNCHANGED <<attempts, expiring, locked, faults, guesses>>
    BY <1>1 DEF Verify, history
  <2> HIDE DEF r
  <2> QED  BY <2>1, <2>2, <2>3, <2>4, QuietMove DEF Telling
<1>2. ASSUME NEW r, Becomes(h, r), r.phase \in {"findCode", "saveCode"},
             FindBatch(h) \/ FindCode(h), UNCHANGED guesses
      PROVE  FailuresCounted'
  <2>1. /\ q.phase \in {"findBatch", "findCode"}
        /\ UNCHANGED <<attempts, expiring, locked, faults>>
    BY <1>2 DEF FindBatch, FindCode, At
  <2> QED  BY <1>2, <2>1, QuietMove DEF Telling
<1>3. ASSUME Refuse(h), FindBatch(h) \/ FindCode(h)
      PROVE  FailuresCounted'
  <2>1. /\ q.phase \in {"findBatch", "findCode"}
        /\ UNCHANGED <<attempts, expiring, locked, faults>>
    BY <1>3 DEF FindBatch, FindCode, At
  <2> QED  BY <1>3, <2>1, RefuseCounts
<1>4. ASSUME NEW b, FindBatch(h), UNCHANGED guesses,
             Becomes(h, [q EXCEPT !.phase = "findCode", !.id = b,
                                  !.entity = batch[b]])
      PROVE  FailuresCounted'
  <2> DEFINE r == [q EXCEPT !.phase = "findCode", !.id = b,
                            !.entity = batch[b]]
  <2>1. r.phase = "findCode"
    BY DEF TypeOK, Request
  <2> QED  BY <1>2, <1>4, <2>1
<1>5. ASSUME FindCode(h), UNCHANGED guesses, Goes(h, "saveCode")
      PROVE  FailuresCounted'
  <2> DEFINE r == [q EXCEPT !.phase = "saveCode"]
  <2>1. Becomes(h, r) /\ r.phase = "saveCode"
    BY <1>5 DEF Goes, TypeOK, Request
  <2> QED  BY <1>2, <1>5, <2>1
<1>6. CASE FindBatch(h)
  BY <1>3, <1>4, <1>6 DEF FindBatch
<1>7. CASE FindCode(h)
  BY <1>3, <1>5, <1>7 DEF FindCode
<1> QED  BY <1>1, <1>6, <1>7

\* A request that was right forgets the failures.
LEMMA ClearSteps ==
  ASSUME TypeOK, FailuresCounted, NEW h \in Requests,
         ClearAttempts(h) \/ ClearLock(h)
  PROVE  FailuresCounted'
<1>1. CASE ClearAttempts(h)
  BY <1>1, Forgotten DEF ClearAttempts
<1>2. CASE ClearLock(h)
  <2>1. Becomes(h, Idle) /\ request[h].phase = "clearLock"
    BY <1>2 DEF ClearLock, At, Ends
  <2>2. \A g \in Requests : At(g, "expire") => At(g, "expire")'
    BY <2>1, PhaseMoves DEF At
  <2> QED  BY <1>2, <2>2, Forgotten DEF ClearLock, TypeOK
<1> QED  BY <1>1, <1>2

LEMMA ExpireStep ==
  ASSUME TypeOK, FailuresCounted, NEW h \in Requests, Expire(h)
  PROVE  FailuresCounted'
<1>1. /\ Becomes(h, Idle) /\ Idle.phase = "idle"
      /\ request[h].phase = "expire"
      /\ expiring' = (attempts > 0)
      /\ UNCHANGED <<attempts, locked, faults, guesses>>
  BY DEF Expire, At, Ends, Idle, history
<1>2. /\ Counting(request') = Counting(request)
      /\ Locking(request') = Locking(request)
      /\ Trying(request') = Trying(request)
  BY <1>1, PhaseMoves, NumberType DEF Counting, Locking, Trying, Is
<1> QED  BY <1>1, <1>2 DEF FailuresCounted

\* From now on nobody new is let in.
LEMMA SetLockStep ==
  ASSUME TypeOK, FailuresCounted, NEW h \in Requests, SetLock(h)
  PROVE  FailuresCounted'
<1>1. /\ Becomes(h, Idle) /\ Idle.phase = "idle"
      /\ request[h].phase = "setLock"
      /\ locked' = TRUE
      /\ UNCHANGED <<attempts, expiring, faults, guesses>>
  BY DEF SetLock, At, Ends, Idle, history
<1>2. /\ Counting(request') = Counting(request)
      /\ Trying(request') = Trying(request)
  BY <1>1, PhaseMoves, NumberType DEF Counting, Trying, Is
<1>3. \A g \in Requests : At(g, "expire") => At(g, "expire")'
  BY <1>1, PhaseMoves DEF At
<1>4. /\ guesses \in Nat /\ Trying(request) \in Nat
      /\ Counting(request) \in Nat /\ Locking(request) \in Nat
      /\ Cardinality(Requests) \in Nat
      /\ Trying(request) + Counting(request) + Locking(request)
           <= Cardinality(Requests)
  BY NumberType, NumbersDisjoint DEF TypeOK, Trying, Counting, Locking
<1>5. faults = 0 =>
        guesses + Trying(request) + 1 <= MaxAttempts + Cardinality(Requests)
  BY <1>4, Bounds DEF FailuresCounted
<1> QED  BY <1>1, <1>2, <1>3, <1>5 DEF FailuresCounted

LEMMA NextFailures ==
  TypeOK /\ FailuresCounted /\ [Next]_vars => FailuresCounted'
<1> SUFFICES ASSUME TypeOK, FailuresCounted, [Next]_vars
             PROVE  FailuresCounted'
  OBVIOUS
<1>1. ASSUME NEW h \in Requests, RequestNext(h)  PROVE FailuresCounted'
  <2>1. CASE Fault(h)
    <3>1. faults' # 0
      BY <2>1 DEF Fault, TypeOK
    <3> QED  BY <3>1 DEF FailuresCounted
  <2> QED
    BY <1>1, <2>1, BatchSteps, VerifySteps, ClearSteps, CountCounts,
       ExpireStep, SetLockStep DEF RequestNext
<1>2. CASE AttemptsExpire
  BY <1>2, Forgotten DEF AttemptsExpire
<1>3. CASE LockExpires
  <2>1. /\ ~expiring /\ \A h \in Requests : ~At(h, "expire")
        /\ ~locked'
        /\ UNCHANGED <<attempts, expiring, request, faults, guesses>>
    BY <1>3 DEF LockExpires, history
  <2>2. /\ guesses \in Nat /\ attempts \in Nat
        /\ Counting(request) \in Nat /\ Locking(request) \in Nat
    BY NumberType DEF TypeOK, Counting, Locking
  <2>3. faults = 0 => attempts = 0 /\ guesses <= Counting(request)
    BY <2>1, <2>2 DEF FailuresCounted
  <2>4. faults = 0 =>
          guesses + 1 <= MaxAttempts + Counting(request) + Locking(request)
    BY <2>2, <2>3, Bounds
  <2> QED  BY <2>1, <2>3, <2>4 DEF FailuresCounted
<1>4. CASE UNCHANGED vars
  BY <1>4 DEF vars, history, FailuresCounted, At
<1> QED  BY <1>1, <1>2, <1>3, <1>4 DEF Next

\* While no call to Redis fails, wrong codes lock verification: beyond
\* MaxAttempts, only requests that were let in before the lock fail, one time
\* each, until the failures are forgotten.  The argument: failures that no
\* request is about to count or to lock for are fewer than MaxAttempts
\* (FailuresCounted), and the lock never outlives the number it is for.
THEOREM GuessesAreBounded == Spec => []GuessesBounded
<1>1. Init => FailuresCounted
  <2> SUFFICES ASSUME Init  PROVE FailuresCounted
    OBVIOUS
  <2>1. Counting(request) \in Nat /\ Locking(request) \in Nat
    BY NumberType DEF Counting, Locking
  <2> QED  BY <2>1, Bounds DEF Init, FailuresCounted
<1>2. TypeOK /\ FailuresCounted => GuessesBounded
  <2> SUFFICES ASSUME TypeOK, FailuresCounted  PROVE GuessesBounded
    OBVIOUS
  <2>1. /\ guesses \in Nat /\ Trying(request) \in Nat
        /\ Counting(request) \in Nat /\ Locking(request) \in Nat
        /\ Cardinality(Requests) \in Nat
        /\ Trying(request) + Counting(request) + Locking(request)
             <= Cardinality(Requests)
    BY NumberType, NumbersDisjoint DEF TypeOK, Trying, Counting, Locking
  <2>2. faults = 0 => guesses + 1 <= MaxAttempts + Cardinality(Requests)
    BY <2>1, Bounds DEF FailuresCounted
  <2> QED  BY <2>1, <2>2, Bounds DEF GuessesBounded
<1>3. Spec => []FailuresCounted
  BY <1>1, RecoveryTypeCorrect, NextFailures, PTL DEF Spec
<1> QED  BY <1>2, <1>3, RecoveryTypeCorrect, PTL

-----------------------------------------------------------------------------
(* Requests that take turns                                                *)

AtMostOne ==
  \A g, h \in Requests : request[g] # Idle /\ request[h] # Idle => g = h

\* r has used a code of batch b that the row of b does not count yet.
Owing(r, b) == r.op = "verify" /\ r.phase \in {"diff", "write"} /\ r.id = b

\* r has used its code, and its caller is not answered yet.
Answering(r) ==
  \/ r.op = "verify" /\ r.phase \in {"diff", "write"}
  \/ r.phase \in {"clearAttempts", "clearLock"}

\* What the only request in flight knows is so.
InTurn(r) ==
  /\ r.op = "generate" =>
       r.id \in Batches /\ r.id = begun /\ ~batch[r.id].exists
  /\ r.phase \in {"lock", "commit"} => r.seen = Active
  /\ r.phase \in {"findCode", "saveCode", "diff", "write"} =>
       /\ r.id \in Active
       /\ faults = 0 => r.entity.usedCodes = Cardinality(used[r.id])
  /\ r.phase \in {"findBatch", "findCode", "saveCode"} => r.op = "verify"
  /\ r.phase = "saveCode" => r.entered = r.id /\ r.code \notin used[r.id]
  /\ r.phase = "write" /\ "usedCodes" \notin r.columns =>
       batch[r.id].usedCodes = r.entity.usedCodes
  /\ Answering(r) =>
       /\ r.entered \in Batches /\ r.code \in used[r.entered]
       /\ accepted[<<r.entered, r.code>>] = 0

\* A batch that is not there has no codes used, and is not the last begun.
RowsBegun ==
  \A b \in Batches :
    /\ batch[b].exists => b <= begun
    /\ ~batch[b].exists => used[b] = {}

OneActive == \A a, b \in Active : a = b

RevokedClosed == \A b \in revoked : batch[b].exists /\ ~batch[b].isActive

AcceptedUsed ==
  \A b \in Batches, c \in Codes :
    \/ accepted[<<b, c>>] = 0
    \/ accepted[<<b, c>>] = 1 /\ c \in used[b]

\* Until a call fails the row of the active batch counts what is used.
HonestRows ==
  faults = 0 =>
    \A b \in Active :
      \/ batch[b].usedCodes = Cardinality(used[b])
      \/ \E h \in Requests : Owing(request[h], b)

RowsInTurns ==
  RowsBegun /\ OneActive /\ RevokedClosed /\ AcceptedUsed /\ HonestRows

TurnsInv ==
  AtMostOne /\ RowsInTurns /\ \A h \in Requests : InTurn(request[h])

LEMMA IdleInTurn == InTurn(Idle) /\ \A b : ~Owing(Idle, b)
BY DEF InTurn, Owing, Answering, Idle

\* The others rest before a step of h and after it.
LEMMA OthersRest ==
  ASSUME TypeOK, AtMostOne, AtMostOne', NEW h \in Requests, NEW r,
         Becomes(h, r), request[h] # Idle \/ r # Idle
  PROVE  /\ request'[h] = r
         /\ \A g \in Requests \ {h} : request[g] = Idle /\ request'[g] = Idle
BY DEF TypeOK, AtMostOne, Becomes

\* It is enough to know of h what a step makes of it.
LEMMA TurnStep ==
  ASSUME TypeOK, AtMostOne, AtMostOne', NEW h \in Requests, NEW r,
         Becomes(h, r), request[h] # Idle \/ r # Idle,
         RowsInTurns', InTurn(request[h])'
  PROVE  TurnsInv'
<1>1. ASSUME NEW g \in Requests  PROVE InTurn(request[g])'
  <2>1. CASE g = h
    BY <2>1
  <2>2. CASE g # h
    <3>1. request'[g] = Idle
      BY <2>2, OthersRest
    <3> QED  BY <3>1 DEF InTurn, Owing, Answering, Idle
  <2> QED  BY <2>1, <2>2
<1> QED  BY <1>1 DEF TurnsInv

\* A step that writes no row and forgets no code that is owed.
LEMMA QuietStep ==
  ASSUME TypeOK, TurnsInv, AtMostOne', NEW h \in Requests, NEW r,
         Becomes(h, r), request[h] # Idle \/ r # Idle,
         UNCHANGED <<batch, used, accepted, revoked>>,
         begun' = begun \/ begun' = begun + 1,
         \/ UNCHANGED faults /\ \A b : Owing(request[h], b) => Owing(r, b)
         \/ faults' # 0,
         InTurn(request[h])'
  PROVE  TurnsInv'
<1>1. RowsBegun'
  BY DEF TypeOK, TurnsInv, RowsInTurns, RowsBegun, Batches
<1>2. OneActive' /\ RevokedClosed' /\ AcceptedUsed'
  BY DEF TurnsInv, RowsInTurns, OneActive, RevokedClosed, AcceptedUsed, Active
<1>3. HonestRows'
  <2> SUFFICES ASSUME faults' = 0, NEW b \in Active
               PROVE  \/ batch[b].usedCodes = Cardinality(used[b])
                      \/ \E g \in Requests : Owing(request'[g], b)
    BY DEF HonestRows, Active, Owing
  <2>1. CASE batch[b].usedCodes = Cardinality(used[b])
    BY <2>1
  <2>2. CASE \E g \in Requests : Owing(request[g], b)
    <3>1. PICK g \in Requests : Owing(request[g], b)
      BY <2>2
    <3>2. g = h
      BY <3>1, OthersRest, IdleInTurn DEF TurnsInv
    <3> QED  BY <3>1, <3>2, OthersRest DEF TurnsInv
  <2> QED  BY <2>1, <2>2 DEF TurnsInv, RowsInTurns, HonestRows
<1> QED  BY <1>1, <1>2, <1>3, TurnStep DEF TurnsInv, RowsInTurns

\* The steps of generateForUser and revokeActiveBatch up to the commit.
LEMMA MatchTurns ==
  ASSUME IInv, TurnsInv, AtMostOne', NEW h \in Requests,
         Generate(h) \/ Revoke(h) \/ Match(h) \/ Lock(h)
  PROVE  TurnsInv'
<1>1. ASSUME NEW r, Becomes(h, r), r.phase \in {"match", "lock", "commit"},
             UNCHANGED <<batch, used, accepted, revoked, faults>>,
             begun' = begun \/ begun' = begun + 1,
             \A b : ~Owing(request[h], b),
             InTurn(request[h])'
      PROVE  TurnsInv'
  <2>1. r # Idle
    BY <1>1 DEF Idle
  <2> QED  BY <1>1, <2>1, QuietStep DEF IInv
<1>2. ASSUME NEW r, Becomes(h, r)  PROVE request'[h] = r
  BY <1>2 DEF IInv, TypeOK, Becomes
<1>3. CASE Generate(h)
  <2> DEFINE r == [Idle EXCEPT !.op = "generate", !.phase = "match",
                               !.id = begun + 1]
  <2>1. Becomes(h, r) /\ request[h] = Idle
    BY <1>3 DEF Generate, Admitted
  <2>2. begun + 1 \in Batches /\ ~batch[begun + 1].exists
    BY <1>3, Bounds
       DEF Generate, Batches, IInv, TypeOK, TurnsInv, RowsInTurns, RowsBegun
  <2>3. InTurn(request[h])'
    BY <1>2, <1>3, <2>1, <2>2 DEF Generate, InTurn, Answering, Idle
  <2>4. r.phase = "match"
    BY DEF Idle
  <2> HIDE DEF r
  <2> QED
    BY <1>1, <1>3, <2>1, <2>3, <2>4, IdleInTurn DEF Generate, history
<1>4. CASE Revoke(h)
  <2> DEFINE r == [Idle EXCEPT !.op = "revoke", !.phase = "match"]
  <2>1. Becomes(h, r) /\ request[h] = Idle
    BY <1>4 DEF Revoke, Admitted
  <2>2. InTurn(request[h])'
    <3>1. request'[h].op = "revoke" /\ request'[h].phase = "match"
      BY <1>2, <2>1 DEF Idle
    <3> QED  BY <3>1 DEF InTurn, Answering
  <2>3. r.phase = "match"
    BY DEF Idle
  <2> HIDE DEF r
  <2> QED  BY <1>1, <1>4, <2>1, <2>2, <2>3, IdleInTurn DEF Revoke, history
<1>5. CASE Match(h) \/ Lock(h)
  <2> DEFINE q == request[h]
             r == [q EXCEPT !.phase = IF Match(h) THEN "lock" ELSE "commit",
                            !.seen = Active]
  <2>1. q \in Request /\ q.phase \in {"match", "lock"} /\ InTurn(q)
    BY <1>5 DEF Match, Lock, At, IInv, TypeOK, TurnsInv
  <2>2. Becomes(h, r)
    <3>1. CASE Match(h)
      BY <3>1 DEF Match
    <3>2. CASE Lock(h) /\ ~Match(h)
      <4>1. q.seen = Active
        BY <3>2, <2>1 DEF Lock, At, InTurn
      <4> QED  BY <3>2, <4>1 DEF Lock
    <3> QED  BY <1>5, <3>1, <3>2
  <2>3. /\ r.phase \in {"lock", "commit"} /\ r.seen = Active
        /\ r.op = q.op /\ r.id = q.id
    BY <2>1 DEF Request
  <2>4. UNCHANGED <<batch, used, begun, accepted, revoked, faults>>
    BY <1>5 DEF Match, Lock, history
  <2> HIDE DEF r
  <2>5. InTurn(request[h])'
    BY <1>2, <2>1, <2>2, <2>3, <2>4 DEF InTurn, Answering, Active
  <2>6. \A b : ~Owing(q, b)
    BY <2>1 DEF Owing
  <2> QED  BY <1>1, <2>2, <2>3, <2>4, <2>5, <2>6
<1> QED  BY <1>3, <1>4, <1>5

\* The commit closes what was active: its UPDATE has matched all of it.
LEMMA CommitTurns ==
  ASSUME IInv, TurnsInv, AtMostOne', NEW h \in Requests, Commit(h)
  PROVE  /\ TurnsInv'
         /\ request[h].op = "generate" =>
              /\ Active' = {request[h].id} /\ used[request[h].id] = {}
              /\ ~batch[request[h].id].exists
         /\ request[h].op # "generate" => Active' = {}
         /\ UNCHANGED used
         /\ \A b \in Batches : b # request[h].id \/ request[h].op # "generate"
              => batch'[b].exists = batch[b].exists
<1> DEFINE r == request[h]
<1>1. r \in Request /\ r.phase = "commit" /\ InTurn(r) /\ r.seen = Active
  BY DEF Commit, At, IInv, TypeOK, TurnsInv, InTurn
<1>2. ASSUME NEW b \in Batches, ~(r.op = "generate" /\ b = r.id)
      PROVE  /\ batch'[b].exists = batch[b].exists
             /\ ~batch'[b].isActive
             /\ batch'[b].usedCodes = batch[b].usedCodes
  <2>1. batch[b] \in Batch
    BY DEF IInv, TypeOK
  <2>2. batch'[b] = [batch[b] EXCEPT !.isActive = @ /\ b \notin r.seen]
    BY <1>2 DEF Commit
  <2>3. ~(batch[b].isActive /\ b \notin r.seen)
    BY <1>1 DEF Active
  <2> QED  BY <2>1, <2>2, <2>3 DEF Batch
<1>3. ASSUME r.op = "generate"
      PROVE  /\ r.id \in Batches /\ r.id = begun /\ ~batch[r.id].exists
             /\ batch'[r.id].exists /\ batch'[r.id].isActive
             /\ batch'[r.id].usedCodes = 0
             /\ used[r.id] = {}
  <2>1. r.id \in Batches /\ r.id = begun /\ ~batch[r.id].exists
    BY <1>1, <1>3 DEF InTurn
  <2>2. batch'[r.id] = [exists |-> TRUE, isActive |-> TRUE, usedCodes |-> 0]
    BY <1>3, <2>1 DEF Commit
  <2>3. used[r.id] = {}
    BY <2>1 DEF TurnsInv, RowsInTurns, RowsBegun
  <2> QED  BY <2>1, <2>2, <2>3
<1>4. /\ UNCHANGED <<used, begun, accepted, faults>>
      /\ revoked' = revoked \union Active
      /\ Becomes(h, Idle) /\ r # Idle
  BY <1>1 DEF Commit, Ends, Idle
<1>5. /\ r.op = "generate" => Active' = {r.id}
      /\ r.op # "generate" => Active' = {}
  BY <1>2, <1>3 DEF Active
<1>6. RowsBegun'
  BY <1>2, <1>3, <1>4, Bounds
     DEF TurnsInv, RowsInTurns, RowsBegun, Batches, IInv, TypeOK
<1>7. OneActive'
  BY <1>5 DEF OneActive
<1>8. RevokedClosed'
  <2> SUFFICES ASSUME NEW b \in revoked \union Active
               PROVE  batch'[b].exists /\ ~batch'[b].isActive
    BY <1>4 DEF RevokedClosed
  <2>1. b \in Batches /\ batch[b].exists
    BY DEF IInv, TypeOK, RowsCount, TurnsInv, RowsInTurns, RevokedClosed, Active
  <2> QED  BY <2>1, <1>2, <1>3
<1>9. AcceptedUsed'
  BY <1>4 DEF TurnsInv, RowsInTurns, AcceptedUsed
<1>10. HonestRows'
  BY <1>3, <1>4, <1>5, FS_EmptySet DEF HonestRows
<1>11. InTurn(request[h])'
  BY <1>4, IdleInTurn DEF InTurn, Answering, IInv, TypeOK, Becomes, Idle
<1>12. TurnsInv'
  BY <1>1, <1>4, <1>6, <1>7, <1>8, <1>9, <1>10, <1>11, TurnStep
     DEF TurnsInv, RowsInTurns, IInv
<1> QED  BY <1>2, <1>3, <1>4, <1>5, <1>12

\* A request that goes on without knowing anything of a batch.
LEMMA ForgetTurns ==
  ASSUME IInv, TurnsInv, AtMostOne', NEW h \in Requests, NEW r, Becomes(h, r),
         request[h] # Idle \/ r # Idle,
         UNCHANGED <<batch, used, begun, accepted, revoked>>,
         \/ UNCHANGED faults /\ \A b : ~Owing(request[h], b)
         \/ faults' # 0,
         r.op # "generate",
         r.phase \in {"idle", "match", "findBatch", "count", "expire",
                      "setLock"},
         r.phase = "findBatch" => r.op = "verify"
  PROVE  TurnsInv'
<1>1. request'[h] = r
  BY DEF IInv, TypeOK, Becomes
<1>2. InTurn(request[h])'
  BY <1>1 DEF InTurn, Answering
<1> QED  BY <1>2, QuietStep DEF IInv

LEMMA RefuseTurns ==
  ASSUME IInv, TurnsInv, AtMostOne', NEW h \in Requests, Refuse(h),
         UNCHANGED <<batch, used, begun, attempts, expiring, locked, faults,
                     accepted, revoked>>,
         request[h].phase \in {"findBatch", "findCode"}
  PROVE  TurnsInv'
<1> DEFINE r == [Idle EXCEPT !.op = "verify", !.phase = "count"]
<1>1. r.op = "verify" /\ r.phase = "count" /\ request[h] # Idle
  BY DEF Idle
<1>2. \A b : ~Owing(request[h], b)
  BY DEF Owing
<1>3. Becomes(h, r)
  BY DEF Refuse
<1> HIDE DEF r
<1> QED  BY <1>1, <1>2, <1>3, ForgetTurns

\* The batch that is found counts what is used, until a call fails.
LEMMA AcknowledgeTurns ==
  ASSUME IInv, TurnsInv, AtMostOne', NEW h \in Requests, NEW b \in Batches,
         Acknowledge(h, b)
  PROVE  TurnsInv'
<1> DEFINE r == [Idle EXCEPT !.op = "acknowledge", !.phase = "diff",
                             !.id = b, !.entity = batch[b]]
<1>1. /\ r.op = "acknowledge" /\ r.phase = "diff" /\ r.id = b
      /\ r.entity = batch[b]
  BY DEF Idle
<1>2. /\ Becomes(h, r) /\ request[h] = Idle /\ b \in Active
      /\ UNCHANGED <<batch, used, begun, accepted, revoked, faults>>
  BY DEF Acknowledge, Admitted, history
<1> HIDE DEF r
<1>3. r # Idle /\ request'[h] = r
  BY <1>1, <1>2 DEF Idle, Becomes, IInv, TypeOK
<1>4. faults = 0 => batch[b].usedCodes = Cardinality(used[b])
  <2>1. ASSUME NEW g \in Requests  PROVE ~Owing(request[g], b)
    BY <1>2, <1>3, OthersRest, IdleInTurn DEF TurnsInv, IInv
  <2> QED  BY <2>1, <1>2 DEF TurnsInv, RowsInTurns, HonestRows
<1>5. InTurn(request[h])'
  BY <1>1, <1>2, <1>3, <1>4 DEF InTurn, Answering, Active
<1> QED  BY <1>2, <1>3, <1>5, IdleInTurn, QuietStep DEF IInv

LEMMA DiffTurns ==
  ASSUME IInv, TurnsInv, AtMostOne', NEW h \in Requests, Diff(h)
  PROVE  TurnsInv'
<1> DEFINE q == request[h]
           cs == {c \in {"isActive", "usedCodes"} :
                    q.entity[c] # batch[q.id][c]}
           r == [q EXCEPT !.phase = "write", !.columns = cs]
<1>1. q \in Request /\ InTurn(q) /\ q.phase = "diff" /\ q # Idle
  BY DEF Diff, At, IInv, TypeOK, TurnsInv, Idle
<1>2. /\ r.phase = "write" /\ r.columns = cs
      /\ r.op = q.op /\ r.id = q.id /\ r.entity = q.entity
      /\ r.entered = q.entered /\ r.code = q.code
  BY <1>1 DEF Request
<1>3. /\ Becomes(h, r)
      /\ UNCHANGED <<batch, used, begun, accepted, revoked, faults>>
  BY DEF Diff, history
<1>4. "usedCodes" \notin cs => batch[q.id].usedCodes = q.entity.usedCodes
  BY <1>1 DEF Request, Batch
<1> HIDE DEF r, cs
<1>5. request'[h] = r
  BY <1>3 DEF Becomes, IInv, TypeOK
<1>6. InTurn(request[h])'
  BY <1>1, <1>2, <1>3, <1>4, <1>5 DEF InTurn, Answering, Active
<1>7. \A b : Owing(q, b) => Owing(r, b)
  BY <1>1, <1>2 DEF Owing
<1> QED  BY <1>1, <1>3, <1>6, <1>7, QuietStep DEF IInv

\* The save of a batch that is still active writes what is used, and closes
\* it only.
LEMMA WriteTurns ==
  ASSUME IInv, TurnsInv, AtMostOne', NEW h \in Requests, Write(h)
  PROVE  TurnsInv'
<1> DEFINE q == request[h]
           b == q.id
           r == IF q.op = "verify"
                THEN [Idle EXCEPT !.op = "verify", !.phase = "clearAttempts",
                                  !.entered = q.entered, !.code = q.code]
                ELSE Idle
<1>1. /\ q \in Request /\ InTurn(q) /\ q.phase = "write" /\ q # Idle
      /\ Backed(q, batch, used)
  BY DEF Write, At, IInv, TypeOK, TurnsInv, Idle, CopiesBacked
<1>2. /\ b \in Active /\ b \in Batches /\ batch[b].exists
      /\ faults = 0 => q.entity.usedCodes = Cardinality(used[b])
  BY <1>1 DEF InTurn, Active, IInv, RowsCount
<1>3. q.entity \in Batch /\ batch[b] \in Batch
  BY <1>1, <1>2 DEF Request, IInv, TypeOK
<1>4. /\ batch'[b].exists
      /\ batch'[b].usedCodes = q.entity.usedCodes
  <2>1. batch'[b] =
          [exists |-> TRUE,
           isActive |-> IF "isActive" \in q.columns THEN q.entity.isActive
                        ELSE batch[b].isActive,
           usedCodes |-> IF "usedCodes" \in q.columns THEN q.entity.usedCodes
                         ELSE batch[b].usedCodes]
    BY <1>2 DEF Write, IInv, TypeOK
  <2> QED  BY <2>1, <1>1 DEF InTurn
<1>5. \A c \in Batches : c # b => batch'[c] = batch[c]
  BY DEF Write, IInv, TypeOK
<1>6. Active' \subseteq Active
  BY <1>2, <1>5 DEF Active
<1>7. /\ UNCHANGED <<used, begun, accepted, revoked, faults>>
      /\ Becomes(h, r)
  BY DEF Write, history, Ends
<1>8. /\ r = Idle \/ /\ q.op = "verify" /\ r.op = "verify"
                     /\ r.phase = "clearAttempts"
                     /\ r.entered = q.entered /\ r.code = q.code
  BY DEF Idle
<1> HIDE DEF r
<1>9. request'[h] = r
  BY <1>7 DEF Becomes, IInv, TypeOK
<1>10. InTurn(request[h])'
  <2>1. CASE r = Idle
    BY <2>1, <1>9 DEF InTurn, Answering, Idle
  <2>2. CASE r # Idle
    BY <2>2, <1>1, <1>7, <1>8, <1>9 DEF InTurn, Answering
  <2> QED  BY <2>1, <2>2
<1>11. RowsBegun'
  BY <1>2, <1>4, <1>5, <1>7 DEF TurnsInv, RowsInTurns, RowsBegun
<1>12. OneActive'
  BY <1>6 DEF TurnsInv, RowsInTurns, OneActive
<1>13. RevokedClosed'
  <2>1. b \notin revoked
    BY <1>2 DEF TurnsInv, RowsInTurns, RevokedClosed, Active
  <2> QED
    BY <2>1, <1>5, <1>7 DEF TurnsInv, RowsInTurns, RevokedClosed, IInv, TypeOK
<1>14. AcceptedUsed'
  BY <1>7 DEF TurnsInv, RowsInTurns, AcceptedUsed
<1>15. HonestRows'
  <2>1. \A c \in Active : c = b
    BY <1>2 DEF TurnsInv, RowsInTurns, OneActive
  <2> QED  BY <2>1, <1>2, <1>4, <1>6, <1>7 DEF HonestRows
<1> QED
  BY <1>1, <1>7, <1>10, <1>11, <1>12, <1>13, <1>14, <1>15, TurnStep
     DEF TurnsInv, RowsInTurns, IInv

LEMMA FindTurns ==
  ASSUME IInv, TurnsInv, AtMostOne', NEW h \in Requests,
         FindBatch(h) \/ FindCode(h)
  PROVE  TurnsInv'
<1> DEFINE q == request[h]
<1>1. /\ q \in Request /\ InTurn(q) /\ q # Idle
      /\ q.phase \in {"findBatch", "findCode"}
      /\ \A b : ~Owing(q, b)
      /\ UNCHANGED <<batch, used, begun, accepted, revoked, faults>>
  <2>1. q.phase \in {"findBatch", "findCode"}
    BY DEF FindBatch, FindCode, At
  <2>2. q \in Request /\ InTurn(q)
    BY DEF IInv, TypeOK, TurnsInv
  <2>3. UNCHANGED <<batch, used, begun, accepted, revoked, faults>>
    BY DEF FindBatch, FindCode
  <2> QED  BY <2>1, <2>2, <2>3 DEF Idle, Owing
<1>2. CASE Refuse(h)
  BY <1>1, <1>2, RefuseTurns DEF FindBatch, FindCode
<1>3. ASSUME NEW b \in Active,
             Becomes(h, [q EXCEPT !.phase = "findCode", !.id = b,
                                  !.entity = batch[b]]),
             At(h, "findBatch")
      PROVE  TurnsInv'
  <2> DEFINE r == [q EXCEPT !.phase = "findCode", !.id = b,
                            !.entity = batch[b]]
  <2>1. /\ r.phase = "findCode" /\ r.id = b /\ r.entity = batch[b]
        /\ r.op = "verify"
    BY <1>1, <1>3 DEF Request, InTurn, At
  <2>2. Becomes(h, r)
    BY <1>3
  <2> HIDE DEF r
  <2>3. request'[h] = r
    BY <2>2 DEF Becomes, IInv, TypeOK
  <2>4. faults = 0 => batch[b].usedCodes = Cardinality(used[b])
    <3>1. ASSUME NEW g \in Requests  PROVE ~Owing(request[g], b)
      BY <1>1, <2>2, OthersRest, IdleInTurn DEF TurnsInv, IInv
    <3> QED  BY <3>1 DEF TurnsInv, RowsInTurns, HonestRows
  <2>5. InTurn(request[h])'
    BY <1>1, <1>3, <2>1, <2>3, <2>4 DEF InTurn, Answering, Active
  <2> QED  BY <1>1, <2>2, <2>5, QuietStep DEF IInv
<1>4. CASE Unused(q) /\ Goes(h, "saveCode") /\ At(h, "findCode")
  <2> DEFINE r == [q EXCEPT !.phase = "saveCode"]
  <2>1. /\ r.phase = "saveCode" /\ r.op = q.op /\ r.id = q.id
        /\ r.entity = q.entity /\ r.entered = q.entered /\ r.code = q.code
    BY <1>1 DEF Request
  <2>2. Becomes(h, r)
    BY <1>4 DEF Goes
  <2> HIDE DEF r
  <2>3. request'[h] = r
    BY <2>2 DEF Becomes, IInv, TypeOK
  <2>4. InTurn(request[h])'
    BY <1>1, <1>4, <2>1, <2>3 DEF InTurn, Answering, Active, Unused, At
  <2> QED  BY <1>1, <2>2, <2>4, QuietStep DEF IInv
<1> QED  BY <1>2, <1>3, <1>4 DEF FindBatch, FindCode

\* A code is used that was not: nobody was told that it is valid.
LEMMA SaveCodeTurns ==
  ASSUME IInv, TurnsInv, AtMostOne', NEW h \in Requests, SaveCode(h)
  PROVE  /\ TurnsInv'
         /\ request[h].id \in Active /\ request[h].code \in Codes
         /\ request[h].code \notin used[request[h].id]
<1> DEFINE q == request[h]
           b == q.id
           e == Consumed(q.entity)
           r == [q EXCEPT !.phase = "diff", !.entity = e]
<1>1. /\ q \in Request /\ InTurn(q) /\ q.phase = "saveCode" /\ q # Idle
      /\ Backed(q, batch, used)
  BY DEF SaveCode, At, IInv, TypeOK, TurnsInv, Idle, CopiesBacked
<1>2. /\ b \in Active /\ b \in Batches /\ batch[b].exists
      /\ q.code \in Codes /\ q.code \notin used[b] /\ q.entered = b
      /\ q.op = "verify"
      /\ faults = 0 => q.entity.usedCodes = Cardinality(used[b])
  BY <1>1, Bounds
     DEF InTurn, Active, IInv, RowsCount, Backed, Request, Codes, Batches
<1>3. /\ r.phase = "diff" /\ r.op = "verify" /\ r.id = b
      /\ r.entered = b /\ r.code = q.code /\ r.entity = e
  BY <1>1, <1>2 DEF Request
<1>4. e.usedCodes = q.entity.usedCodes + 1
  <2>1. q.entity \in Batch
    BY <1>1 DEF Request
  <2> QED  BY <2>1 DEF Consumed, Batch
<1>5. /\ Becomes(h, r)
      /\ used' = [used EXCEPT ![b] = @ \union {q.code}]
      /\ UNCHANGED <<batch, begun, accepted, revoked, faults>>
  BY DEF SaveCode, history
<1> HIDE DEF r, e
<1>6. request'[h] = r
  BY <1>5 DEF Becomes, IInv, TypeOK
<1>7. /\ used'[b] = used[b] \union {q.code}
      /\ \A c \in Batches : c # b => used'[c] = used[c]
      /\ \A c \in Batches : used[c] \subseteq used'[c]
  BY <1>2, <1>5 DEF IInv, TypeOK
<1>8. Cardinality(used'[b]) = Cardinality(used[b]) + 1
  <2>1. used[b] \in SUBSET Codes /\ used[b] \ {q.code} = used[b]
    BY <1>2 DEF IInv, TypeOK
  <2> QED  BY <1>2, <1>7, <2>1, CountUse
<1>9. accepted[<<b, q.code>>] = 0
  BY <1>2 DEF TurnsInv, RowsInTurns, AcceptedUsed
<1>10. InTurn(request[h])'
  BY ZenonT(60), <1>2, <1>3, <1>4, <1>5, <1>6, <1>7, <1>8, <1>9
     DEF InTurn, Answering, Active
<1>11. RowsBegun'
  BY <1>2, <1>5, <1>7 DEF TurnsInv, RowsInTurns, RowsBegun
<1>12. OneActive' /\ RevokedClosed'
  BY <1>5 DEF TurnsInv, RowsInTurns, OneActive, RevokedClosed, Active
<1>13. AcceptedUsed'
  BY <1>5, <1>7 DEF TurnsInv, RowsInTurns, AcceptedUsed
<1>14. HonestRows'
  <2>1. \A c \in Active : c = b
    BY <1>2 DEF TurnsInv, RowsInTurns, OneActive
  <2>2. Owing(request'[h], b)
    BY <1>3, <1>6 DEF Owing
  <2> QED  BY <2>1, <2>2, <1>5 DEF HonestRows, Active, Owing
<1>15. TurnsInv'
  BY <1>1, <1>5, <1>10, <1>11, <1>12, <1>13, <1>14, TurnStep
     DEF TurnsInv, RowsInTurns, IInv
<1> QED  BY <1>2, <1>15

LEMMA ClearTurns ==
  ASSUME IInv, TurnsInv, AtMostOne', NEW h \in Requests,
         ClearAttempts(h) \/ ClearLock(h)
  PROVE  TurnsInv'
<1> DEFINE q == request[h]
<1>1. /\ q \in Request /\ InTurn(q) /\ q # Idle
      /\ q.phase \in {"clearAttempts", "clearLock"}
      /\ \A b : ~Owing(q, b)
      /\ UNCHANGED <<batch, used, begun, revoked, faults>>
  BY DEF ClearAttempts, ClearLock, At, IInv, TypeOK, TurnsInv, Idle, Owing
<1>2. CASE ClearAttempts(h)
  <2> DEFINE r == [q EXCEPT !.phase = "clearLock"]
  <2>1. /\ r.phase = "clearLock" /\ r.op = q.op /\ r.id = q.id
        /\ r.entered = q.entered /\ r.code = q.code
    BY <1>1 DEF Request
  <2>2. Becomes(h, r) /\ UNCHANGED accepted
    BY <1>2 DEF ClearAttempts, Goes
  <2> HIDE DEF r
  <2>3. request'[h] = r
    BY <2>2 DEF Becomes, IInv, TypeOK
  <2>4. InTurn(request[h])'
    BY <1>1, <2>1, <2>2, <2>3 DEF InTurn, Answering
  <2> QED  BY <1>1, <2>2, <2>4, QuietStep DEF IInv
<1>3. CASE ClearLock(h)
  <2> DEFINE x == <<q.entered, q.code>>
  <2>1. /\ q.entered \in Batches /\ q.code \in used[q.entered]
        /\ accepted[x] = 0
    BY <1>1, <1>3 DEF InTurn, Answering, ClearLock, At
  <2>2. q.code \in Codes
    BY <2>1 DEF IInv, TypeOK
  <2>3. /\ accepted' = [accepted EXCEPT ![x] = @ + 1]
        /\ Becomes(h, Idle)
    BY <1>3 DEF ClearLock, Ends
  <2>4. /\ accepted'[x] = 1
        /\ \A y \in Batches \X Codes : y # x => accepted'[y] = accepted[y]
    BY <2>1, <2>2, <2>3 DEF IInv, TypeOK
  <2>5. AcceptedUsed'
    <3> SUFFICES ASSUME NEW b \in Batches, NEW c \in Codes
                 PROVE  \/ accepted'[<<b, c>>] = 0
                        \/ accepted'[<<b, c>>] = 1 /\ c \in used[b]
      BY <1>1 DEF AcceptedUsed
    <3>1. CASE <<b, c>> = x
      BY <3>1, <2>1, <2>4
    <3>2. CASE <<b, c>> # x
      BY <3>2, <2>4 DEF TurnsInv, RowsInTurns, AcceptedUsed
    <3> QED  BY <3>1, <3>2
  <2>6. RowsBegun' /\ OneActive' /\ RevokedClosed'
    BY <1>1
       DEF TurnsInv, RowsInTurns, RowsBegun, OneActive, RevokedClosed, Active
  <2>7. HonestRows'
    <3>1. \A g \in Requests : \A b : ~Owing(request[g], b)
      BY <1>1, <2>3, OthersRest, IdleInTurn DEF TurnsInv, IInv
    <3> QED
      BY <1>1, <3>1 DEF TurnsInv, RowsInTurns, HonestRows, Active
  <2>8. InTurn(request[h])'
    <3>1. request'[h] = Idle
      BY <2>3 DEF Becomes, IInv, TypeOK
    <3> QED  BY <3>1 DEF InTurn, Answering, Idle
  <2> QED
    BY <1>1, <2>3, <2>5, <2>6, <2>7, <2>8, TurnStep
       DEF TurnsInv, RowsInTurns, IInv
<1> QED  BY <1>2, <1>3

\* What is counted, locked or begun knows of no batch; a request that fails
\* takes what it knew with it.
LEMMA OtherTurns ==
  ASSUME IInv, TurnsInv, AtMostOne', NEW h \in Requests,
         \/ \E b \in 0 .. MaxBatches, c \in 0 .. CodeCount : Verify(h, b, c)
         \/ Count(h) \/ Expire(h) \/ SetLock(h) \/ Fault(h)
  PROVE  TurnsInv'
<1>1. ASSUME NEW b \in 0 .. MaxBatches, NEW c \in 0 .. CodeCount,
             Verify(h, b, c)
      PROVE  TurnsInv'
  <2> DEFINE r == [Idle EXCEPT !.op = "verify", !.phase = "findBatch",
                               !.entered = b, !.code = c]
  <2>1. r.op = "verify" /\ r.phase = "findBatch" /\ r # Idle
    BY DEF Idle
  <2>2. /\ Becomes(h, r) /\ request[h] = Idle
        /\ UNCHANGED <<batch, used, begun, accepted, revoked, faults>>
    BY <1>1 DEF Verify, Admitted, history
  <2> HIDE DEF r
  <2> QED  BY <2>1, <2>2, IdleInTurn, ForgetTurns
<1>2. CASE Count(h) \/ Expire(h) \/ SetLock(h)
  <2> DEFINE q == request[h]
  <2>1. /\ q \in Request /\ q # Idle /\ \A b : ~Owing(q, b)
        /\ UNCHANGED <<batch, used, begun, accepted, revoked, faults>>
        /\ q.phase \in {"count", "expire", "setLock"}
    BY <1>2 DEF Count, Expire, SetLock, At, IInv, TypeOK, Idle, Owing, history
  <2>2. CASE Ends(h)
    <3>1. Idle.op # "generate" /\ Idle.phase = "idle"
      BY DEF Idle
    <3> QED  BY <2>1, <2>2, <3>1, ForgetTurns DEF Ends
  <2>3. ASSUME NEW phase \in {"expire", "setLock"}, Goes(h, phase), At(h, "count")
        PROVE  TurnsInv'
    <3> DEFINE r == [q EXCEPT !.phase = phase]
    <3>1. r.op = q.op /\ r.phase = phase /\ r.id = q.id
      BY <2>1 DEF Request
    <3>2. Becomes(h, r)
      BY <2>3 DEF Goes
    <3> HIDE DEF r
    <3>3. request'[h] = r
      BY <3>2 DEF Becomes, IInv, TypeOK
    <3>4. InTurn(request[h])'
      BY <2>1, <3>1, <3>3 DEF InTurn, Answering, TurnsInv
    <3> QED  BY <2>1, <3>2, <3>4, QuietStep DEF IInv
  <2> QED  BY <1>2, <2>2, <2>3 DEF Count, Expire, SetLock
<1>3. CASE Fault(h)
  <2>1. Idle.op # "generate" /\ Idle.phase = "idle"
    BY DEF Idle
  <2>2. faults' # 0
    BY <1>3 DEF Fault, IInv, TypeOK
  <2> QED  BY <1>3, <2>1, <2>2, ForgetTurns DEF Fault, Ends, history
<1> QED  BY <1>1, <1>2, <1>3

-----------------------------------------------------------------------------
(* What the run checks, for every value of the constants                   *)

TurnsInvInTurns == InTurns(TurnsInv)

LEMMA WithinTurns ==
  ASSUME Within, scenario = "turns"
  PROVE  AtMostOne
<1> SUFFICES ASSUME NEW g \in Requests, NEW h \in Requests,
                    request[g] # Idle, request[h] # Idle, g # h
             PROVE  FALSE
  BY DEF AtMostOne
<1>1. {g, h} \subseteq InFlight /\ IsFiniteSet(InFlight)
  <2>1. InFlight \in SUBSET Requests
    BY DEF InFlight
  <2> QED  BY <2>1, Bounds, FS_Subset DEF InFlight
<1>2. Cardinality({g, h}) = 2
  <2>1. Cardinality({g}) = 1 /\ IsFiniteSet({g})
    BY FS_Singleton
  <2>2. Cardinality({g} \union {h}) = Cardinality({g}) + 1
    BY <2>1, FS_AddElement
  <2>3. {g} \union {h} = {g, h}
    OBVIOUS
  <2> QED  BY <2>1, <2>2, <2>3
<1>3. Cardinality({g, h}) <= Cardinality(InFlight)
  BY <1>1, FS_Subset
<1>4. Cardinality(InFlight) \in Nat /\ Cardinality(InFlight) <= 1
  BY <1>1, FS_CardinalityType DEF Within
<1> QED  BY <1>2, <1>3, <1>4

LEMMA InitTurns == Init => TurnsInv
<1> SUFFICES ASSUME Init  PROVE TurnsInv
  OBVIOUS
<1>1. \A b \in Batches : ~batch[b].exists /\ ~batch[b].isActive
                         /\ used[b] = {}
  BY DEF Init, NoBatch
<1>2. \A h \in Requests : request[h] = Idle
  BY DEF Init
<1>3. \A h \in Requests : InTurn(request[h])
  BY <1>2, IdleInTurn
<1>4. AcceptedUsed
  BY DEF Init, AcceptedUsed
<1>5. /\ AtMostOne /\ RowsBegun /\ OneActive /\ RevokedClosed /\ HonestRows
  BY <1>1, <1>2
     DEF Init, AtMostOne, RowsBegun, OneActive, RevokedClosed, HonestRows, Active
<1> QED  BY <1>3, <1>4, <1>5 DEF TurnsInv, RowsInTurns

LEMMA RequestTurns ==
  ASSUME IInv, TurnsInv, AtMostOne', NEW h \in Requests, RequestNext(h)
  PROVE  TurnsInv'
<1>1. ASSUME Verify(h, 0, 0)  PROVE TurnsInv'
  BY <1>1, OtherTurns, Bounds
<1>2. ASSUME NEW b \in Batches, NEW c \in Codes, Verify(h, b, c)
      PROVE  TurnsInv'
  BY <1>2, OtherTurns, Bounds DEF Batches, Codes
<1> QED
  BY <1>1, <1>2, MatchTurns, CommitTurns, AcknowledgeTurns, DiffTurns,
     WriteTurns, FindTurns, SaveCodeTurns, ClearTurns, OtherTurns
     DEF RequestNext

\* What expires in Redis, and what does not happen, changes no row.
LEMMA RestTurns ==
  ASSUME TurnsInv, AttemptsExpire \/ LockExpires \/ UNCHANGED vars
  PROVE  TurnsInv'
<1>1. UNCHANGED <<batch, used, begun, request, faults, accepted, revoked>>
  BY DEF AttemptsExpire, LockExpires, vars, history
<1> QED
  BY <1>1
     DEF TurnsInv, AtMostOne, RowsInTurns, RowsBegun, OneActive, RevokedClosed,
         AcceptedUsed, HonestRows, InTurn, Answering, Owing, Active

LEMMA NextTurns ==
  IInv /\ TurnsInvInTurns /\ [MCNext]_<<vars, scenario>> => TurnsInvInTurns'
<1> SUFFICES ASSUME IInv, TurnsInvInTurns, [MCNext]_<<vars, scenario>>,
                    scenario' = "turns"
             PROVE  TurnsInv'
  BY DEF TurnsInvInTurns, InTurns
<1>1. scenario = "turns" /\ TurnsInv
  BY DEF MCNext, TurnsInvInTurns, InTurns
<1>2. CASE UNCHANGED vars
  BY <1>1, <1>2, RestTurns
<1>3. CASE MCNext
  <2>1. AtMostOne'
    <3>1. Within' /\ (scenario = "turns")'
      BY <1>3 DEF MCNext
    <3> QED  BY <3>1, WithinTurns, PTL
  <2>2. ASSUME NEW h \in Requests, RequestNext(h)  PROVE TurnsInv'
    BY <1>1, <2>1, <2>2, RequestTurns
  <2> QED  BY <1>1, <1>3, <2>2, RestTurns DEF MCNext, Next
<1> QED  BY <1>2, <1>3

LEMMA TurnsTrue == TypeOK /\ TurnsInv =>
  CodeOnce /\ OneActiveBatch /\ RevokedStaysRevoked /\ StatusHonest
<1> SUFFICES ASSUME TypeOK, TurnsInv
             PROVE  CodeOnce /\ OneActiveBatch /\ RevokedStaysRevoked
                    /\ StatusHonest
  OBVIOUS
<1>1. CodeOnce
  <2> SUFFICES ASSUME NEW b \in Batches, NEW c \in Codes
               PROVE  accepted[<<b, c>>] <= 1
    BY DEF CodeOnce
  <2> QED  BY DEF TurnsInv, RowsInTurns, AcceptedUsed
<1>2. OneActiveBatch
  <2>1. CASE Active = {}
    BY <2>1, FS_EmptySet DEF OneActiveBatch
  <2>2. CASE Active # {}
    <3>1. PICK a \in Active : TRUE
      BY <2>2
    <3>2. Active = {a}
      BY <3>1 DEF TurnsInv, RowsInTurns, OneActive
    <3> QED  BY <3>2, FS_Singleton DEF OneActiveBatch
  <2> QED  BY <2>1, <2>2
<1>3. RevokedStaysRevoked
  BY DEF RevokedStaysRevoked, TurnsInv, RowsInTurns, RevokedClosed
<1>4. StatusHonest
  <2> SUFFICES ASSUME faults = 0, \A h \in Requests : request[h] = Idle,
                      NEW b \in Batches, Newest(b)
               PROVE  RemainingCodes(b) = Cardinality(Codes \ used[b])
    BY DEF StatusHonest
  <2>1. b \in Active /\ used[b] \in SUBSET Codes
    BY DEF Newest, TypeOK
  <2>2. batch[b].usedCodes = Cardinality(used[b])
    BY <2>1, IdleInTurn DEF TurnsInv, RowsInTurns, HonestRows
  <2>3. /\ IsFiniteSet(used[b]) /\ IsFiniteSet(Codes \ used[b])
        /\ Cardinality(used[b]) \in Nat /\ Cardinality(Codes \ used[b]) \in Nat
    BY <2>1, Counted
  <2>4. Cardinality(Codes)
          = Cardinality(used[b]) + Cardinality(Codes \ used[b])
    <3>1. used[b] \intersect (Codes \ used[b]) = {}
          /\ used[b] \union (Codes \ used[b]) = Codes
      BY <2>1
    <3>2. Cardinality(used[b] \union (Codes \ used[b]))
            = Cardinality(used[b]) + Cardinality(Codes \ used[b])
      BY <3>1, <2>3, DisjointCount
    <3> QED  BY <3>1, <3>2
  <2>5. Cardinality(Codes) = CodeCount
    BY Bounds, FS_Interval DEF Codes
  <2> QED  BY <2>2, <2>3, <2>4, <2>5, Bounds DEF RemainingCodes
<1> QED  BY <1>1, <1>2, <1>3, <1>4

LEMMA SpecTurns ==
  MCSpec => [](IInv /\ TurnsInvInTurns)
<1>1. MCInit => IInv /\ TurnsInvInTurns
  BY InitIInv, InitTurns DEF MCInit, TurnsInvInTurns, InTurns
<1>2. IInv /\ TurnsInvInTurns /\ [MCNext]_<<vars, scenario>>
        => IInv' /\ TurnsInvInTurns'
  <2>1. [MCNext]_<<vars, scenario>> => [Next]_vars
    BY DEF MCNext
  <2> QED  BY <2>1, NextIInv, NextTurns
<1> QED  BY <1>1, <1>2, PTL DEF MCSpec

LEMMA ScenariosAreRuns == MCSpec => Spec
<1>1. MCInit => Init
  BY DEF MCInit
<1>2. [MCNext]_<<vars, scenario>> => [Next]_vars
  BY DEF MCNext
<1> QED  BY <1>1, <1>2, PTL DEF MCSpec, Spec

\* Whatever overlaps, no batch is closed early and guesses are bounded; when
\* requests take turns, whichever call fails, a code is good once, one batch
\* is active, no save brings a revoked one back, and the status is honest
\* until a call fails.  The argument: the only request in flight knows the
\* rows as they are (InTurn), so what it saves closes a batch at most, and
\* what was used for a code nobody was answered for is not found again.
THEOREM BatchesAreSafe == MCSpec => []BatchesSafe
<1>1. IInv /\ TurnsInvInTurns /\ GuessesBounded => BatchesSafe
  BY TurnsTrue
     DEF IInv, TurnsInvInTurns, InTurns, BatchesSafe, CodeOnceInTurns,
         OneActiveBatchInTurns, RevokedStaysInTurns, StatusHonestInTurns
<1> QED  BY <1>1, SpecTurns, ScenariosAreRuns, GuessesAreBounded, PTL

-----------------------------------------------------------------------------
(* RecoveryCodes implements CodeLedger                                     *)

\* A step that opens no batch and uses no code is none of the ledger.
LEMMA LedgerRests ==
  ASSUME TypeOK, TypeOK', UNCHANGED <<used, scenario>>,
         \A b \in Batches :
           /\ batch'[b].exists = batch[b].exists
           /\ batch'[b].isActive # batch[b].isActive => used[b] = Codes
  PROVE  UNCHANGED Ledger!vars
<1>1. Valid' = Valid
  BY DEF Valid, TypeOK
<1>2. Redeemed' = Redeemed
  BY DEF Redeemed
<1>3. Withdrawn' = Withdrawn
  BY DEF Withdrawn, TypeOK
<1> QED  BY <1>1, <1>2, <1>3 DEF Ledger!vars

LEMMA CommitLedger ==
  ASSUME IInv, IInv', TurnsInv, AtMostOne', NEW h \in Requests, Commit(h),
         scenario = "turns", scenario' = "turns"
  PROVE  Ledger!Next
<1> DEFINE r == request[h]
<1>1. /\ r.op = "generate" =>
           /\ Active' = {r.id} /\ used[r.id] = {} /\ ~batch[r.id].exists
      /\ r.op # "generate" => Active' = {}
      /\ used' = used
      /\ \A b \in Batches : b # r.id \/ r.op # "generate"
           => batch'[b].exists = batch[b].exists
  BY CommitTurns
<1>2. \A b \in Batches :
        /\ batch[b].isActive => batch[b].exists
        /\ batch'[b].isActive => batch'[b].exists
  BY DEF IInv, RowsCount
<1>3. \A b \in Batches : batch'[b].isActive <=> b \in Active'
  BY DEF Active
<1>4. Redeemed' = Redeemed
  BY <1>1 DEF Redeemed
<1>5. CASE r.op = "generate"
  <2>1. \A e \in Valid' : e \notin Valid \union Redeemed \union Withdrawn
    BY <1>1, <1>2, <1>3, <1>5 DEF Valid, Redeemed, Withdrawn
  <2>2. Withdrawn' = Withdrawn \union Valid
    BY <1>1, <1>2, <1>3, <1>5 DEF Valid, Withdrawn
  <2>3. Valid' \subseteq Batches \X Codes
    BY DEF Valid
  <2> QED  BY <1>4, <2>1, <2>2, <2>3 DEF Ledger!Next, Ledger!Issue
<1>6. CASE r.op # "generate"
  <2>1. Valid' = {}
    BY <1>1, <1>3, <1>6 DEF Valid
  <2>2. Withdrawn' = Withdrawn \union Valid
    BY <1>1, <1>2, <1>3, <1>6 DEF Valid, Withdrawn
  <2> QED  BY <1>4, <2>1, <2>2 DEF Ledger!Next, Ledger!Withdraw
<1> QED  BY <1>5, <1>6

LEMMA SaveCodeLedger ==
  ASSUME IInv, TurnsInv, AtMostOne', NEW h \in Requests, SaveCode(h),
         scenario = "turns", scenario' = "turns"
  PROVE  Ledger!Next
<1> DEFINE b == request[h].id
           c == request[h].code
<1>1. /\ b \in Batches /\ batch[b].isActive /\ c \in Codes /\ c \notin used[b]
  BY SaveCodeTurns DEF Active
<1>2. /\ batch' = batch
      /\ used'[b] = used[b] \union {c}
      /\ \A a \in Batches : a # b => used'[a] = used[a]
  BY <1>1 DEF SaveCode, IInv, TypeOK
<1> HIDE DEF b, c
<1>3. <<b, c>> \in Valid
  BY <1>1 DEF Valid
<1>4. Valid' = Valid \ {<<b, c>>}
  BY <1>1, <1>2 DEF Valid
<1>5. Redeemed' = Redeemed \union {<<b, c>>}
  BY <1>1, <1>2 DEF Redeemed
<1>6. Withdrawn' = Withdrawn
  BY <1>1, <1>2 DEF Withdrawn
<1>7. <<b, c>> \in Batches \X Codes
  BY <1>1
<1> QED  BY <1>3, <1>4, <1>5, <1>6, <1>7 DEF Ledger!Next, Ledger!Redeem

\* A save closes a batch when nothing of it is left.
LEMMA WriteLedger ==
  ASSUME IInv, IInv', TurnsInv, NEW h \in Requests, Write(h),
         UNCHANGED scenario
  PROVE  UNCHANGED Ledger!vars
<1> DEFINE q == request[h]
           b == q.id
<1>1. /\ q \in Request /\ InTurn(q) /\ q.phase = "write"
      /\ Backed(q, batch, used)
  BY DEF Write, At, IInv, TypeOK, TurnsInv, CopiesBacked
<1>2. b \in Active /\ b \in Batches /\ batch[b].exists
  BY <1>1 DEF InTurn, Active, IInv, RowsCount
<1>3. /\ batch'[b].exists
      /\ batch'[b].isActive = batch[b].isActive
           \/ batch'[b].isActive = q.entity.isActive
  BY <1>2 DEF Write, IInv, TypeOK
<1>4. \A c \in Batches : c # b => batch'[c] = batch[c]
  BY DEF Write, IInv, TypeOK
<1>5. ~q.entity.isActive => used[b] = Codes
  BY <1>1 DEF Backed
<1>6. q.entity.isActive \in BOOLEAN /\ batch[b].isActive = TRUE
  BY <1>1, <1>2 DEF Request, Batch, Active, IInv, TypeOK
<1>7. ASSUME NEW c \in Batches
      PROVE  /\ batch'[c].exists = batch[c].exists
             /\ batch'[c].isActive # batch[c].isActive => used[c] = Codes
  <2>1. CASE c = b
    <3>1. batch[b] \in Batch /\ batch'[b] \in Batch
      BY <1>2 DEF IInv, TypeOK
    <3> QED  BY <2>1, <3>1, <1>2, <1>3, <1>5, <1>6 DEF Batch
  <2>2. CASE c # b
    BY <2>2, <1>4
  <2> QED  BY <2>1, <2>2
<1> QED  BY <1>7, LedgerRests DEF Write, IInv

\* When requests take turns, the codes keep to CodeLedger, whichever call
\* fails: a code that was redeemed or withdrawn never becomes valid again.
THEOREM CodesImplementLedger == MCSpec => LedgerKept
<1>1. MCInit => Ledger!Init
  BY DEF MCInit, Init, NoBatch, Ledger!Init, Valid, Redeemed, Withdrawn
<1>2. IInv /\ IInv' /\ TurnsInvInTurns /\ TurnsInvInTurns'
        /\ [MCNext]_<<vars, scenario>> => [Ledger!Next]_(Ledger!vars)
  <2> SUFFICES ASSUME IInv, IInv', TurnsInvInTurns, TurnsInvInTurns',
                      [MCNext]_<<vars, scenario>>
               PROVE  [Ledger!Next]_(Ledger!vars)
    OBVIOUS
  <2>1. CASE scenario # "turns" \/ UNCHANGED <<vars, scenario>>
    BY <2>1 DEF MCNext, Ledger!vars, vars, Valid, Redeemed, Withdrawn
  <2>2. CASE MCNext /\ scenario = "turns"
    <3>1. scenario' = "turns" /\ TurnsInv /\ AtMostOne'
      BY <2>2 DEF MCNext, TurnsInvInTurns, InTurns, TurnsInv
    <3>2. CASE UNCHANGED <<batch, used>>
      BY <3>1, <2>2, <3>2 DEF Ledger!vars, Valid, Redeemed, Withdrawn
    <3>3. CASE AttemptsExpire \/ LockExpires
      BY <3>2, <3>3 DEF AttemptsExpire, LockExpires
    <3>4. ASSUME NEW h \in Requests, RequestNext(h)
          PROVE  [Ledger!Next]_(Ledger!vars)
      <4>1. CASE Commit(h)
        BY <4>1, <2>2, <3>1, CommitLedger
      <4>2. CASE SaveCode(h)
        BY <4>2, <2>2, <3>1, SaveCodeLedger
      <4>3. CASE Write(h)
        BY <4>3, <2>2, <3>1, WriteLedger
      <4>4. CASE ~Commit(h) /\ ~SaveCode(h) /\ ~Write(h)
        <5>1. UNCHANGED <<batch, used>>
          BY <3>4, <4>4
             DEF RequestNext, Generate, Revoke, Match, Lock, Acknowledge, Diff,
                 Verify, FindBatch, FindCode, ClearAttempts, ClearLock, Count,
                 Expire, SetLock, Fault
        <5> QED  BY <5>1, <3>2
      <4> QED  BY <4>1, <4>2, <4>3, <4>4
    <3> QED  BY <2>2, <3>3, <3>4 DEF MCNext, Next
  <2> QED  BY <2>1, <2>2
<1> QED  BY <1>1, <1>2, SpecTurns, PTL DEF MCSpec, LedgerKept, Ledger!Spec

=============================================================================
