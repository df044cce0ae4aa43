--------------------------- MODULE RecoveryCodes ----------------------------
(***************************************************************************)
(* The recovery codes of one user: MfaRecoveryCodeService, called by the   *)
(* login that completes with a code and by the user's security settings.   *)
(*                                                                         *)
(* A batch of codes is a row of mfa_recovery_code_batches and one row of   *)
(* mfa_recovery_codes for each code.  generateForUser writes them in a     *)
(* transaction, at PostgreSQL's level READ COMMITTED; the other operations *)
(* do not.  Failed attempts are counted in Redis.                          *)
(*                                                                         *)
(* A request stops at each `await` on the database or on Redis.  The save  *)
(* of a batch takes two of them: TypeORM reads the row, and updates the    *)
(* columns in which the entity differs from it.                            *)
(***************************************************************************)
EXTENDS FiniteSets, Naturals

CONSTANTS
  Requests,     \* slots for requests in flight
  MayOverlap,   \* operations that run beside any other; the rest take turns
  CodeCount,    \* codes of a batch (10)
  MaxAttempts,  \* failures that lock verification (5)
  MaxBatches,   \* bound: batches begun
  MaxCount,     \* bound: failures counted
  MaxFaults     \* bound: failed calls

Operations == {"generate", "revoke", "acknowledge", "verify"}

ASSUME RecoveryConstants ==
  /\ MayOverlap \subseteq Operations
  /\ IsFiniteSet(Requests)
  /\ {CodeCount, MaxAttempts, MaxBatches, MaxCount, MaxFaults} \subseteq Nat
  /\ CodeCount > 0
  /\ MaxAttempts > 1

Batches == 1 .. MaxBatches
Codes == 1 .. CodeCount

VARIABLES
  batch,        \* rows of the batches, numbered by createdAt
  used,         \* codes of each batch whose row says isUsed
  begun,        \* batches begun, those of aborted transactions included
  attempts,     \* auth:mfa:recovery:attempts, 0 when the key is missing
  expiring,     \* that key has an expiry
  locked,       \* auth:mfa:recovery:locked exists
  request,      \* requests in flight
  faults,       \* failed calls
  \* history, read by properties only
  accepted,     \* how often each code was answered with true
  revoked,      \* batches revoked by a request that went through
  guesses       \* failures since the last success or expiry of the attempts

history == <<accepted, revoked, guesses>>
vars ==
  <<batch, used, begun, attempts, expiring, locked, request, faults, history>>

\* A row of mfa_recovery_code_batches; `exists` when it is inserted.
Batch == [exists : BOOLEAN, isActive : BOOLEAN, usedCodes : Nat]

Phase ==
  {"idle", "match", "lock", "commit", "findBatch", "findCode", "saveCode",
   "diff", "write", "clearAttempts", "clearLock", "count", "expire", "setLock"}

Request ==
  [op : Operations \union {"none"},
   phase : Phase,
   id : 0 .. MaxBatches,         \* the batch it is about
   entered : 0 .. MaxBatches,    \* the batch of the code that was entered,
   code : 0 .. CodeCount,        \*   0 for one that never existed
   seen : SUBSET Batches,        \* active batches its UPDATE matches
   entity : Batch,               \* its copy of the batch
   columns : SUBSET {"isActive", "usedCodes"}]  \* what its save will write

NoBatch == [exists |-> FALSE, isActive |-> FALSE, usedCodes |-> 0]

Idle ==
  [op |-> "none", phase |-> "idle", id |-> 0, entered |-> 0, code |-> 0,
   seen |-> {}, entity |-> NoBatch, columns |-> {}]

(***************************************************************************)
(* One type invariant for the whole state.                                 *)
(***************************************************************************)
TypeOK ==
  /\ batch \in [Batches -> Batch]
  /\ used \in [Batches -> SUBSET Codes]
  /\ begun \in 0 .. MaxBatches
  /\ attempts \in Nat
  /\ {expiring, locked} \subseteq BOOLEAN
  /\ request \in [Requests -> Request]
  /\ faults \in 0 .. MaxFaults
  /\ accepted \in [Batches \X Codes -> Nat]
  /\ revoked \subseteq Batches
  /\ guesses \in Nat

Init ==
  /\ batch = [b \in Batches |-> NoBatch]
  /\ used = [b \in Batches |-> {}]
  /\ begun = 0
  /\ attempts = 0
  /\ expiring = FALSE
  /\ locked = FALSE
  /\ request = [h \in Requests |-> Idle]
  /\ faults = 0
  /\ accepted = [e \in Batches \X Codes |-> 0]
  /\ revoked = {}
  /\ guesses = 0

-----------------------------------------------------------------------------
(* Vocabulary of the actions                                               *)

Becomes(h, r) == request' = [request EXCEPT ![h] = r]

Goes(h, phase) == Becomes(h, [request[h] EXCEPT !.phase = phase])

Ends(h) == Becomes(h, Idle)

At(h, phase) == request[h].phase = phase

\* The operations outside MayOverlap wait for one another.
Admitted(h, op) ==
  /\ request[h] = Idle
  /\ \/ op \in MayOverlap
     \/ \A g \in Requests : request[g].op \in MayOverlap \union {"none"}

Active == {b \in Batches : batch[b].isActive}

\* findOne({ isActive: true }, { createdAt: 'DESC' }) finds b.
Newest(b) == b \in Active /\ \A a \in Active : a <= b

\* A transaction holds the lock of the row of b.
LockedByOther(h, b) ==
  \E g \in Requests \ {h} : At(g, "commit") /\ b \in request[g].seen

-----------------------------------------------------------------------------
(* generateForUser and revokeActiveBatch                                   *)

\* A transaction begins; now() is the createdAt of the batch it will insert.
Generate(h) ==
  /\ Admitted(h, "generate")
  /\ begun < MaxBatches
  /\ begun' = begun + 1
  /\ Becomes(h, [Idle EXCEPT !.op = "generate", !.phase = "match",
                             !.id = begun + 1])
  /\ UNCHANGED <<batch, used, attempts, expiring, locked, faults, history>>

\* revokeActiveBatch is the same UPDATE, by itself.
Revoke(h) ==
  /\ Admitted(h, "revoke")
  /\ Becomes(h, [Idle EXCEPT !.op = "revoke", !.phase = "match"])
  /\ UNCHANGED <<batch, used, begun, attempts, expiring, locked, faults,
                 history>>

\* Faulty variant of Match: the update matches nothing.
MatchNone(h) ==
  /\ At(h, "match")
  /\ Becomes(h, [request[h] EXCEPT !.phase = "lock", !.seen = {}])
  /\ UNCHANGED <<batch, used, begun, attempts, expiring, locked, faults,
                 history>>

\* The UPDATE takes its snapshot: rows committed by now.
Match(h) ==
  /\ At(h, "match")
  /\ Becomes(h, [request[h] EXCEPT !.phase = "lock", !.seen = Active])
  /\ UNCHANGED <<batch, used, begun, attempts, expiring, locked, faults,
                 history>>

\* It has waited for other transactions and keeps the rows that still match.
Lock(h) ==
  LET r == request[h] IN
  /\ At(h, "lock")
  /\ \A b \in r.seen : ~LockedByOther(h, b)
  /\ Becomes(h, [r EXCEPT !.phase = "commit", !.seen = @ \intersect Active])
  /\ UNCHANGED <<batch, used, begun, attempts, expiring, locked, faults,
                 history>>

\* Faulty variant of Commit: the old batches are dated, but stay active.
CommitDated(h) ==
  LET r == request[h] IN
  /\ At(h, "commit")
  /\ batch' = [b \in Batches |->
       IF r.op = "generate" /\ b = r.id
       THEN [exists |-> TRUE, isActive |-> TRUE, usedCodes |-> 0]
       ELSE batch[b]]
  /\ revoked' = revoked \union r.seen
  /\ Ends(h)
  /\ UNCHANGED <<used, begun, attempts, expiring, locked, faults, accepted,
                 guesses>>

\* The insert of the batch and its codes, and the end of the transaction.
Commit(h) ==
  LET r == request[h] IN
  /\ At(h, "commit")
  /\ batch' = [b \in Batches |->
       IF r.op = "generate" /\ b = r.id
       THEN [exists |-> TRUE, isActive |-> TRUE, usedCodes |-> 0]
       ELSE [batch[b] EXCEPT !.isActive = @ /\ b \notin r.seen]]
  /\ revoked' = revoked \union r.seen
  /\ Ends(h)
  /\ UNCHANGED <<used, begun, attempts, expiring, locked, faults, accepted,
                 guesses>>

-----------------------------------------------------------------------------
(* acknowledgeBatch                                                        *)

\* Its findOne; acknowledgedAt itself is not modelled.
Acknowledge(h, b) ==
  /\ Admitted(h, "acknowledge")
  /\ b \in Active
  /\ Becomes(h, [Idle EXCEPT !.op = "acknowledge", !.phase = "diff",
                             !.id = b, !.entity = batch[b]])
  /\ UNCHANGED <<batch, used, begun, attempts, expiring, locked, faults,
                 history>>

\* A save begins with a SELECT: only what differs by then is updated.
Diff(h) ==
  LET r == request[h] IN
  /\ At(h, "diff")
  /\ Becomes(h, [r EXCEPT !.phase = "write", !.columns =
       {c \in {"isActive", "usedCodes"} : r.entity[c] # batch[r.id][c]}])
  /\ UNCHANGED <<batch, used, begun, attempts, expiring, locked, faults,
                 history>>

\* Its UPDATE; a verification still clears the attempts.
Write(h) ==
  LET r == request[h] IN
  /\ At(h, "write")
  /\ ~LockedByOther(h, r.id)
  /\ batch' = [batch EXCEPT ![r.id] =
       [exists |-> TRUE,
        isActive |-> IF "isActive" \in r.columns THEN r.entity.isActive
                     ELSE batch[r.id].isActive,
        usedCodes |-> IF "usedCodes" \in r.columns THEN r.entity.usedCodes
                      ELSE batch[r.id].usedCodes]]
  /\ IF r.op = "verify"
     THEN Becomes(h, [Idle EXCEPT !.op = "verify", !.phase = "clearAttempts",
                                  !.entered = r.entered, !.code = r.code])
     ELSE Ends(h)
  /\ UNCHANGED <<used, begun, attempts, expiring, locked, faults, history>>

-----------------------------------------------------------------------------
(* verifyAndConsume                                                        *)

\* assertNotRateLimited lets it pass.
Verify(h, b, c) ==
  /\ Admitted(h, "verify")
  /\ ~locked
  /\ attempts < MaxCount
  /\ Becomes(h, [Idle EXCEPT !.op = "verify", !.phase = "findBatch",
                             !.entered = b, !.code = c])
  /\ UNCHANGED <<batch, used, begun, attempts, expiring, locked, faults,
                 history>>

\* The number of failures counts the one about to be registered.
Refuse(h) ==
  /\ Becomes(h, [Idle EXCEPT !.op = "verify", !.phase = "count"])
  /\ guesses' = guesses + 1

\* Faulty variant of FindBatch: a code of any active batch is looked up, as
\* if its own batch had been found.
FindOwnBatch(h) ==
  LET r == request[h] IN
  /\ At(h, "findBatch")
  /\ \/ /\ r.entered > 0
        /\ Becomes(h, [r EXCEPT !.phase = "findCode", !.id = r.entered,
                                !.entity = batch[r.entered]])
        /\ UNCHANGED guesses
     \/ r.entered = 0 /\ Refuse(h)
  /\ UNCHANGED <<batch, used, begun, attempts, expiring, locked, faults,
                 accepted, revoked>>

FindBatch(h) ==
  /\ At(h, "findBatch")
  /\ \/ /\ \E b \in Active :
             /\ Newest(b)
             /\ Becomes(h, [request[h] EXCEPT !.phase = "findCode", !.id = b,
                                              !.entity = batch[b]])
        /\ UNCHANGED guesses
     \/ Active = {} /\ Refuse(h)
  /\ UNCHANGED <<batch, used, begun, attempts, expiring, locked, faults,
                 accepted, revoked>>

\* Faulty variant of Unused: a code that was used is found again.
FoundUsed(r) == r.entered = r.id

\* The code was given out with this batch, and its row is not used.
Unused(r) == r.entered = r.id /\ r.code \notin used[r.id]

FindCode(h) ==
  LET r == request[h] IN
  /\ At(h, "findCode")
  /\ \/ Unused(r) /\ Goes(h, "saveCode") /\ UNCHANGED guesses
     \/ ~Unused(r) /\ Refuse(h)
  /\ UNCHANGED <<batch, used, begun, attempts, expiring, locked, faults,
                 accepted, revoked>>

\* Faulty variant of Consumed: the code is not counted.
ConsumedUncounted(entity) ==
  [entity EXCEPT !.isActive = @ /\ entity.usedCodes + 1 < CodeCount]

\* Faulty variant of Consumed: the batch closes one code early.
ConsumedEarly(entity) ==
  [entity EXCEPT !.usedCodes = @ + 1,
                 !.isActive = @ /\ entity.usedCodes + 2 < CodeCount]

\* The batch counts the code, and closes with its last one.
Consumed(entity) ==
  [entity EXCEPT !.usedCodes = @ + 1,
                 !.isActive = @ /\ entity.usedCodes + 1 < CodeCount]

SaveCode(h) ==
  LET r == request[h] IN
  /\ At(h, "saveCode")
  /\ used' = [used EXCEPT ![r.id] = @ \union {r.code}]
  /\ Becomes(h, [r EXCEPT !.phase = "diff", !.entity = Consumed(@)])
  /\ UNCHANGED <<batch, begun, attempts, expiring, locked, faults, history>>

\* Faulty variant of ClearAttempts: one failure is forgiven, not all.
ForgiveOne(h) ==
  /\ At(h, "clearAttempts")
  /\ attempts' = attempts - 1
  /\ expiring' = FALSE
  /\ guesses' = 0
  /\ Goes(h, "clearLock")
  /\ UNCHANGED <<batch, used, begun, locked, faults, accepted, revoked>>

\* clearAttempts deletes one key and then the other.
ClearAttempts(h) ==
  /\ At(h, "clearAttempts")
  /\ attempts' = 0
  /\ expiring' = FALSE
  /\ guesses' = 0
  /\ Goes(h, "clearLock")
  /\ UNCHANGED <<batch, used, begun, locked, faults, accepted, revoked>>

\* The caller is told that the code is valid.
ClearLock(h) ==
  LET r == request[h] IN
  /\ At(h, "clearLock")
  /\ locked' = FALSE
  /\ accepted' = [accepted EXCEPT ![<<r.entered, r.code>>] = @ + 1]
  /\ guesses' = 0
  /\ Ends(h)
  /\ UNCHANGED <<batch, used, begun, attempts, expiring, faults, revoked>>

-----------------------------------------------------------------------------
(* registerFailedAttempt                                                   *)

\* Faulty variant of Locks: the lock is one failure late.
LocksLate(count) == count > MaxAttempts

Locks(count) == count >= MaxAttempts

Count(h) ==
  /\ At(h, "count")
  /\ attempts' = attempts + 1
  /\ \/ attempts' = 1 /\ Goes(h, "expire")
     \/ attempts' > 1 /\ Locks(attempts') /\ Goes(h, "setLock")
     \/ attempts' > 1 /\ ~Locks(attempts') /\ Ends(h)
  /\ UNCHANGED <<batch, used, begun, expiring, locked, faults, history>>

\* EXPIRE has no effect on a key that is gone.
Expire(h) ==
  /\ At(h, "expire")
  /\ expiring' = (attempts > 0)
  /\ Ends(h)
  /\ UNCHANGED <<batch, used, begun, attempts, locked, faults, history>>

SetLock(h) ==
  /\ At(h, "setLock")
  /\ locked' = TRUE
  /\ Ends(h)
  /\ UNCHANGED <<batch, used, begun, attempts, expiring, faults, history>>

-----------------------------------------------------------------------------
(* getStatus                                                               *)

\* What it reports of the batch it finds; below two, a warning goes with it.
RemainingCodes(b) == CodeCount - batch[b].usedCodes

-----------------------------------------------------------------------------
(* The surroundings                                                        *)

\* Fifteen minutes after the first failure.
AttemptsExpire ==
  /\ expiring
  /\ attempts' = 0
  /\ expiring' = FALSE
  /\ guesses' = 0
  /\ UNCHANGED <<batch, used, begun, locked, request, faults, accepted,
                 revoked>>

\* Fifteen minutes after the lock was set: the attempts, which came before
\* and last as long, have expired if they ever do, and no request is that old.
LockExpires ==
  /\ locked
  /\ ~expiring
  /\ \A h \in Requests : ~At(h, "expire") /\ ~At(h, "setLock")
  /\ locked' = FALSE
  /\ UNCHANGED <<batch, used, begun, attempts, expiring, request, faults,
                 history>>

\* A call fails or the process stops; a transaction is rolled back.
Fault(h) ==
  /\ faults < MaxFaults
  /\ request[h] # Idle
  /\ faults' = faults + 1
  /\ Ends(h)
  /\ UNCHANGED <<batch, used, begun, attempts, expiring, locked, history>>

RequestNext(h) ==
  \/ Generate(h) \/ Revoke(h) \/ Match(h) \/ Lock(h) \/ Commit(h)
  \/ \E b \in Batches : Acknowledge(h, b)
  \/ Diff(h) \/ Write(h)
  \/ Verify(h, 0, 0)
  \/ \E b \in Batches, c \in Codes : batch[b].exists /\ Verify(h, b, c)
  \/ FindBatch(h) \/ FindCode(h) \/ SaveCode(h)
  \/ ClearAttempts(h) \/ ClearLock(h)
  \/ Count(h) \/ Expire(h) \/ SetLock(h)
  \/ Fault(h)

Next == AttemptsExpire \/ LockExpires \/ \E h \in Requests : RequestNext(h)

Spec == Init /\ [][Next]_vars

-----------------------------------------------------------------------------
(* Properties                                                              *)

\* "Each code can be used once": no code is answered with true twice.
CodeOnce == \A e \in Batches \X Codes : accepted[e] <= 1

\* generateForUser promises that any previous active batch is revoked: there
\* are never two.
OneActiveBatch == Cardinality(Active) <= 1

\* A batch that was revoked, by its user or by the next batch, stays so: the
\* saves of its row by verifyAndConsume and acknowledgeBatch do not undo it.
RevokedStaysRevoked == \A b \in revoked : ~batch[b].isActive

\* 'all_codes_consumed' is true: however requests interleave or fail, a batch
\* that nobody revoked is not closed while a code of it is left.
NotClosedEarly ==
  \A b \in Batches :
    batch[b].exists /\ ~batch[b].isActive /\ b \notin revoked =>
      used[b] = Codes

\* getStatus, and the warning that codes run low, go by a count in the row:
\* while no call has failed, what they report is the number of codes left.
StatusHonest ==
  faults = 0 /\ (\A h \in Requests : request[h] = Idle) =>
    \A b \in Batches :
      Newest(b) => RemainingCodes(b) = Cardinality(Codes \ used[b])

\* Requests that were let in together may each fail once more, and then, as
\* long as no call to Redis fails, verification is locked until the failures
\* are forgotten or a code is right.
GuessesBounded ==
  faults = 0 => guesses <= MaxAttempts + Cardinality(Requests) - 1

\* The codes as CodeLedger sees them.
Valid ==
  {e \in Batches \X Codes : batch[e[1]].isActive /\ e[2] \notin used[e[1]]}
Redeemed == {e \in Batches \X Codes : e[2] \in used[e[1]]}
Withdrawn ==
  {e \in Batches \X Codes :
     batch[e[1]].exists /\ ~batch[e[1]].isActive /\ e[2] \notin used[e[1]]}

=============================================================================
