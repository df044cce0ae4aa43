---------------------------- MODULE LoginLockout ----------------------------
(***************************************************************************)
(* One user account between logins, staff and jobs: the parts of           *)
(* AuthService, UserService, LoginAttemptService, AccountLockService and   *)
(* the scheduled jobs that count wrong passwords and lock or unlock.       *)
(*                                                                         *)
(* The account is a row; Redis holds a copy of it, a key that says it is   *)
(* locked, and two counters.  A request is a plan of steps, one for each   *)
(* `await` on the database or on Redis, and works on the entity it read,   *)
(* often the copy in Redis, which it saves whole.  repository.save (select,*)
(* compare, update in one transaction) is one step here.                   *)
(***************************************************************************)
EXTENDS Naturals, Sequences, FiniteSets

CONSTANTS
  Requests,     \* slots for requests and jobs in flight
  Uses,         \* the operations that happen
  MayOverlap,   \* operations that run beside any other; the rest take turns
  Threshold,    \* wrong passwords at which UserService locks
  Block,        \* wrong passwords at which AuthService locks
  MaxTime,      \* bound: half hours
  MaxWrong,     \* bound: wrong passwords per half hour
  MaxFaults,    \* bound: failed calls
  None          \* no copy in Redis

Operations ==
  {"wrong", "right", "lock", "unlock", "job", "suspend", "activate", "patch",
   "edit", "dormant"}

ASSUME LockoutConstants ==
  /\ IsFiniteSet(Requests)
  /\ Uses \subseteq Operations
  /\ MayOverlap \subseteq Operations
  /\ {Threshold, Block, MaxTime, MaxWrong, MaxFaults} \subseteq Nat
  /\ Threshold > 0 /\ Block > 0

VARIABLES
  row,          \* the user's row
  cache,        \* user:id:*, a copy of the row
  lockKey,      \* the lock key: the half hour it ends, 0 if there is none
  attempts,     \* auth:attempts:*, counted by LoginAttemptService
  failed,       \* the failed-attempts key, counted by UserService
  now,          \* half hours that passed
  request,      \* requests and jobs in flight
  \* history, read by properties only
  misses,       \* wrong passwords answered since the count was reset
  standing,     \* a lock was completed and nobody lifted it
  barred,       \* a suspension was completed, no activation began
  intruder,     \* a login that began while barred passed the checks
  faults        \* failed calls so far

redis == <<cache, lockKey, attempts, failed>>
history == <<misses, standing, barred, intruder>>
vars == <<row, redis, now, request, history, faults>>

User ==
  [status : {"active", "locked", "suspended"},
   isLocked : BOOLEAN,
   until : Nat,                  \* lockedUntil: a half hour, 0 for null
   fails : Nat]                  \* failedLoginAttempts

Step ==
  {"checkLock", "rekey", "count", "get", "find", "keep", "countFailed",
   "setKey", "save", "saveLocked", "delFailed", "delKey", "invalidate",
   "reset", "record"}

Request ==
  [op : Operations \union {"none"},
   plan : Seq(Step),             \* the steps it has yet to take
   entity : User,                \* its copy of the user
   count : Nat,                  \* what the attempts counter told it
   barred : BOOLEAN]             \* the account was barred when it began

NewUser == [status |-> "active", isLocked |-> FALSE, until |-> 0, fails |-> 0]

Idle ==
  [op |-> "none", plan |-> <<>>, entity |-> NewUser, count |-> 0,
   barred |-> FALSE]

(***************************************************************************)
(* One type invariant for the whole state.                                 *)
(***************************************************************************)
TypeOK ==
  /\ row \in User
  /\ cache \in {None} \union User
  /\ lockKey \in 0 .. MaxTime + 1
  /\ attempts \in Nat
  /\ failed \in Nat
  /\ now \in 0 .. MaxTime
  /\ request \in [Requests -> Request]
  /\ misses \in Nat
  /\ {standing, barred, intruder} \subseteq BOOLEAN
  /\ faults \in Nat

Init ==
  /\ row = NewUser
  /\ cache = None
  /\ lockKey = 0
  /\ attempts = 0
  /\ failed = 0
  /\ now = 0
  /\ request = [h \in Requests |-> Idle]
  /\ misses = 0
  /\ standing = FALSE
  /\ barred = FALSE
  /\ intruder = FALSE
  /\ faults = 0

-----------------------------------------------------------------------------
(* The steps of each operation                                             *)

\* A change begins with requireById, which reads the copy in Redis, or else
\* the row, and ends with another one, whose entity is the answer.
Changed(steps) == <<"get">> \o steps \o <<"invalidate", "get">>

\* Faulty variant of Locking: nothing is written to Redis.
LockingRowOnly == Changed(<<"saveLocked">>)

\* lockUser.
Locking == Changed(<<"saveLocked", "setKey">>)

Plan(op) ==
  CASE op \in {"wrong", "right"} -> <<"checkLock">>
    [] op = "lock" -> Locking
    [] op \in {"unlock", "job"} -> Changed(<<"save", "delFailed", "delKey">>)
    [] op \in {"suspend", "activate"} -> Changed(<<"delKey", "save">>)
    [] op \in {"patch", "edit"} -> Changed(<<"save">>)
    [] op = "dormant" -> <<"save", "delFailed", "delKey", "invalidate">>

\* Faulty variant of Accepted: a login leaves the copy of the user.
AcceptedKeepsCopy(op) ==
  IF op = "wrong" THEN <<"count">>
                  ELSE <<"reset", "record", "delFailed", "delKey">>

\* An account that may log in: a wrong password is counted; the right one
\* clears the counters and the row (recordSuccessfulLogin).
Accepted(op) ==
  IF op = "wrong" THEN <<"count">>
  ELSE <<"reset", "record", "delFailed", "delKey", "invalidate">>

-----------------------------------------------------------------------------
(* Vocabulary of the actions                                               *)

Becomes(h, r) == request' = [request EXCEPT ![h] = r]

At(h, step) == request[h].plan # <<>> /\ Head(request[h].plan) = step

\* The rest of the plan, or the end of the request.
Rest(r) == IF Len(r.plan) = 1 THEN Idle ELSE [r EXCEPT !.plan = Tail(@)]

Last(r) == Len(r.plan) = 1

LockedUser(u) ==
  [u EXCEPT !.isLocked = TRUE, !.status = "locked", !.until = now + 1]

UnlockedUser(u) ==
  [u EXCEPT !.isLocked = FALSE, !.until = 0, !.fails = 0]

\* Faulty variant of Edited: whoever is unlocked keeps the status.
EditedKeepsStatus(op, u) ==
  IF op \in {"unlock", "job"} THEN UnlockedUser(u) ELSE u

\* What is saved of the entity an operation read.
Edited(op, u) ==
  CASE op \in {"unlock", "job"} ->
         [UnlockedUser(u) EXCEPT !.status = IF @ = "locked" THEN "active"
                                                            ELSE @]
    [] op = "suspend" ->
         [u EXCEPT !.status = "suspended", !.isLocked = FALSE, !.until = 0]
    [] op = "activate" ->
         [u EXCEPT !.status = "active", !.isLocked = FALSE, !.until = 0]
    [] op = "patch" -> [u EXCEPT !.status = "active"]
    [] op = "dormant" ->
         [UnlockedUser(u) EXCEPT !.status = "locked", !.isLocked = TRUE]
    [] op \in {"edit", "wrong", "right"} -> u

Quiet == \A h \in Requests : request[h] = Idle

\* The operations outside MayOverlap wait for one another.
Admitted(h, op) ==
  /\ op \in Uses
  /\ request[h] = Idle
  /\ op \in MayOverlap
     \/ \A g \in Requests : request[g].op \in MayOverlap \union {"none"}

\* findExpiredLockedUsers.
Expired(u) ==
  u.isLocked /\ u.status = "locked" /\ u.until # 0 /\ u.until <= now

-----------------------------------------------------------------------------
(* Requests and jobs                                                       *)

\* A login reads the row (the password is never cached); staff lock, unlock,
\* suspend or activate the account, set its status with a PATCH, or edit
\* something else of it; the jobs look for rows.
Begin(h, op) ==
  /\ Admitted(h, op)
  /\ op \in {"wrong", "lock"} => now < MaxTime
  /\ op = "wrong" => attempts < MaxWrong
  /\ op = "job" => Expired(row)
  /\ op = "dormant" => row.status = "active" /\ ~row.isLocked
  /\ Becomes(h, [Idle EXCEPT !.op = op, !.plan = Plan(op), !.entity = row,
                             !.barred = barred])
  /\ barred' = (barred /\ op \notin {"activate", "patch"})
  /\ standing' =
       (standing /\ op \notin {"unlock", "suspend", "activate", "patch"})
  /\ UNCHANGED <<row, redis, now, misses, intruder, faults>>

\* ensureUserCanLogin: refused by the key, the status or the lock.  A lock
\* whose time is over is lifted on the way.
CheckLock(h) ==
  LET r == request[h]
      u == r.entity
      locked == u.isLocked /\ u.until > now
      may == lockKey = 0 /\ u.status = "active" /\ ~locked
      lift == <<"save", "delFailed", "delKey", "invalidate">>
  IN
  /\ At(h, "checkLock")
  /\ \/ /\ lockKey # 0 \/ u.status # "active"
        /\ Becomes(h, Idle)
     \/ /\ lockKey = 0 /\ u.status = "active" /\ locked
        /\ Becomes(h, [r EXCEPT !.plan = <<"rekey">>])
     \/ /\ may /\ u.isLocked
        /\ Becomes(h, [r EXCEPT !.entity = UnlockedUser(u),
                                !.plan = lift \o Accepted(r.op)])
     \/ /\ may /\ ~u.isLocked
        /\ Becomes(h, [r EXCEPT !.plan = Accepted(r.op)])
  /\ intruder' = (intruder \/ (may /\ r.barred))
  /\ UNCHANGED <<row, redis, now, misses, standing, barred, faults>>

\* The key is written again for the time that is left; the login is refused.
Rekey(h) ==
  /\ At(h, "rekey")
  /\ lockKey' = request[h].entity.until
  /\ Becomes(h, Idle)
  /\ UNCHANGED <<row, cache, attempts, failed, now, history, faults>>

-----------------------------------------------------------------------------
(* A wrong or a right password                                             *)

\* LoginAttemptService.increment.
Count(h) ==
  LET r == request[h] IN
  /\ At(h, "count")
  /\ attempts' = attempts + 1
  /\ Becomes(h, [r EXCEPT !.count = attempts + 1,
                          !.plan = <<"get", "countFailed">>])
  /\ UNCHANGED <<row, cache, lockKey, failed, now, history, faults>>

\* Faulty variant of Failures: the key in Redis is not asked.
FailuresOfRow(u) == u.fails + 1

\* The larger of the row's count and that of the key, this one included.
Failures(u) == IF u.fails > failed THEN u.fails + 1 ELSE failed + 1

\* What a wrong password still has to do: UserService saves the count, and
\* AuthService locks once more when its own counter says so.
Penalty(u, count) ==
  (IF Failures(u) >= Threshold THEN <<"setKey">> ELSE <<>>)
  \o <<"save", "invalidate", "get">>
  \o (IF count >= Block THEN Locking ELSE <<>>)

\* incrementFailedLoginAttempts, after requireById.
CountFailed(h) ==
  LET r == request[h]
      u == [r.entity EXCEPT !.fails = Failures(r.entity)]
  IN
  /\ At(h, "countFailed")
  /\ failed' = failed + 1
  /\ Becomes(h, [r EXCEPT
       !.entity = IF u.fails >= Threshold THEN LockedUser(u) ELSE u,
       !.plan = Penalty(r.entity, r.count)])
  /\ UNCHANGED <<row, cache, lockKey, attempts, now, history, faults>>

\* LoginAttemptService.reset.
Reset(h) ==
  /\ At(h, "reset")
  /\ attempts' = 0
  /\ Becomes(h, Rest(request[h]))
  /\ UNCHANGED <<row, cache, lockKey, failed, now, history, faults>>

\* recordSuccessfulLogin updates three columns; the status is not one.
Record(h) ==
  /\ At(h, "record")
  /\ row' = UnlockedUser(row)
  /\ misses' = 0
  /\ Becomes(h, Rest(request[h]))
  /\ UNCHANGED <<redis, now, standing, barred, intruder, faults>>

-----------------------------------------------------------------------------
(* requireById                                                             *)

\* What a request that ends here was for.
Answered(h) ==
  LET r == request[h] IN
  IF Last(r)
    THEN /\ misses' = IF r.op = "wrong" THEN misses + 1 ELSE misses
         /\ standing' = (standing \/ r.op = "lock")
         /\ barred' = (barred \/ r.op = "suspend")
         /\ UNCHANGED intruder
    ELSE UNCHANGED history

\* Faulty variant of GetUser: a miss is taken for a hit.
GetUserBlindly(h) ==
  /\ At(h, "get")
  /\ Becomes(h, Rest([request[h] EXCEPT !.entity = cache]))
  /\ Answered(h)
  /\ UNCHANGED <<row, redis, now, faults>>

GetUser(h) ==
  LET r == request[h] IN
  /\ At(h, "get")
  /\ \/ /\ cache # None
        /\ Becomes(h, Rest([r EXCEPT !.entity = cache]))
        /\ Answered(h)
     \/ /\ cache = None
        /\ Becomes(h, [r EXCEPT !.plan = <<"find", "keep">> \o Tail(@)])
        /\ UNCHANGED history
  /\ UNCHANGED <<row, redis, now, faults>>

FindUser(h) ==
  /\ At(h, "find")
  /\ Becomes(h, Rest([request[h] EXCEPT !.entity = row]))
  /\ UNCHANGED <<row, redis, now, history, faults>>

\* cacheUser.
KeepUser(h) ==
  /\ At(h, "keep")
  /\ cache' = request[h].entity
  /\ Becomes(h, Rest(request[h]))
  /\ Answered(h)
  /\ UNCHANGED <<row, lockKey, attempts, failed, now, faults>>

-----------------------------------------------------------------------------
(* Saves and keys                                                          *)

\* The columns in which the entity differs from the row: in effect, all.
Save(h) ==
  LET r == request[h] IN
  /\ At(h, "save")
  /\ row' = Edited(r.op, r.entity)
  /\ Becomes(h, Rest(r))
  /\ UNCHANGED <<redis, now, history, faults>>

SaveLocked(h) ==
  LET r == request[h] IN
  /\ At(h, "saveLocked")
  /\ row' = LockedUser(r.entity)
  /\ Becomes(h, Rest(r))
  /\ UNCHANGED <<redis, now, history, faults>>

SetKey(h) ==
  /\ At(h, "setKey")
  /\ lockKey' = now + 1
  /\ Becomes(h, Rest(request[h]))
  /\ UNCHANGED <<row, cache, attempts, failed, now, history, faults>>

DelFailed(h) ==
  /\ At(h, "delFailed")
  /\ failed' = 0
  /\ Becomes(h, Rest(request[h]))
  /\ UNCHANGED <<row, cache, lockKey, attempts, now, history, faults>>

DelKey(h) ==
  /\ At(h, "delKey")
  /\ lockKey' = 0
  /\ Becomes(h, Rest(request[h]))
  /\ UNCHANGED <<row, cache, attempts, failed, now, history, faults>>

\* Faulty variant of Invalidate: the copy stays.
InvalidateNothing(h) ==
  /\ At(h, "invalidate")
  /\ Becomes(h, Rest(request[h]))
  /\ UNCHANGED <<row, redis, now, history, faults>>

\* invalidateUserCaches.
Invalidate(h) ==
  /\ At(h, "invalidate")
  /\ cache' = None
  /\ Becomes(h, Rest(request[h]))
  /\ UNCHANGED <<row, lockKey, attempts, failed, now, history, faults>>

-----------------------------------------------------------------------------
(* Time and failures                                                       *)

\* USER_CACHE_TTL, five minutes.
CopyExpires ==
  /\ cache # None
  /\ cache' = None
  /\ UNCHANGED <<row, lockKey, attempts, failed, now, request, history, faults>>

\* Half an hour without a request: locks and counters are over.
HalfHourPasses ==
  /\ Quiet
  /\ now < MaxTime
  /\ now' = now + 1
  /\ cache' = None
  /\ lockKey' = 0
  /\ attempts' = 0
  /\ failed' = 0
  /\ misses' = 0
  /\ standing' = FALSE
  /\ UNCHANGED <<row, request, barred, intruder, faults>>

\* A call to the database or to Redis fails, and so does the request.
Raise(h) ==
  /\ faults < MaxFaults
  /\ request[h] # Idle
  /\ Becomes(h, Idle)
  /\ faults' = faults + 1
  /\ UNCHANGED <<row, redis, now, history>>

-----------------------------------------------------------------------------
Proceeds(h) ==
  \/ CheckLock(h) \/ Rekey(h) \/ Count(h) \/ CountFailed(h)
  \/ Reset(h) \/ Record(h) \/ GetUser(h) \/ FindUser(h) \/ KeepUser(h)
  \/ Save(h) \/ SaveLocked(h) \/ SetKey(h) \/ DelFailed(h) \/ DelKey(h)
  \/ Invalidate(h)

Next ==
  \/ \E h \in Requests :
       (\E op \in Operations : Begin(h, op)) \/ Proceeds(h) \/ Raise(h)
  \/ CopyExpires
  \/ HalfHourPasses

Spec == Init /\ [][Next]_vars

JobRuns == \E h \in Requests : Begin(h, "job")

\* Started requests go on, the cron expression starts the job every minute,
\* and time passes.  The last two are strong: the guards that make a job
\* take its turn, and half an hour pass between requests, are the model's.
Fairness ==
  /\ \A h \in Requests : WF_vars(Proceeds(h))
  /\ SF_vars(JobRuns)
  /\ SF_vars(HalfHourPasses)

-----------------------------------------------------------------------------
(* Properties                                                              *)

Blocked == lockKey # 0 \/ row.status # "active"

\* After Threshold wrong passwords in half an hour the account is blocked,
\* also when they are sent together and overwrite each other's row, or an
\* edit does: the counter and the key in Redis make up for it.
MissesBlock == misses >= Threshold => Blocked

\* A lock set by staff blocks the account for its half hour, although edits
\* and failing logins in flight save an entity without it.
LockHolds == standing => Blocked

\* A suspended account admits no login until somebody activates it.
SuspendedStaysOut == ~intruder

\* Between requests the copy of a user is its row: otherwise the next edit
\* saves a state of the account that is over.
CopyTrue == Quiet => cache \in {None, row}

=============================================================================
