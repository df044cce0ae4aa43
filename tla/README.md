# bulk-data: TLA+ models, model checking and proofs

The repository is the portal through which corporate customers buy mobile data
in bulk: a NestJS API (`src/api`) and a Next.js frontend (`src/frontend`). This
directory holds TLA+ modules for the API, the TLC configurations that check them
and TLAPS proofs about them.

    tlc -workers 2 -config Payments.cfg MCPaymentScenarios    # one run
    tlapm PaymentsProofs.tla                                  # the proofs

Paths below are relative to `src/api/src/modules/` unless they start with `src/`.

## 1. Inventory

All state that outlives a request is in PostgreSQL (TypeORM), in Redis, in the
BullMQ queues, or in timers of the process. But for the generation of
recovery codes no service opens a database transaction, and none takes a lock
around a read and the save that depends on it, so a request is interrupted at
every `await`, and `repository.save(entity)` writes back the entity the request
read earlier. That is where almost every hazard of
this code comes from.

| Component | State | Operations | What makes it correct | Module |
|---|---|---|---|---|
| Purchases and payments (`bulk-data-payments.service.ts`, `-payment-events`, `-payment-callback`, session repository) | `bulk_data_transactions`, `_payment_sessions`, `_balances`, totals in `bulk_data_customers`, simulation timers | createPurchase, retryPurchase, confirmPurchase, handlePaymentProviderCallback, failPayment, finalizeConfirmedPurchase, advanceSimulatedPaymentStatus | nothing is claimed or counted that the PCRF did not acknowledge; at most one subscription per notice; one per purchase; totals agree with it; receipts stay true | `Payments` |
| Payment provider calls (`-payment-provider`, `-prn-`, `-sptransfer-`, `-airtime-provider`) | the session row, saved before and after the call | createPaymentSession | the two saves bracket the call; a callback may come between them | `Payments` (the saves and outcomes; not the messages) |
| PCRF provisioning (`-provisioning.service.ts`, `provisioning/`) | outside | subscribeService, add / remove group member, add subscriber | called before anything is saved | `Payments`, `NumberRegistry` (the calls they make) |
| Customers and MSISDNs (`-customers.service.ts`) | `bulk_data_customers`, `bulk_data_secondary_numbers`, rows of zeros in `bulk_data_balances` | register, update, change status, add primary, add / bulk add / remove secondary | one owner per primary number; count = rows; a removed row was removed at the PCRF | `NumberRegistry` (status change: `Payments`, `Activation`) |
| User sessions (`users/services/user-session.service.ts`, `redis/`) | session rows, two kinds of Redis copies, revocation markers | create, validate, rotate, revoke (one, all), list | a revoked session is never accepted again; copies agree with rows | `UserSessions` |
| Login, lockout, unlock jobs | Redis attempt counters and lock key, lock fields of the user row, the Redis copy of the user | increment, reset, lockUser, unlockUser, suspend, activate, edits, two jobs | locked after the threshold; unlocked when due, not before; a suspended user stays out | `LoginLockout` |
| Account activation | rows of `auth_challenges`, the user and customer rows | challenge, OTP, verify, create password, activate, clean-up | one token is worth one next token; a spent link stays spent; user and customer agree | `Activation` |
| MFA recovery codes | batches, codes, attempt keys in Redis | generate, verify and consume, acknowledge, revoke | a code is used once; a revoked batch stays revoked | `RecoveryCodes` |
| Passkeys (`services/webauthn/`, WebAuthn MFA provider) | `webauthn_credentials`, `user_auth_factors`, challenges in Redis and `auth_challenges` | begin and finish registration, revoke, login, second factor | a signature opens one login; a revoked passkey stays revoked; the factor goes with the last passkey | `Passkeys` |
| Notifications (service, dispatcher, BullMQ processor, channels) | notification rows, queue, unread count in Redis | create, dispatch, process, retry, read, unread count | sent when owed; what was read stays read; the count is right | `Delivery` |
| Quiet hours | `dashboardPreferences`, delays of jobs | getDeliveryDelayMs | delay ends with the first minute outside the window | `QuietHours` |
| Bundles, service requests, seed; authentication policy; password reset, e-mail and phone verification; TOTP, AD, social login; audit; reports, checkout, serializers; health, guards; frontend | see section 13 | | | not modelled |

How they interact. The payments service calls the provider and the PCRF, is
called back by the provider over HTTP and by its own timers, and shares the
customer row with `changeCustomerStatus`, with the number operations (count of
secondary numbers) and with activation: each of them saves the *whole* row.
Logins go through the lock of the account, one of the second factors, and the
creation of a session; edits of a user start from its copy in Redis. Whatever
the user is told goes through the notification queue. Events go to the browser
over Socket.IO and carry the receipt. `PROJECT.json` lists the hazards at their
lines with the properties that cover them.

## 2. How the project is built

Each component is a module of its own, with its state as variables and one
action for the code between two `await`s. What it promises, where that is more
than an invariant, is a small abstract module (`PurchaseLedger`, `NumberBook`,
`LiveSessions`, `CodeLedger`, `KeyRing`, `Inbox`), which the detailed one is
shown to implement. Theorems are in `PaymentsProofs`, `RegistryProofs`,
`LockoutProofs`, `ActivationProofs`, `DeliveryProofs` (those about `QuietHours`, too),
`RecoveryProofs`, `PasskeysProofs` and `SessionsProofs`.

**Scenarios.** Most promises of this code hold only while certain operations
wait for one another, and a run in which everything happens at once would be
too large and would say little. So the module for TLC (`MC...`) adds a variable
`scenario`, chosen at the start and never changed, and restricts `Next` by it
(`Plays`, `Within`, `Fits`): which operations are sent, how many may be in
flight, whether a call fails. The module itself knows nothing of it; a property
that needs the restriction says so (`...InTurns`, `...UnlessRetried`), and what
the code does *without* it is told below. One run thus asks one question of a
component. Within its scenarios every action of every module is taken, and
every branch of every action (checked with `tlc -coverage`).

**Conjunctions.** An invariant such as `RowsSafe` is a conjunction of named
promises about one set of rows, each with its own comment and each broken by a
mutant of its own where it is not implied by the others.

**Bounds** are constants named `Max...` and appear in guards only. A run that
ends when the bounds are reached says `CHECK_DEADLOCK FALSE`.

**In turns** means: callers wait for an answer before they send the next
request about the same account. It is an assumption about callers, which the
code does not enforce. It is where the documents are true; the scenarios
without it, and the sections *Observed*, show what is left.

## 3. Payments

### State

| Variable | Code |
|---|---|
| `customer` | status, `bundlePurchases`, `totalSpendUgx` of the customer row |
| `transaction` | status and amount; `absent` before the insert |
| `session` | payment sessions, numbered in the order of `createdAt`, which `findForProviderCallback` sorts by |
| `balance` | bundles on the primary number, `updateBalanceAfterPurchase` |
| `request` | a request in flight: the step it awaits, and the entities it read (`tStatus`, `sStatus`, `cus`), which is what its saves write |
| `timers` | `setTimeout`s of `schedulePaymentStatusSimulation` |
| `notices`, `subscribed`, `fulfilled`, `units`, `spent`, `receipts`, `instructed` | history, which guards no action but for the bound on `notices`: what provider and PCRF did, what the caller was told, what staff last ordered |

### Actions

Every action is the code between two `await`s.

- createPurchase: `CreatePurchase`, `InsertTransaction`, `InsertSession`, then
  `PaymentInitiated` (which saves the session *again*) or `InitiationFails`.
  retryPurchase: `RetryPurchase`, `ReopenTransaction`, then the same.
- Notices: `ConfirmPurchase` reads transaction, session, customer;
  `ProviderCallback` reads session, transaction, customer; `SimulationTimer`
  reads the session, and for `confirmed` looks it up again as a callback.
  `Found` is the lookup: any identifier matches and the newest session wins.
- Decision, after the customer was read: `AlreadyConfirmed`, `FailPayment`,
  `RecordProgress`, `ConfirmAgain`, `StartProvisioning`, on the copies held.
- `Provisioned` or `ProvisioningFails` (with or without effect at the PCRF).
- The `Promise.all` of saves: `SaveTransaction`, `SaveSession`, `SaveCustomer`,
  `SaveBalance` in any order, then `Finish` emits the event.
- `ChangeCustomerStatus`; `SaveFails`, `RequestFails`, `Crash`.
  `Raise`: an exception in a timer is an unhandled rejection (the handler is
  called with `void`), which ends the process.

### Abstractions

- `save` of TypeORM reads the row, compares and updates the columns that differ
  from it. It is one atomic write of the request's copy of the columns
  modelled, which is its effect unless another request writes between the read
  and the update. Each invariant proved bounds every column by itself, so a row
  put together from two saves is one they allow; where columns depend on each
  other, as in the registry, both steps are modelled.
- Bundles, payment options and amounts are reduced to a price and a count.
  Inputs the validation refuses leave no trace and are left out.
- Audit rows are left out. They are awaited after the saves and before the
  event; a failing one suppresses the event, which is the same as `SaveFails`
  on the last save.
- Rows are saved by id: no save of the model can miss its row, nothing in the
  code deletes one.
- The frontend calls `confirmPurchase` with the id it was given; callbacks may
  arrive as soon as the session row is there.

### Runs

Bounds: `MaxSessions` (attempts to pay), `MaxNotices` (positive notices per
transaction), `MaxFaults`, and the number of requests in flight together.

`payments` (1 742 000 distinct states) plays three scenarios:

| Scenario | What happens | Checked |
|---|---|---|
| `together` | two requests about one account interleave at every await, payment is retried, provider and PCRF fail; a purchase of two bundles, two sessions, two notices | `TypeOK`, `ProvisionedIsFulfilled`, `TotalsNeverOverstated`, `PaidFor`, `SavesAreBacked` |
| `failing` | the same with timers, PRN callbacks without a status, and one failed database call or a crash anywhere | the same |
| `turns` | two accounts, a purchase each; requests about one account wait for one another; staff change the status | the same, `RowsTrueInTurns` and `ImplementsLedger` |

`PaidFor`: every subscription has a positive notice of its own, and what was
charged covers the bundles. `RowsTrueInTurns`: a transaction whose receipt went
out stays provisioned, the totals are those of what was provisioned, and the
account keeps the status staff gave it. `PurchaseLedger` says that a purchase is
delivered at most once, only after a notice, and for good.

`payments_simulated` (156 000): one session, the timers and all requests beside
them, nothing refused: `RequestsEnd` and `SimulationDelivers` under fairness.

`idempotence`: `ProvisionedOnce` when two notices are handled together:
violated.

Why the bounds are enough. Each hazard is between two requests, so two in flight
reach it; a third finds the same stale copies. Two sessions give a retry and a
late notice for the first attempt, two notices a duplicate, one fault every place
where a failure leaves some saves done. Four of the invariants are proved for
all values (section 11).

### Fairness

`Fairness` has weak fairness of every request's next answer: database and HTTP
calls return, are refused or time out, so no request waits for ever. Timers
have strong fairness as a group, because a timer that is due runs whatever
requests are in flight; that it may find no free slot is a bound of the model.
Arrivals, failures and crashes have none.

### Findings and observations

- `idempotence`: two confirmed notices handled together both read `pending` and
  both call the PCRF; `src/frontend/docs/openapi.yaml:734` promises that the
  callback provisions "idempotently". Callback and simulation timer, or callback
  and confirmation by the browser, are the likely pair.
- `InactiveCannotBuy` is not kept: `customers.save` in `finalizeConfirmedPurchase`
  writes the status read before the PCRF call, and an account deactivated in
  between buys again.
- `ReceiptsForProvisioned` is not kept: a failure notice that read its entities
  before a confirmation was saved puts FAILED over PROVISIONED, and the receipt
  goes out afterwards.

Behaviour for which the repository states no rule: `retryPurchase` opens the
session for one bundle at the amount of the whole transaction
(`bulk-data-payments.service.ts:159`); a transaction whose session insert or
initiation failed stays `pending` and cannot be retried, since only failed ones
are; a PCRF call that timed out after taking effect is repeated by the next
notice; the balance is overwritten, not increased.

## 4. NumberRegistry

### State

| Variable | Code |
|---|---|
| `customer` | an account row: `primaryMsisdns`, `secondaryCount`, `apnId`; `known` is FALSE until the insert |
| `member` | the row of a number in `bulk_data_secondary_numbers`. Its id is `slugId('sec', msisdn)`, so there is one row per number, reused by whoever adds the number next |
| `balance` | the row of a number in `bulk_data_balances`: none, zeros, or a bundle |
| `request` | a request in flight: the step it awaits, the customer and secondary-number entities it holds, and between the two steps of a save the columns found `dirty` |
| `verified`, `unlinked`, `held`, `interrupted` | history that guards nothing: what the APN provider and the PCRF confirmed, what callers were told, accounts a request left half saved |

### Actions

- Requests begin with `requireCustomer`: `RegisterCustomer`, `AddPrimaryMsisdn`,
  `AddSecondaryNumbers` (one number or a bulk upload), `RemoveSecondaryNumber`,
  `UpdateCustomer`, `GetBalance` (also `getSecondaryUsage`), `PurchaseDelivered`
  (`updateBalanceAfterPurchase`), `OtherChange` (`changeCustomerStatus` and the
  customer save of a purchase: the columns they change are in `Payments`).
- A number passes `ReadOwner` (`findPrimaryOwner`), `ReadMember`
  (`findActiveByMsisdn`), then `ApnMatches` or `ApnDiffers`; `Refused` is what
  each request does with a refusal: skip (upload), go on without (registration),
  end (others). `AfterNumber` is the loop of the upload.
- A change of APN verifies the primary numbers again: `ReverifyPrimary`,
  `ReverifyRefused`. A removal: `ReadRow`, `Unlinked`, then the saves.
- Saves: `SelectMember`, `WriteMember`, `SelectCustomer`, `WriteCustomer`; the
  balance: `ReadBalance`, `CreateZeroBalance`, `DeliverBundle`.
- `CallFails`, `RequestFails`, `Crash`: an exception ends the request (also a bulk
  upload half way), and what it saved stays.

`repository.save` of TypeORM selects the row by its id, compares it with the
entity, and inserts the row or updates the columns that differ; columns the
entity does not have are left alone. That is modelled as two steps (`Differing`,
`Merged`, `DuplicateKey`; external code). A registration builds its entity
without `secondaryCount`: over an existing row the save leaves the count as it
is; an insert returns the default into the entity, which the next save writes.

Left out: the order of an upload is any order; uploads with repeated numbers
behave like the second occurrence being refused; fields of the account that no
property is about; audit rows and events; the portal user and the activation
challenge, which `Activation` models after a registration. The call for the portal
user at the end of an update (`bulk-data-customers.service.ts:253`) is not modelled.

### Runs

`Owned` says who owns which primary numbers at the start. Bounds: `MaxUpload`,
`MaxCount`, `MaxFaults`. `registry` (1 272 000 distinct states) plays three
scenarios; the APN provider and the PCRF may fail in all of them:

| Scenario | What happens | Checked |
|---|---|---|
| `together` | two requests about one account write columns of the same rows by turns while the APN changes; one number to add, remove or make primary, two APNs | `TypeOK`, `RemovedAtPcrf`, `MembersVerified` |
| `turns` | two accounts compete for three numbers, uploads of two, all operations, no overlap about one account or number | the same, `AccountsTrueInTurns`, `BundleKeptInTurns`, `ImplementsBook` |
| `renamed` | no overlap; one account changes its APN and is registered again under its name, a database call fails or the process ends | the same, `AccountsTrueInTurns` |

A number and an account are all that two requests can share, so two requests, two
accounts and a number each plus one to compete for reach every conflict; two APNs
give a change; an upload of two has a first row to leave behind. All properties of
the run are proved for all values (section 11), which also covers what the run does
not reach: two first registrations that insert one id, of which the second fails on
the primary key.

`NumberBook` is the promise: a number is free, the primary number of one account
for good, or a secondary number of one account until that account gives it up.
It holds, like `CountExact` and `BundleKept`, while requests about one account or
number wait for each other — a rule for callers, which the code does not enforce.
`CountExact` leaves out accounts in `interrupted`: nothing repairs the count after
a request that saved a row and failed before the account.

### Observed

- `OneFamily` is not kept when requests overlap: between the look-up and the save
  there is the APN call, and the save rewrites whatever row has the number's id.
  Both accounts are told that they have the number;
  `src/frontend/docs/api-business-rules-validation.md:77` says active duplicates
  are rejected.
- `RowsReported` is not kept: an exception in the middle of an upload leaves rows
  active that no report names; line 76 of the same page promises the lists.

Without a rule in the repository: a business registered
under a name that gives the id of another (`slugId('cus', businessName)`) takes
over that row and empties its list of primary numbers, whose secondary numbers
stay; registration looks up the registration number and the TIN only.

## 5. UserSessions

`users/services/user-session.service.ts`, and its callers in
`auth/services/core/auth.service.ts`, for one user.

| Variable | Code |
|---|---|
| `row`, `expired` | `user_sessions`: `isActive`, `expiresAt` |
| `copy` | `session:id:*`, the copy of one row |
| `listed` | `session:user:*:active`, the cached list |
| `marker` | `session:revoked:*` |
| `request` | requests in flight: which part of the operation, at which `await`, with which session and list |
| `held`, `revoked`, `refused` | history: tokens handed out, revocations answered, refreshes refused although the session lives |

A login is `createAuthenticatedSession`: list, revoke the surplus one by one,
create, rotate the token. Each of those is a chain of steps (`GetList`,
`FindActive`, `SetList`, ...), and logout, `DELETE /sessions/:id`, "log out
everywhere" and refresh reuse them. `select` and `update` are the two queries of
TypeORM's `save`, which writes the columns in which the entity differs from the
row. `touchSession`, `revokeOtherSessions` and `cleanupExpiredSessions` have no
callers and are left out.

`sessions` (872 000 distinct states):

| Scenario | What happens | Checked |
|---|---|---|
| `turns` | three sessions, limit two, one request at a time | all of `CachesSafe`, `RevokedStaysForReaders`, `ImplementsLiveSessions`, `ListConverges` |
| `readers` | lists and refreshes beside one request that writes; two sessions, or one and a fault | all but what is said of turns |
| `together` | everything interleaves about one session, one fault | `TypeOK`, `ListConverges` |

`StaleListIsMarkedForReaders` is the subtle one: the list can be cached *after* the
revocation deleted it, from rows read before, and then only the marker keeps
it from being believed. `ListConverges` says that such a list does not last; it
needs weak fairness of the list's time to live and of every started request.
`LiveSessions` knows only sessions that begin and end. Two sessions give a list
that is neither empty nor full; a third in turns gives a surplus of one beside
one that stays.

### Findings and observations

- `sessions_refresh`: **no refresh token is ever accepted.** The column
  `refreshTokenHash` is declared `select: false`
  (`user-session.entity.ts:34`), the list is loaded without it, and
  `validateRefreshToken` gives `undefined` to bcrypt
  (`user-session.service.ts:87`), which rejects. `POST /auth/refresh`
  (`auth.controller.ts:154`) fails for the holder of a live session. No test
  covers it.
- A "log out everywhere" beside a login: the login's rotation saves an entity read
  before, which sets `isActive` again, and deletes the marker
  (`user-session.service.ts:133`); the controller promises "Revokes all active
  sessions" (`user-session.controller.ts:72`). Thus `...ForReaders`.
- Two logins at once exceed the limit of sessions (`auth.service.ts:1749`), which
  the policy announces as a maximum (`auth-policy.service.ts:704`).
- `CopiesLastTenMinutes` is not kept: `cacheSession` passes the session's remaining
  life (`user-session.service.ts:303`), not the ten minutes of the constant
  (`:16`).

## 6. LoginLockout

Wrong passwords, locks and their ends, for one account:
`users/services/user.service.ts` (counting, lock, unlock, suspend, activate,
update), `auth/services/security/login-attempt.service.ts`,
`account-lock.service.ts`, `ensureUserCanLogin` and the failure path of
`auth.service.ts`, and the jobs that unlock expired and lock dormant accounts.

| Variable | Code |
|---|---|
| `row` | `users`: `status`, `isLocked`, `lockedUntil`, `failedLoginAttempts` |
| `cache` | `user:id:*`, the copy that `requireById` prefers to the row |
| `lockKey`, `attempts`, `failed` | the lock key and the two counters in Redis |
| `now` | half hours, the length of locks and counters |
| `request` | each with a *plan*: the steps it has yet to take |
| `misses`, `standing`, `barred`, `intruder` | history |

One action begins any operation (`Begin`, with the steps of `Plan`), and each step
is an action. `repository.save` is one step here.

`lockout` (434 000 distinct states):

| Scenario | What happens | Checked |
|---|---|---|
| `turns` | all ten operations, one at a time; a lock by staff may fail half-way | `SuspendedStaysOutInTurns`; until then `CopyTrueInTurns` |
| `careless` | wrong passwords and edits interleave with one another and with a lock by staff; then, alone, a failing call | `MissesBlockUnlessLifted`, `LockHoldsWithoutJob` |
| `job` | the unlock job beside wrong passwords and edits | `MissesBlockUnlessLifted`, `LockEnds` |

`MissesBlock` is what the design is for: the row is overwritten by stale copies,
but the counter and the key in Redis make up for it. `LockEnds` needs weak
fairness of started requests, strong fairness of the job (it is started every
minute, and its turn is the model's guard) and of half hours, and is stated for
behaviours with moments in which nothing is under way, since in the model time
passes only then. Threshold two and block three are below and above each other
as five and ten are in the code; two half hours let a lock end and a new one begin.

### Observed

`AccountUnlockJob` of `security/jobs` is in no module's providers; the job that
runs is `unlock-accounts.job.ts`.

- `recordSuccessfulLogin` clears the lock, but not the status
  (`user.service.ts:1116`): a right password in flight while staff lock the
  account leaves `status = 'locked'` without `lockedUntil`, and the job, which
  asks for a time that is over, never unlocks it.
- A suspension is undone by a wrong password in flight, whose entity is older
  (`user.service.ts:1073`); `src/frontend/docs/api-business-rules-validation.md:69`
  wants the sign-in of deactivated accounts blocked.
- A suspended user who is locked on top becomes active when the lock ends:
  `unlockUser` makes every locked user active (`user.service.ts:1140`).
- The job that found an expired lock lifts a lock that staff renewed in between
  (`user.service.ts:1179`), therefore `LockHolds` without the job only.

## 7. Activation

`auth/services/core/activation.service.ts`, registration and status change
of `bulk-data-customers.service.ts`, and the parts of `user.service.ts` they call,
for customers with one contact address, hence one portal user. Nothing in the code
keeps an address to one customer. What needs that says so in its premise: `Sole`,
a predicate on the rows, is true as long as at most one customer was registered.

| Variable | Code |
|---|---|
| `customer` | `bulk_data_customers`: status, and the totals (one number) |
| `user` | the portal's user: status, verified e-mail and phone, whether a password is set |
| `rows` | `auth_challenges`: link, OTP or setup token, with its link |
| `request` | the plan of each request, its copies of user and customer |
| `bought`, `answered`, `again`, `setups`, `passwords`, `closed` | history |

`Redeem` is any of the four endpoints that take a token, `Find` its look-up,
`Use` and `UseParent` the saves that spend it. The user's copy in Redis is left to
`LoginLockout`. `Purchase` is the save of totals at the end of a purchase, which
`Payments` models in full.

`activation` (621 000 distinct states):

| Scenario | What happens | Checked |
|---|---|---|
| `staff` | the chain in turns with status changes and a purchase | `RowsSafe` in full, `OneSetupPerOtpInTurns` |
| `failing` | the chain in turns, one failing call, one challenge expires | `OneSetupPerOtpInTurns`, `NotStrandedInChain`, `ArtifactsGo` |
| `tokens` | requests with tokens overlap | `SpentStaysSpent`, `TotalsKept` |
| `purchases` | a purchase overlaps OTPs and `activateAccount` | the same |

`SpentStaysSpent` holds although a request in flight inserts again a row that the
hourly job deleted: it inserts it as used. `NotStranded`: the tokens are spent
last, so whoever fails half-way still has one. The run has one customer; for any
number of them the premise `Sole` is needed in `StatusesAgreeInTurns`,
`ClosedStaysInTurns` and `NotStrandedInChain`, and section 11 proves them with it.
`TotalsKept`, `SpentStaysSpent` and `OneSetupPerOtpInTurns` need none. Four challenges are a link, its
OTP and setup token and one more. `ArtifactsGo` assumes weak fairness of
requests and of the job, which a cron expression starts.

### Observed

- `FirstPasswordOnly` is not kept: two requests with one setup token both set a
  password, and so does a new OTP for a link that was not used
  (`activation.service.ts:304`; `auth.controller.ts:408` says *first password*).
- `ReactivatedByStaff` is not kept: a customer whom staff deactivated before he
  finished makes himself active by setting the password
  (`activation.service.ts:468`).
- `activateLinkedCustomer` looks for a customer by the user's contact address and
  takes any (`:463`), so with two customers of one address the other may become
  active: the one who followed his link stays `pending` with every token spent, and
  the user's status is that of whichever customer staff changed last.
- A status change that overlaps an activation, or another status change, leaves
  customer and user in disagreement (`bulk-data-customers.service.ts:288`).
- `activateAccount` makes the user active and leaves the customer `pending`
  (`activation.service.ts:285`); `auth.controller.ts:386` documents it as the
  activation of the account.

## 8. RecoveryCodes

`mfa-recovery-codes.service.ts`, for one user.

| Variable | Code |
|---|---|
| `batch`, `used` | `mfa_recovery_code_batches` and `mfa_recovery_codes` |
| `begun` | transactions begun; `now()` orders the batches |
| `attempts`, `expiring`, `locked` | the two keys in Redis, and whether the first has its expiry |
| `request` | phase, batch, code, copy of the row, columns its save will write |
| `accepted`, `revoked`, `guesses` | history |

The transaction of `generateForUser` runs at READ COMMITTED: its UPDATE matches the
rows of its snapshot (`Match`), waits for the locks of other transactions and
re-checks (`Lock`), and the insert becomes visible with the rest (`Commit`). That is
what PostgreSQL does; the service only says `transaction`. The other operations
have none.

`recovery` (629 000 distinct states; three codes, two failures to the lock):
`turns`, in which a call may fail, and `together`, in which everything interleaves
about one batch. `NotClosedEarly` and `GuessesBounded` hold in both: a batch is
not closed while a code is left, and requests let in together can fail only once
more each. In turns `CodeOnce`, `OneActiveBatch`, `RevokedStaysRevoked` and
`StatusHonest` hold, and `LedgerKept`: `CodeLedger` says that no code becomes
valid again. Three codes are enough for a first, a last and one in between.

### Observed

- One code is accepted twice if two logins present it together
  (`mfa-recovery-codes.service.ts:163`; the controller says at line 63 that each
  can be used once): neither the look-up nor the save takes a lock.
- Two generations together leave two active batches (`:50`); the comment at line 42
  says that any previous one is revoked.
- An acknowledgement that read the batch before a revocation makes it active again
  (`:128`), and so does a verification.

`disableTotp` calls `updateMfaState(userId, true, true)`, so the account goes on to
require a second factor; it is noted here because nothing else models TOTP.

## 9. Passkeys

`webauthn-registration.service.ts`, `webauthn-authentication.service.ts` and
`webauthn-mfa.provider.ts`, for one user.

| Variable | Code |
|---|---|
| `cred` | `webauthn_credentials`: `isEnabled`, and the signature counter |
| `factor` | rows of `user_auth_factors`; nothing makes them unique |
| `pending`, `open` | the challenges in Redis of a registration and of logins |
| `row` | `auth_challenges` of second factors |
| `issued` | challenges so far |
| `device`, `signed` | authenticators and browsers, which may present an assertion late and more than once |
| `registered`, `accepted`, `passed`, `revoked` | history |

`passkeys` (1 322 000 distinct states; two passkeys, one of which counts
signatures):

| Scenario | What happens | Checked |
|---|---|---|
| `turns` | one passkey registered, all operations one at a time, a call may fail | `KeysSafe` in full, `CounterGrowsInTurns`, `ImplementsKeyRing` |
| `logins` | both registered; logins and revocations interleave | `RegisteredOnce`, the factor goes with the last passkey |
| `settings` | registrations and revocations interleave | `RegisteredOnce`, a revoked passkey stays revoked |

`AcceptedOnceInTurns` is about passkeys that do not count, where only the deleted
challenge makes a signature useless. `KeyRing`: only a live passkey opens a
challenge, once, and a dead one stays dead.

### Observed

- A login that read the passkey before its revocation writes `isEnabled` back if it
  compares after it (`webauthn-authentication.service.ts:188`).
- A registration beside the revocation of the last passkey may leave a factor that
  is off beside a passkey, or on without one.
- Two registrations together insert two factor rows; `findOne` names no order.
- The comment in `webauthn-mfa.provider.ts:165` describes a challenge attached to
  the row of the second factor. `finishAuthentication` gets the assertion only, so
  any open challenge of the user, with any open row, completes the login. The model
  has the two independent, as the code does.

## 10. Delivery and QuietHours

`notifications/`: `notifications.service.ts`, `notification-dispatcher.service.ts`,
`notification.processor.ts` and the channels, for one user. `Delivery` asks whether
and how often a notification arrives, `QuietHours` when.

| Variable of `Delivery` | Code |
|---|---|
| `note`, `recipient`, `delivery` | the three tables |
| `job` | BullMQ: waiting, active, attempts made, times taken for dead |
| `unread`, `badge` | `notifications:unread:*`, and what the browsers were last sent |
| `worker`, `caller` | processes that take jobs, requests |
| `sent` | history: what provider or browser accepted |

`email` stands for e-mail and SMS, which write FAILED and throw when the provider
does not take the message: their job is tried again. `push` does this only for an
error of the call itself. When the call returns and no device took the message
(`Refuse`), `push-channel.service.ts:148` writes FAILED and *returns*, and the job
completes; if every token was invalid the devices are deactivated first
(`Deactivate`), and the user has no address for the channel from then on. `in_app` is
the list. dispatch takes the channels in the order of the request, which is any
(`NextChannel`); which of them a user gets is a choice (`Muted`, `Unreachable`).
BullMQ is external and modelled by what the processor uses of it: three attempts,
and a job whose worker stalls is handed out once more while the first worker may
still be running.

`delivery` (432 000 distinct states): `turns` (one request or job at a time, `email`
and `push` not in one notification; `UnreadExactInTurns`), `browsing` (requests, one
worker and browsers interleave about the list; `ReadStaysReadUnlessRetried`),
`failing` (one notification, two workers, calls fail and jobs are taken for dead;
`SentInTheEnd`). `SendsBounded`, `QueuedMeansDispatched` and `InboxKept` hold in all.
`SentInTheEnd` assumes weak fairness of workers only; two failures and one stall are
what three attempts outlast. Its exception (`Refused`) is a push that no device took.

In `QuietHours` a notification is dispatched with the minutes until its `scheduledAt`
(`Schedules`; 0 when it has none, and a time that has passed counts as now,
`EffectiveAt`). `Delay` puts an urgent one off to that time, and any other to the
first minute from then on that is not quiet on the user's clock, which may be days
ahead. The job remembers both, the time it is scheduled for (`ahead`) and the time
the queue may take it (`wait`).

`quiet_hours` (394 000): a day of six minutes, notifications without a schedule,
with one that has passed, one of this day and one more than two days ahead; `steady`
tries every window for one notification, `moving` has two of them, lets preferences
and clock change, attempts fail and the queue be late. `DeferredToTheEnd` compares
the code's arithmetic with a reference definition of "quiet"; `NotWoken` is about the
moment of sending. `NotPutOffForEver` assumes weak fairness of the clock and of the
queue.

### Observed

- A push that fails for every device is not tried again, whatever the error of the
  devices was (`push-channel.service.ts:148`), although its job has attempts left
  (`notification-dispatcher.service.ts:72`).
- `SentOnce` is not kept: the e-mail channel sends and then writes SENT; a failure
  between the two sends again, although the processor skips what is *already sent*
  (`notification.processor.ts:63`).
- A retried job of the in-application channel writes DELIVERED over READ
  (`inapp-channel.service.ts:41`).
- The unread count includes notifications the list does not show: it does not ask
  whether they were delivered (`:64`, against `GET /notifications/unread-count`,
  `notifications.controller.ts:44`), which differs for good when the user
  switched that channel off.
- `markAllRead` publishes zero without counting (`notifications.service.ts:184`); a
  notification that arrived meanwhile is forgotten until the next count.
- A retry may fall into quiet hours that began since
  (`notification-dispatcher.service.ts:73`), and so may a job whose user changed
  preferences or whose clock changed (`notification-preference.service.ts:94`). The test
  at `notification-preference.service.spec.ts:79` *defers non-critical
  notifications until quiet hours end*.

## 11. Proofs

A theorem about `Spec` holds whatever overlaps. A theorem about `MCSpec` is about
the scenarios of the run, without the numbers the run gives them: any sets of
requests, rows and bounds. Its invariant is a conjunction of implications, one for
each scenario, and the heart of the one for `turns` is always the same: *the one
request in flight knows the rows as they are*. It is an invariant and not an
assumption. That only one is in flight follows from the cardinality which the
scenario bounds, which is why the sets of requests are assumed to be finite.

`PaymentsProofs` proves, for any sets of accounts, transactions and requests, any
price and bounds, whatever overlaps, is refused, fails or crashes, from
`ConstantsOK` only:

- `TypeCorrect`: `Spec => []TypeOK`;
- `NothingClaimedUnprovisioned`: `Spec => []ProvisionedIsFulfilled`;
- `NothingCountedTwice`: `Spec => []TotalsNeverOverstated`;
- `CopiesAreSafe`: `Spec => []SavesAreBacked`;
- `BundlesArePaidFor`: `Spec => []PaidFor`;
- `RowsAreTrue`: `MCSpec => []RowsTrueInTurns`;
- `PaymentsImplementLedger`: `MCSpec => ImplementsLedger`, the refinement of
  `PurchaseLedger`.

The argument. The invariants speak of rows, but a row is overwritten by a copy
that a request read long before. They are therefore not inductive alone; `IInv`
adds what every copy in flight satisfies:

- `RowsLinked`: a session row belongs to a transaction; timers and receipts are
  about existing sessions. Otherwise `fulfilled[session[s].txn]` means nothing.
- `RequestsLinked`: a request's session is one of its transaction, its account
  the transaction's, and it saves only in its last phase. This ties what is
  written to what was acknowledged.
- `SavesAreBacked`: a copy that says `provisioned` or `confirmed` belongs to a
  transaction the PCRF acknowledged, or its owner still waits for the PCRF; a
  copy of the totals is at most what was provisioned — counting, while the
  request waits, the session it is about. It stays true while others act,
  because `units`, `spent` and `fulfilled` only grow and sessions keep their
  transaction, count and amount. This is the lemma `Frame`.

`RequestStep` reduces the actions that change one request only, and `RowStep` the
others, to what the changed record must satisfy; one lemma per action follows,
then `NextIInv`, `SpecIInv` and the theorems.

`PaidFor` needs an account of notices: a confirmed notice may be worked on by its
own request while others of the same payment are too. `EachNoticeOnce` says that
the subscriptions of a transaction and the requests that still owe it one
(`Owing`, a cardinality) are together at most the notices that came. For the
amounts, `RowsPriced` and `Priced` say that rows and the copies from which a
session is inserted cost what their bundles cost, and `OneInserts`, that one
request inserts a transaction, so that no other has seen it cheaper.

`TurnInv` holds where requests about one account wait for one another; other
accounts go on meanwhile (`OthersKept`, `KnowsStays`). `KnowsRows` is what the one
request about an account knows, `ExactUnlessSaving` that totals are exact or about
to be saved by it, `FulfilledIsCommitted` that what the PCRF acknowledged is in the
row or in that save. The last is where the ledger takes its step: a transaction is
`provisioned` in `PurchaseLedger` from the acknowledgement on (`Stage`,
`StageFor`), not from the save. `LedgerIs` says a step of the ledger in terms of
the rows; one lemma per action then names the step it takes, or that it takes none.

`RegistryProofs` proves, for any accounts, numbers, APNs and requests, for every
choice of primary numbers, whatever overlaps, is refused, fails or crashes, from
`RegistryConstants` only:

- `RegistryTypeCorrect`: `Spec => []TypeOK`;
- `RemovalsAcknowledged`: `Spec => []RemovedAtPcrf`;
- `MembersAreVerified`: `Spec => []MembersVerified`.

The argument. A row of a secondary number is put together from columns of several
entities: one request writes `status`, another `apn`, whichever they found
different when they selected. `IInv` therefore says of every entity in flight
what the invariants say of rows (`Savable`), and of every save between its two
steps that the columns it found different are enough (`Complete`): when the row
was not there, all columns that matter are among them; when it was, it still is.
`RowsWhole` is the counterpart for rows that are not there. `MergedMember` and
`DifferingMember` say what the two steps of `save` do to the columns of interest;
`MemberWritten` puts them together. `Frame` lets other requests keep what they
hold, since rows are never deleted and what was acknowledged stays so.

While requests about an account or a number wait for one another, it also proves

- `AccountsAreTrueInTurns`: `MCSpec => []AccountsTrueInTurns`;
- `BundlesAreKeptInTurns`: `MCSpec => BundleKeptInTurns`;
- `RegistryImplementsBook`: `MCSpec => ImplementsBook`, the refinement of
  `NumberBook`.

The argument. `TurnInv` says that requests in flight are about different accounts
and numbers (`Apart`, which follows from what the scenarios let arrive) and what
the one request about an account knows (`Informed`): how its count and the row's
relate to the number of active rows at each step (`Counting`, `Balances`, where an
upload is ahead by the rows it has saved and not counted, a removal behind by one),
whether its number is free or its own (`Handling`), that the columns its save found
different still are (`Compared`), and that its primary numbers were verified for
the APN it will write (`Vouched`). A fault between the two saves puts the account
into `interrupted`, of which the invariant then says nothing: no request sets the
count right again.

`BookInv` is for the scenario `turns`, in which only providers fail and no account
is registered again. `Placed`: a number is primary in one account at most, or
secondary, and only a primary number has a balance. `Placing`: what a request that
is past its look-ups found free is still free, and a row of zeros is saved only
where there was no row. `NextBook` has one case per step and says which of
`Claims`, `Joins` and `Leaves` the step is; the refinement and `BundleKeptInTurns`
both follow from it. In the scenario `renamed` neither is kept, as *Observed* in
section 4 tells.

`LockoutProofs` proves, for any finite set of requests, any threshold, block, times and
failures, whichever operations may overlap, from `LockoutConstants` only:

- `LockoutTypeCorrect`: `Spec => []TypeOK`;
- `ScenariosSound`: `MCSpec => [](IInv /\ ScenarioInv)`, the inductive invariant;
- `AccountIsSafe`: `MCSpec => []AccountSafe`;
- `WrongPasswordsBlock`: `MCSpec => []MissesBlockUnlessLifted`;
- `LocksHold`: `MCSpec => []LockHoldsWithoutJob`.

The argument. What a request will do is a plan that grows while it runs: `Penalty` puts
further steps in front, a key found in Redis cuts it short. So the invariant is not
about positions but about which steps are still ahead (`Has`), and `Ordered` keeps
what every plan has in common: after a save comes an invalidation, an entity is
kept just after it was found, the steps that decide stand at the end. `Sound` is
that for a request, and whose steps they are; one lemma per step proves it.

`TurnInv` is about the scenario `turns`. `Knows` says that a suspension past its save
left the row suspended, past its invalidation the copy too, and that a login that
saw the account barred has a suspended entity to answer with. `Barred` is why the
account stays shut: row, copy and the one request in flight agree that it is
suspended, whatever that request saves. The copy is the row or about to be dropped,
until a call fails.

`CrowdInv` is about the other two scenarios, where entities are stale and rows are
overwritten, and the promise rests on Redis. While the key is absent (`Open`) no lock
stands, and the wrong passwords counted, with those on their way to be answered
without a lock (`Lenient`, a cardinality), are no more than the counter shows and
fewer than `Threshold`. Whoever brings them to `Threshold` is past its count and has
to set the key before it answers, and staff who lock set it before they are done.
`Careful` says that nobody but the job has a step that takes key or counter away,
and the job finds nothing before half an hour is over; `Plain`, that whoever is
marked as locked in a row or a copy has the status, too. Both theorems are about one
half hour: in `careless` time stands, and in `job` no password is tried and no lock is
set after the first (`Early`).

`DeliveryProofs` also extends `QuietHours`, whose names therefore differ from those of
`Delivery`, and proves for a day of any length, any set of windows, zones and
schedules and any notifications, from `QuietHoursConstants` only:

- `HoursTypeCorrect`: `HoursSpec => []HoursTypeOK`;
- `DeferralCorrect`: `HoursSpec => []DeferredToTheEnd`;
- `NobodyIsWoken`: `HoursSpec => NotWoken`.

The argument. `QuietIsWithin` equates the code's comparison of minutes with the
reference definition by distance on the dial; `UntilEndIsLeast` and
`DelayEndsQuiet` show that the code's delay is the least, from the time a notification
is scheduled for on, after which it is not quiet. `QuietInv` says so of every
notification that waits undisturbed: `EndComesNearer` is the step of the clock, after which the delay is one less and
the end one nearer, and the rest of the day is unchanged (`LocalIn`). A
notification leaves the claim for good (`disturbed`) when its attempt fails, when
the queue is late, or when preferences or clock change while it waits: the code
does not compute its delay again.

`ActivationProofs` proves, for any customers, requests and bounds, whichever
operations overlap, fail half-way or meet the hourly job, from
`ActivationConstants` only:

- `ActivationTypeCorrect`: `Spec => []TypeOK`, which is hard because `rows[r.id]`
  must exist whenever a step reads it;
- `SpentChallengesStaySpent`: `Spec => []SpentStaysSpent`;
- `OneSetupEach`: `MCSpec => []OneSetupPerOtpInTurns`;
- `PurchasesAreKept`: `MCSpec => []TotalsKept`;
- `NobodyStranded`: `MCSpec => []NotStrandedInChain`;
- `RowsAreSafe`: `MCSpec => []RowsSafe`.

The argument. `Planned` says that a request goes by the steps of its operation
(`Steps`), about a challenge that exists or a customer; `RowsLinked`, that OTPs and
setup tokens belong to an earlier link. `AnsweredIsUsed` is the heart: whatever an
answered request redeemed is used. No step takes that back: rows are created
unused, `Use` writes `isUsed` also when it inserts a deleted row again
(`IsSpent`), and expiry and the job leave the column alone (`RowsOnly`). So a request
that began after the answer (`late`) finds its challenge used. `RequestOnly`
covers the steps that touch no challenge, `Creates` those that make one.

The scenarios need to know *where* in its plan a request is: `Ordered` says which
plans an operation may have left (`Plans`), and one lemma per action
(`FindMoves`, `SaveUserMoves`, ...) which step comes next. `OneEach` is then short:
an OTP that is marked makes at most one token more, by the request past its mark.
`TotalsInv` holds in every scenario: whoever holds a copy of a customer that he will
save holds its true totals (`Copied`), because two requests whose copies could
clash are never in flight together (`Clash`). `TokensLast` says that while a
customer waits nothing but OTPs is marked, or about to be.

`Agreeing` is about the two rows, customer and user, of which every request
writes one first. `Settled` says what the request whose turn it is (`Turn`) has
still to write, so that they agree when it ends. `Closing` is about an account that
was closed: there is one link, every challenge leads to it, and it is used once a
password is set (`Rooted`); nothing that could open the account is open, and
nothing in flight will look at a token and find it so (`Locked`).
The last two theorems assume nothing of the set of customers: `Sole` is a premise
of the properties, about the state. Their invariants are about a customer `c` as
long as nobody else was registered (`OnlyKnown(c)`). That was so before the step if
it is so after it, since a row that exists never goes (`KnownBefore`), and it makes
`c` the customer whom `activateLinkedCustomer` finds. Registrations of others may
be in flight until they save their row, which ends the premise.

`DeliveryProofs` proves, for any notifications, channels, requests and workers,
whichever calls fail and whichever jobs are taken for dead, from
`DeliveryConstants` only:

- `DeliveryTypeCorrect`: `Spec => []TypeOK`;
- `SendsAreBounded`: `Spec => []SendsBounded`;
- `ListImplementsInbox`: `Spec => InboxKept`, the refinement of `Inbox`;
- `DeliveryIsSafe`: `MCSpec => []DeliverySafe`;
- `UnreadIsExact`: `MCSpec => []UnreadExactInTurns`.

The argument. The number of messages is bounded by the number of attempts, but a
job taken for dead begins again while the worker that had it may still send.
`SendsCovered` therefore adds the workers that have a message and have not sent it
(`ToSend`), late ones included, to the messages sent, and bounds both by the
attempts begun. `JobsWithin` keeps those within `Attempts` and `MaxStalledCount`:
an attempt begins only while some are left. `OwnersAlone` says that one worker owns
a job, so a job that ends or is thrown back counts once. For the list, `Untouched`,
`Creators` and `CreatorsAlone` say that a recipient is saved once, before there is
a job for it, by the one request that creates the notification; `FoundVisible`, that
a request is about to mark only what is in the list. One lemma per action follows;
`WorkerBox` and `CallerBox` map each step to a step of `Inbox` or a stutter.

`QueuedMeansDispatched` needs no scenario: a request about to save `queued` added a
job to every channel before (`FinishersDispatched`), and no job is ever removed.
Where nothing fails, a job of the list is tried once, by the worker that owns it,
before the notification is in the list (`FirstTries`, `OnTime`): hence its saves
cannot take back what was read (`CalmInv`).

The number of unread notifications is *wrong* for a while even in turns: the count
a worker makes does not ask what has arrived, and includes notifications whose job
still waits. `PendingWaits` says that there are no others it could include, and
`Settles`, that the number is exact or will be counted again by the job that waits;
so it is exact when none does. `Turn` says what the worker or the request whose turn
it is has counted, and `WorkerAlone`, `CallerAlone` that there is no other.

The proofs assume what the run's constants satisfy: `Callers` is finite, no worker
is a caller, and `in_app` is never among the channels without a provider, since
`InAppChannelService.isAvailable` is the constant `true`.

`RecoveryProofs` proves, for any finite set of requests and any number of codes,
batches, attempts and failures, whichever operations overlap, from
`RecoveryConstants` only:

- `RecoveryTypeCorrect`: `Spec => []TypeOK`;
- `NoBatchClosesEarly`: `Spec => []NotClosedEarly`;
- `GuessesAreBounded`: `Spec => []GuessesBounded`;
- `BatchesAreSafe`: `MCSpec => []BatchesSafe`, of which the last two are conjuncts;
- `CodesImplementLedger`: `MCSpec => LedgerKept`, the refinement of `CodeLedger`.

The argument. The number that closes a batch is one more than a copy of its row says, and the copy
may be old. It is never too large: `CopiesBacked` says that a copy counts no more
codes than are used and, while its request has a code still to use, no more than
are used besides that one, for it found the code unused. `CountUse` is the step in
which that code is used and counted. The lock has an argument of its own,
`FailuresCounted`: the failures that no request is about to count or to lock for
are fewer than `MaxAttempts`, so those beyond come from requests that were already
past `assertNotLocked`, at most one for each.

In turns, `InTurn` says what the request in flight knows: a new batch has a number
of its own, the transaction still sees the batches it is about to close
(`r.seen = Active`), a copy counts what is used until a call has failed, and a code
that is about to be used is not. So a save of a batch can close it and never open
it again, and `HonestRows` fails only between the use of a code and its count
(`Owing`). In `CodeLedger` the commit of `generateForUser` issues and withdraws, the
save of a code redeems, and a save that closes a batch is a stutter because no code
of it is left (`LedgerRests`).

`PasskeysProofs` proves, for any passkeys, any finite set of requests and any
bounds, whichever operations overlap or fail half-way, from `PasskeyConstants` only:

- `PasskeysTypeCorrect`: `Spec => []TypeOK`;
- `PasskeysRegisteredOnce`: `Spec => []RegisteredOnce`, a conjunct of `KeysSafe`;
- `KeysAreSafe`: `MCSpec => []KeysSafe`;
- `CountersGrow`: `MCSpec => CounterGrowsInTurns`, an action property;
- `PasskeysImplementKeyRing`: `MCSpec => ImplementsKeyRing`, the refinement of
  `KeyRing`.

The argument. The challenge in Redis does not make a registration unique: it is
deleted last and may be another's by then. The unique index does, as long as rows
stay. `InsertedAlone` says that one request is past the insert of a passkey;
`RegistrationsCounted`, that after its answer there is none; `Held`, that every save
in flight writes to a row that is there and none makes it absent.

`ScenarioInv` has an invariant for each pair of scenarios. Without overlapping
logins (`RevokeInv`), whoever saves a row that may be revoked is the revocation
itself, and what it leaves out of the update is written already (`SaveHeld`).
Without overlapping registrations (`FactorInv`), there is one row of the factor
(`OneRow`), and a factor that is on without a passkey is about to be switched off
by a revocation past its save (`SwitchedOff`), until a call has failed. In turns
(`TurnsInv`), a challenge that opened a login is gone from Redis before the answer
(`SpentGone`), and when deleting it fails there is no answer; a copy's counter is
not behind its row, so a save takes no counter back. `RingIs` says a step of
`KeyRing` in terms of the rows.

`SessionsProofs` proves, for any finite sets of sessions and requests, any limit and
bounds, from `SessionConstants` only:

- `SessionsTypeCorrect`: `Spec => []TypeOK`;
- `RevokedStays`: `MCSpec => []RevokedStaysForReaders`;
- `CachesAreSafe`: `MCSpec => []CachesSafe`;
- `SessionsImplementLiveSessions`: `MCSpec => ImplementsLiveSessions`, the refinement
  of `LiveSessions`.

The argument. `Formed` and `Grounded` say where in its operation a request is and
that what it names has a row; `Room`, that there are absent sessions for all logins
that come, a cardinality that each step keeps. Readers overlap one writer in the
second scenario: `Informed` is what the writer knows of the rows, and `RevokedMarked`
is why no reader's stale copy matters, for whatever was revoked is marked until
every copy of it has expired. In turns, `Agree` says that both caches hold what the
rows say but for what the request is about to drop, and `Current` that what it has
read is still so. The limit rests on `SurplusMakesRoom`: the sessions a login
revokes are those of the lowest ranks, and as many as it takes (an injection into
`1 .. Limit - 1` by rank); `Staying` counts what is left while it revokes them one
by one.

Every safety invariant and action property that a passing run checks is proved.
Liveness (`LockEnds` and its like) is model-checked only: it is out of this prover's
reach.

## 12. What is left

Worth modelling next: TOTP set-up with the pending secret in Redis, and service
requests with their conversion into customers.

## 13. Not modelled

| Part | Why |
|---|---|
| Bundles | create and update check and save one row that no other component writes |
| Service requests | one row, whose status is checked, changed and saved; its stale save is the mechanism `NumberRegistry` models |
| The portal user after an update | the call that `Activation` models as `PortalUser` after a registration, made once more by `updateCustomer` (`bulk-data-customers.service.ts:253`): it leaves an active user active and makes any other `pending`; with a new address, the user of the old one is deactivated (`:260`) |
| Seed data | count, then insert, for an empty database in development; two first requests both insert |
| Authentication policy | reads rules and keeps no state; the limit of sessions is a constant of `UserSessions` |
| Password reset, e-mail and phone verification | find, compare, mark as used, on tables of their own: the protocol of `Activation`. As in `sessions_refresh`, the hash is a `select: false` column that `find` does not load, so `compare` rejects and nothing is ever redeemed (`password-reset.service.ts:106`, `email-verification.service.ts:92`, `phone-verification.service.ts:100`) |
| TOTP, one-time passwords by e-mail and SMS | the second factors `RecoveryCodes` and `Passkeys` are of the same form; the algorithms belong to libraries |
| Active Directory and social login | outside services decide; nothing is kept |
| Creation and listing of users, device tokens, templates, socket rooms | rows replaced by one save, or views |
| Messages to and from PRN, SPTransfer, airtime, card, APN and PCRF | wire formats; their outcomes are actions |
| Audit and security events, reports, checkout, serializers, health, configuration, guards | append-only, or without state |
| Frontend | pages, and a demo data store that imitates the API |
