# Lab sessions, tokens, builds, logins and files of Ignito Experia

TLA+ models of the Node.js backend in `src/backend`, and of the two parts of the web
client in `src/vlab_admin` whose state meets it: the tokens a browser keeps and the
code editor. The backend gives a student a lab container, fills its workspace, bills
it against prepaid tokens by the minute and takes it away again. The modules are
translated from the code; TLC checks them on small instances and TLAPS proves the
safety properties for every value of the constants.

Contents: [the system](#1-the-system), [the plan](#2-the-plan),
[modules](#3-the-modules-and-the-code), [runs](#4-what-the-runs-check),
[proofs](#5-what-is-proved), [disagreements](#6-where-the-code-does-otherwise),
[limits](#7-abstractions-bounds-and-what-is-not-modelled).

## 1. The system

One Node process serves HTTP requests, runs timers, and talks to MySQL, AWS ECS, the
containers (HTTP, or SSM commands when that fails) and, optionally, Redis, DynamoDB,
an LMS and the Razorpay gateway. There is no queue between the parts. They interact
through rows of shared tables, a session document (DynamoDB, or an in-process map
hydrated from MySQL), direct calls without `await`
(`RuntimeStopService.processStop(...)`, the start of a bootstrap, the caching of a
loaded file), and timers started in `index.js:178-203`. JavaScript code is atomic
between awaits; MySQL transactions lock single rows with `FOR UPDATE`, and many reads
and writes are outside any transaction.

### Components

| component | state it keeps | operations | what makes it correct |
|---|---|---|---|
| Session endpoints `handlers/sessions.js` | what a request has read before its last await | start, get (poll), extend, stop, list | one active session; a session that is over stays over; an extension is paid once and honoured |
| Session rows and records `LabSessionRepository`, `sessionRepository` | `lab_sessions` row; session document | create, update (no condition on the old status), list expired | rows name every container that runs |
| Usage billing `UsageBillingService`, `UsageBillingWorker` | `BilledTokens`, `BilledSeconds`, `StartedAt` | `billSession` each minute, `finalizeSessionBilling` at a stop | no minute is charged twice, none outside metered time |
| Lab wallet and ledger `StudentLabTokenWalletRepository`, `...TransactionRepository` | purchased and consumed tokens; ledger rows with a unique key | lock, consume, credit | never overdrawn; the ledger explains the wallet |
| Credit wallet `CreditWalletService`, `CreditWalletRepository` | balance; transactions with unique idempotency keys | purchase, extension charge, deduct, refund, grant | each key counts once; the balance follows the lab wallet |
| Runtime stop `RuntimeStopService`, `RuntimeStopWorker` | none (rows in `STOPPING`) | `processStop`, stop cycle (15 s) | every `STOPPING` row drains and its container stops |
| Session expiry `SessionExpiryWorker` | the list being worked through | scan by `TokenExpiryAt`, one transaction per row | sessions end at the time paid for |
| Lab expiry `LabExpiryWorker` | its lists | expire overdue rows, sync rows with dead tasks (30 s) | containers of overdue rows are stopped |
| Session cleanup `sessionCleanup.js` | in-process records | drop overdue records (30 s) | same |
| ECS control `ecsService.js` | tasks in ECS | run, describe, stop | — |
| Orders and settlement `PaymentService`, `PaymentSettlementService`, `tokenOrders.js`, `razorpayPayment.js` | orders, payments | create, verify, webhook, settle | a payment is credited exactly once |
| Database pool `lib/mysql.js` and its users | free connections, waiters, the transaction on a connection | acquire, release | no connection is lost or in two hands; somebody always gets on |
| Refresh tokens and login sessions `AuthService`, `SessionService`, `handlers/auth.js` | tokens, sessions; in the browser a cookie, a shared storage and each tab's memory | sign-on, login, refresh, sign-out, revocation | a token opens one session; the cookie works; a tab recovers |
| Single sign-on `SsoService` | users, external identities | look up, insert, update, link | one student, one account |
| Workspace bootstrap `workspaceBootstrapService` | the document's bootstrap state; extraction tasks in the container | claim, attempt twice, time out, report | READY means populated; one bootstrap at a time; no work is overwritten; it settles |
| Android builds `AndroidBuildService`, `handlers/android.js` | `session.build`; in the container a lock directory, `build.status`, `latest_apk.path` | build, status, download; the wrapper script | builds do not overlap; results belong to the build they are shown for; a build settles |
| Files of a session `fileRepository`, `handlers/files.js` | three copies of a file: container, session record, server memory | list, load, save | what was acknowledged is kept and served |
| Program runs `runs.js`, `ExecuteCommand` | the program a test run puts in a file's place | run, restore | same |
| Code editor `Editor.tsx` | contents, dirty files, timer, loads and saves under way | load, type, save in four ways, run, switch | what was typed is saved |
| Container access, LMS, cache, audit, catalogue, owner dashboard, rest of the web client | see PROJECT.json | | I/O or single-record CRUD |

### What is hard here

* Handlers and workers write `Status` without looking at what the row holds, often
  by something read before an `await` on ECS that lasts seconds (`sessions.js:432`,
  `:457`, `:468`, `:668`; `LabExpiryWorker.js:26`). The session document is read,
  changed and written back whole in the same way (`sessions.js:452`,
  `fileRepository.js:602`).
* `StartedAt` can be stamped again by a poll (`sessions.js:436`) or by the
  40-second promotion in `billSession` after minutes were billed: the counters
  survive, the clock does not, so the unbilled minutes turn negative and
  `billSession` lowers `BilledTokens` again. Two rounding rules meet: whole minutes
  in the cycles, 30-second rounding at the end.
* Sessions of one student share a wallet; a wallet row is locked only after the
  session row, and transactions that hold one connection wait for another.
* A restart loses records, lists, jobs and requests; only rows remain, and what was
  started in a container goes on: an extraction, a build, a test run.
* Locks are made by hand: the state of a document read and then written, and taken over
  by its age while its owner may still work (bootstrap), a claim believed by its age
  together with a lock directory removed by its age (builds), a token checked and then
  revoked (refresh).
* Duplicate requests are settled by unique keys in some places and by nothing in
  others; a timeout, or a call without an answer, is followed by a second attempt
  while the first goes on.
* Answers reach the browser in any order, in several tabs, and change what is being
  typed meanwhile; what a timer saves is read from an editor that may be gone by then.
* Errors are swallowed one by one: a look-up, a link, a write to the container, the
  write that puts a program back. Each leaves a state the code after it takes for good.

The full list, each at its line with the properties that cover it or the reason
none does, is under `hazards` in PROJECT.json.

## 2. The plan

Order of work, the most important behaviour first.

1. **Lab sessions and their billing** (done): `LabSessions`, `UsageBilling`,
   `RuntimeWorkers`, `SessionHandlers`, composed in `LabPlatform`; safety proved.
2. **Wallet transactions** (done): `WalletTransactions` by the statement, with
   `PrepaidWallet`, which it implements; all its properties proved.
3. **Orders and the pool** (done): `ConnectionPool`, `TokenOrders`; safety proved.
4. **Builds** (done): `AndroidBuilds`; its safety properties proved.
5. **Accounts and logins** (done): `SingleSignOn`, `LoginSessions`; safety proved.
6. **Workspaces** (done): `WorkspaceBootstrap`, `WorkspaceFiles` and `CodeEditor`;
   safety proved.
7. Left: `LabPlatform` shown to implement `PrepaidWallet`; deleting, renaming and
   uploading files; `deductCredits`, refunds and administrator grants.

## 3. The modules and the code

Operators under a comment "Mutant" are deliberately wrong variants of the
definition after them, used to see that a property can fail.

### The life of a session and its billing

`LabSessions <- UsageBilling <- RuntimeWorkers <- SessionHandlers <- LabPlatform`,
each extending the one before it; `MCLabPlatform` instantiates the last for TLC.

* **LabSessions** declares the shared state. `row[s]` is the `lab_sessions` row
  (status, whether `TaskArn` is set, `AllocatedCredits`, the four timestamps, the
  two billed columns, the warning flag); `wallet` the lab wallet row; `credit` the
  balance of `credit_wallets`; `keys`/`booked` the usage ledger; `extUsed` the
  idempotency keys of extension transactions; `mem` the in-process records; `task`
  the ECS tasks; `job` a `processStop` that runs outside a request; `expiring` and
  `lapsing` the lists the two expiry workers have in hand; `req[r]` an HTTP request:
  the await it stands at and everything it has read. `charged` and `rounded` are
  history variables.
* **UsageBilling**: `BillSession` is one `billSession` transaction with its three
  outcomes (promotion of a STARTING session, nothing left, minutes billed);
  `FinalizeBilling` is `finalizeSessionBilling`, used by the stop handler. `Consume`
  does all of `consumeWalletTokens`, `createTransaction` and `insertUsage`: the
  wallet pays even when the ledger drops an entry whose key exists.
* **RuntimeWorkers**: `processStop` as a read-and-call step and a write step; the
  stop cycle; `SessionExpiryWorker` as a scan and one step per member of its list;
  `LabExpiryWorker` as a scan, an ECS call and a write per session, and the sync
  half; the record cleanup; clock, ECS and process restart.
* **SessionHandlers**: one action per stretch between awaits. Start: check, commit
  (or refuse), then without ECS run at once, with ECS launch and save the ARN or fail
  to. The practical credit comes with the request (`sessions.js:184-185`), so each start
  grants an amount of its own from `PracticalCredits`. Get:
  read, mark expired, then container gone, container running, or answer. Extend:
  read and check, then transaction. Stop: finalize, stop the task, mark. List: read,
  finish. `BuyTokens` is `processPurchase`.
* **LabPlatform**: `Init`, `Next`, `Spec`, fairness and all properties.
  **LabPlatformProofs**, **LabMoneyProofs**: the theorems.

### Wallets, orders and connections

* **PrepaidWallet** is abstract: payments delivered once each, usage out of what is
  there.
* **WalletTransactions**: `db` is what is committed, `lock` who holds a row's lock,
  `tx[t]` the statement at which connection `t` stands and what it has read. One
  action per statement that can wait. Billing: `BillBegin` (session row),
  `BillWallet` (lab wallet), `BillDeduct` (credit wallet, in a `catch` of its own),
  `BillCommit`. Purchase: `BuyBegin` (the reads that recognise a repeated payment),
  `BuyCredit`, `BuyLab`, `BuyCommit`, `Answer`. Extension: `ExtBegin`, `ExtCredit`,
  `ExtRow`, `ExtCommit`. A statement that waits in a circle may be chosen as
  `Deadlock` victim, any waiting one may time out; both roll back and throw, except
  in `consumeWalletTokens` (`StudentLabTokenWalletRepository.js:257`), whose empty
  `catch` lets billing go on: after a timeout with its transaction, after a deadlock
  without (`BareEntry`, `BareRow`).
* **ConnectionPool** is the mysql2 pool: `free[c]` counts how often a connection is
  in the free list (releasing twice puts it there twice), `waiting` the queue,
  `held` what each request has. **TokenOrders** puts five kinds of request on it:
  the creation of an order, a verification, the gateway's webhook, and a session
  start and a billing, which ask for a second connection while they hold one.
  `open[c]` is the transaction on a connection, whoever uses it: two requests on one
  connection commit or roll back each other's statements. `column` says whether
  `lab_sessions` has the column that settlement updates; no script creates it, so
  both are initial states.

### Logins

* **SingleSignOn** is `verifyLmsToken` for one student: look up by e-mail and by
  identity, insert or update, open the session, link. The look-up by identity may fail
  unseen, and any statement up to the session may throw after the account was
  committed. **LoginSessions** extends it
  with the tokens: `parent[n]` is the token that was spent for token `n`, `live`
  those not revoked; `cookie`, `stored` and `memory[t]` the browser's copies. A refresh
  tries the token it was sent and then the cookie's (`auth.js:294`), and its steps
  are the awaits: find, revoke, create, answer, with the answer arriving or lost.
  `createVLabSession`, which a login with a password and a refresh share, reads the
  account's e-mail (`ReadAccount`) and inserts a row when nobody has it any more.
  `direct` says that an account from elsewhere has one of the student's e-mails, and
  `split` records what may give the student a second account: overlapping first
  sign-ons, a look-up or a link whose error is swallowed, a sign-on that ends after
  its account was committed and before it was linked, an e-mail that changes between
  the two statements of a refresh.

### Workspaces

* **WorkspaceBootstrap**: `doc` is the session document, `poll[p]` a caller of
  `sessionsGetHandler` with what it has `read`, `boot[p]` the bootstrap that it
  starts without awaiting it. `Update` is `updateSession` in its two variants: one step
  in DynamoDB, a read (`base`), an await and a write in memory. `Check` ends at READY
  and at a fresh BOOTSTRAPPING; one older than 120 seconds it takes over, also while
  its owner works: two attempts may take 240, and a poll delayed in its awaits
  (`sessions.js:420-449`) comes late enough. Of ages the model has none: any
  BOOTSTRAPPING may be fresh or old. An attempt asks the container over HTTP (`post1`)
  and when no answer comes runs the script over SSM (`script1`), so that the first
  extraction may go on beside the second; it may succeed, fail, with its extraction
  ended or not, or lose the race against 120 seconds. `loose` says that extractions go
  on which nobody waits for; `listing` that a list of files has found the workspace
  empty and extracts the template on its own (`containerClient.js:664-669`). The
  student may save whenever the session runs, before READY too: `work` is "early" or
  "kept" by that, and an extraction takes it away. `racing`, `taken` and `stale` are
  history and name the races of the code: two bootstraps that both looked before either
  claimed, a take-over from one that works, an old document written back.
* **WorkspaceFiles** keeps the copies of a file: `disk`, `record`, `cache`, with `index`,
  the cached listing. A call is a record of `req` that goes through the awaits of
  its handler; `later` is what the handler goes on with after its answer (writing
  the record back, restoring the program after a test run). Every write to the
  container (`Writes`) may fail unseen, as each of its callers goes on: a save is
  acknowledged, a run goes on with what is there, and the test's own program stays
  in the student's file when it cannot be put back. A load the container does
  not answer is served from the copies (`ReadCopy`), or from the container asked again
  or the starter file in S3 (`ReadAgain`), or from the list, which may have no body
  (`ReadListed`). `crossed` and `stale` are history and name the overlaps and failures
  that excuse a wrong content.
* **CodeEditor** is the editor of one tab on top of it: `text`, `dirty`,
  `lastSaved`, `active`, `contentLoading`, `isSaving` are the component's state and
  refs; `drawn` is what the effect that sets the 1.2-second timer has last seen,
  since typing changes a file object in place and does not draw by itself. The preview
  (`preview`), opened by its button or by a test run, takes Monaco's place: from then
  on `getValue()` is "", while the timer set before still runs and the save button
  still works (`Value`). Without Monaco ever shown (`mounted`) the file's own content
  is saved. The list that the browser gets has no contents (`files.js:65-66`), so each
  file is loaded when it is selected.
* **AndroidBuilds**: a click reads the document, inspects the container, claims and
  launches; a launch over HTTP that gives no answer is repeated over SSM, so one
  click may start two `Wrappers`. `wrapper[w]` stands at the commands of the shell
  script another process can see: `mkdir`, `stat`, `rm` and `mkdir` again, writing
  the status, Gradle, the results, and the EXIT trap, which a signal runs without
  ending the script (`Interrupt`). A workspace that fails validation refuses the click
  before it claims. Queries copy what the
  container says into the document some awaits later.

Each component has an MC module and a module of theorems: `LabPlatformProofs` with
`LabMoneyProofs`, `WalletTransactionsProofs`, `TokenOrdersProofs`,
`AndroidBuildsProofs`, `LoginSessionsProofs`, `WorkspaceBootstrapProofs` and
`CodeEditorProofs`.

## 4. What the runs check

| run | shows |
|---|---|
| `billing` | `TypeOK`, `NeverOverdrawn`, `BilledColumnsAgree`, `ChargesBounded`, `LedgerWithinWallet`, `ChargedOnlyWhileMetered` for one session and one request at a time, all endpoints but list, the billing, stop, expiry and lapse timers, a student who begins without a wallet, failing wallet inserts and failing finalizations |
| `shared_wallet` | `BilledWithinWallet`, `ExtensionPaidOncePerKey`, `BillingKeepsAllocatedTime` for two sessions and two requests on one wallet, in the local mode (no ECS), where both sessions are metered at once |
| `lifecycle` | `TasksAreRecorded`, `EndedStaysEnded` for two sessions and two requests, whose starts name different credits, with containers that die and ECS calls that fail |
| `liveness` | `StoppingDrains`, `StartingSettles`, `ServedTaskReleased` under `FairSpec` for one session and two requests, with one restart and a failing write of the ARN |
| `wallet_transactions` | `TypeOK`, `NeverOverdrawn`, `PaidForOnce`, `ToldIsPaid`, `ExtendedIsPaid`, `NoCreditLost`, and `KeepsPromise`: the refinement of `PrepaidWallet` |
| `token_orders` | `NoConnectionLost`, `SharedOnlyAfterRefusal`, `NotAllWait`, `CreditedExactlyOnce` for three requests of any kinds on four connections and one order, any statement failing |
| `android_builds` | `OverlapOnlyByRobbery`, `FilesOfRunningBuild`, `BuildSettles` for two clicks, up to four wrappers, killed or signalled, and a query that repeats |
| `login_sessions` | `OneAccountPerStudent`, `CookieIsLive`, `TokenOpensOnce`, `TabRecovers` for two tabs, two e-mails, an account from elsewhere or none, and every fault |
| `bootstrap` | `ReadyIsPopulated`, `WorkIsKept`, `OneBootstrapUnlessRaced`, `BootstrapSettles` for two polls, both stores, a restart, take-overs, fallbacks, lists that extract and saves at any time |
| `editor` | `TypedIsSaved`, `AcknowledgedIsKept`, `ServedIsSaved`, `EditsSettle` for two files and two calls at a time, with the preview, failing container writes and fallback loads |
| `extension_honoured`, `blank_save` | counterexamples, see section 6 |

`EndedStaysEnded` and `ServedTaskReleased` hold for `lifecycle` and `liveness`
because those runs leave out the endpoints that break them (get and extend; get,
list and a start that replaces a running session, which one session id cannot do).
That is the content of these runs: the workers and the start and stop handlers,
which also write without looking, are sound among themselves, and `get_resurrects`
and `poll_leaks_task` (section 6) show which endpoint is not.

What two properties do not say: `TasksAreRecorded` speaks of runs without restarts and
without failing writes of the ARN, since either leaves a container that no row names
(section 6); `liveness` has both, and asks that the row leaves STARTING all the same.
`BuildSettles` is satisfied by a result of an earlier build that a query has read
before the claim and stores after it (section 6): it says that the page stops waiting,
not that what it shows is this build's.

Where a property has an excuse (`racing`, `robbed`, `refused`, `crossed`, ...), the
excuse is a history variable that only the named race of the code sets, at the line
the property quotes; the run shows that no other order of events breaks it.

**Bounds.** `MaxTime` bounds the clock, in half minutes: 5 in `billing` is enough
to promote a session at 1, bill a minute, restart the meter by a poll, bill less
than before and finalize with a rounded half minute, which is the longest scenario
the accounting has; 3 in `shared_wallet` lets the wallet run dry while a session is
inside its allocation; 2 in `lifecycle` lets a session of one token expire; 4 in
`liveness` covers promotion, a full allocation and the end. `MaxTokens` bounds
purchases: 2 (a wallet that is granted one token, runs dry and is filled again).
`MaxRestarts` is 1: a restart forgets everything, so a second meets no new state.
`wallet_transactions` has three connections, since a deadlock takes two and a
third must be able to act on the rows it lets go; two sessions, to compete for the
wallet; two minutes, so that a session can be billed again after a bare entry; one
payment, one extension key and one crash: every connection may use each again and
again, and different keys meet only in the locks. Its deadlock check is on.

`token_orders` has one connection more than requests, which is what `NotAllWait`
speaks of, and three requests because two share a connection and a third has to
notice. `MaxCredit` 2 lets an order be credited twice. `android_builds` has two
clicks, each with the repeated launch only for the first and the kill only for the
second: the two cases are independent, and the run stays at three minutes; its ages are
1, 2 and 2 of a clock up to 3, so that a claim can be fresh, believed or replaced
and a lock stale (25 and 30 minutes fall together: a build replaced in the five
minutes between waits for a lock that is stolen later or not at all).
`login_sessions` spends four on sign-ons, expiries and faults: two tabs sign on, one
expires twice or each once, and a fault hits in between. Three users are enough for
two e-mails and an account that is there already. `bootstrap` needs two polls for
each of its races and one restart. `editor` spends two: on two edits, or an edit with a
run, a preview, a save on the button, a reload, a restart or a fault; every switch, timer,
save and load that follows is free. An edit that the preview's timer blanks takes both,
and so does a run whose program cannot be put back. The proofs hold whatever is spent.

Distinct states: `editor` 1.2 million, `android_builds` 1.4 million, `lifecycle` 2.9
million, `billing` 4.2 million, `token_orders` 170,000; every run ends within three
minutes.

40 s, 45 s, 600 s and ten tokens are constants scaled down to one tick or token.
`CHECK_DEADLOCK FALSE` stands where the system may stop: `LabPlatform` and
`AndroidBuilds` at `MaxTime`, the others when all requests are done or the bound on
faults and user actions is spent.
Symmetry is used in runs without liveness only.

**Fairness.** `setInterval` timers fire for ever and the clock advances, so every
worker step and `Tick` is weakly fair; a handler past an await resumes, because
every promise it awaits is settled by MySQL or the AWS SDK. No fairness on a
client sending a request, a container coming up, a fault, or `SyncList` and
`BuyTokens`. Weak fairness is enough there: a step of a worker stays enabled until
that worker or another one takes the session out of its hands. In `AndroidBuilds` a
click, a wrapper and a query that have begun go on, and the page polls the status
again and again while it is RUNNING: strong fairness of `ReadForStatus`, because
downloads occupy the same query slot in between. In `LoginSessions` a page that is
open keeps sending requests, each of which refreshes an expired token. In
`WorkspaceBootstrap` a bootstrap that was started goes on and its timer fires, and
nothing is assumed of the container or of polls. In `CodeEditor` the component is
drawn again every second with the session's clock (`Draw`), its timer runs out, calls
are worked on and their answers noticed; nothing is assumed of the user.

## 5. What is proved

Every safety property of the passing runs is the conclusion of a theorem, in which
nothing is bounded: sets of sessions, requests, files, tabs or orders are any sets
(finite where the code sums over them or counts them), and clocks, faults and
user actions have any bound. The assumptions on the constants are named where they
are declared.

**Accounting** (`LabMoneyProofs`). For all sets of requests and keys, finite sets of
sessions (`SessionsAssumption`) and all amounts that satisfy `SettingsAssumption` and
`AmountsAssumption`:

* `TypeCorrect`: `Spec => []TypeOK`. `TypeOK` is inductive by itself because
  `Request` states what a request at an await must have read (a session, or a key).
* `MoneyInvariant`: `Spec => []MoneyInv`, and from it `WalletNeverOverdrawn`,
  `BilledColumnsAlwaysAgree`, `LedgerNeverExceedsWallet`, `ChargesNeverExceedTime`
  (invariants) and `OnlyMeteredAreCharged` (an action property).

The argument for `ChargesNeverExceedTime`: that the charges of a session are
bounded by its age is not inductive, since a poll moves `StartedAt` forward while
`BilledTokens` stays. `MoneyInv` therefore states the bound against the meter
(`Meter`, in `LabMoneyProofs`): what was charged is bounded by what ran before
`StartedAt` plus what is billed of the run since, with `StartedAt` between
`CreatedAt` and `now`. `Metering` states the part that says how far the billed
minutes can run ahead of the meter. A cycle that finds a negative number of
unbilled minutes lowers the billed columns and charges nothing; a restart of the
meter moves the slack from the second part to the first; finalization adds at most
one rounded half minute, which `rounded` counts. `LedgerNeverExceedsWallet` needs no
uniqueness of keys, only that an entry is never larger than the charge it is for.

**Sessions that share a wallet** (`LabMoneyProofs`).

* `BilledNeverExceedsWallet`: the sum of what the sessions show, and of what they
  were charged, is at most what the wallet gave up. The sum is a fold over the set
  of sessions. `FoldExists` and the lemmas before it show by well-foundedness of
  cardinalities that such a sum exists and changes with a summand by that summand's
  change; then each step moves one summand and the wallet together.
* `ExtensionsPaidOnce` holds without LMS grants (`~IsLms`): a grant adds tokens to the
  lab wallet without adding to the credit wallet, so that the property's account of
  the credit balance, which counts bought tokens twice as the code does, says nothing
  of it. `ExtensionInv` adds that the keys used are finitely many.
* `BillingAlwaysKeepsTime` rests on `EndingInv`: a row's `ExpiresAt` is not earlier
  than its `TokenExpiryAt` until an extension is used, and then not earlier than the
  smaller of that and the first extension after `StartedAt`. The first form of
  `BillingKeepsAllocatedTime` compared with `TokenExpiryAt` alone. It holds for the
  run's clock of 3 and fails at 7: an extension that read the row before the meter
  was started computes an `ExpiresAt` from the old times and commits it over the new
  ones. `PaidUntil` says what the student is still owed then.

**Sessions that end** (`LabPlatformProofs`).

* `TasksAlwaysRecorded`, without restarts and failing writes of the ARN: `RecordInv`
  adds that the row exists while its task is launched and that a session without a row
  has no task. A restart between RunTask and the update, or an update that fails,
  orphans the task (section 6).
* `EndedNeverRevived`, with ECS and without polls and extensions: these are the
  endpoints that revive sessions (`get_resurrects`), and without ECS the start handler
  itself writes RUNNING in a statement of its own over what a stop wrote meanwhile.

**Wallet transactions** (`WalletTransactionsProofs`), for any sets of
connections, sessions, payments and keys: every property of its run, that is
`TransactionsTyped`, `WalletHolds`, `SuccessIsDurable`, `CreditedOnce`,
`ExtensionAtomic`, `NoUpdateLost`, and `PromiseKept`, the refinement. The invariant
(`Inv`) says what a connection between two statements can rely on (`Standing`): the
rows it has locked still hold what it read, its key is still new, the charge it is
about to commit is still covered. A step of another connection cannot disturb that
(`OthersStand`), since it writes wallets only under their locks; `WritingStep` and
`QuietStep` apply this to all actions at once. `StepMoves` sums up what a step can do
to the money in four cases, from which the refinement and the sums follow. The
assumptions are `NamesAssumption` (rows, keys and `Nobody` are different things) and
`AmountsAssumption`.

**Orders and the pool** (`TokenOrdersProofs`), for any finite pool and set of requests
(`PoolSizeAssumption`) and any orders: `ConnectionsNeverLost`,
`ConnectionsSharedOnlyAfterRefusal`, `QueueAlwaysMoves`, `OrderTypesCorrect`,
`CreditedOnce`. `PoolInv` says where connections are: in the free list or in a slot
that the holder's place in its code is allowed to fill, with a queue only while
none is free, and no caller in it twice. `MineInv` ties a handler's local variable to
its slot, and says when it keeps the connection after the release. `Exclusive`, one
place for each connection, holds until a request throws after its release.
`QueueAlwaysMoves` counts: if every holder waited, each would hold only its outer
slot, and there are more connections than requests. `CreditedOnce` needs that the
transaction open on a connection is the one its holder's place implies (`Fits`: its
locks, its uncommitted status and credit) and that the wallet agrees with the
committed status (`Settled`).

**Builds** (`AndroidBuildsProofs`), for any number of clicks and queries, any ages in
order: `BuildTypes`, `BuildsExclusive`, `BuildFiles`. The invariant adds
`OwnerHasLock`: as long as no live owner was robbed, a wrapper that works is the one
whose lock directory is there. `mkdir` gives it to nobody else, and a wrapper that
removes a lock removes its own or robs.

**Logins** (`LoginSessionsProofs`), for any number of tabs, users, e-mails and faults:
`LoginTypes`, `OpensOnce`, `CookieWorks`, `OneAccountOnly`. `OpensOnce` needs that a
spent token is dead (`SpentIsDead`) and that, races apart, a token has one spender: a
call that has found it or the token it was spent for (`OneSpender`). `CookieWorks`
needs that nobody knows a token before its answer (`Unheard`: it is in no copy, no
other call and no list of tokens to try), that it lives until then (`AnswerLives`),
and that a spent cookie has a successor on its way (`CookieFollowed`).
`OneAccountOnly` needs that, before the identity is linked, one sign-on at a time is
between its look-up and its link, that the account it has committed is the only one, and
that a login or refresh which has read the account's e-mail finds it under that e-mail
(`Sole`, `AccountInv`). Its premises are `~split` and `~direct`.

**Bootstraps** (`WorkspaceBootstrapProofs`), for any number of polls and restarts and
either store: `BootstrapTypes`, `ReadyHolds`, `BootstrapsExclusive`, `WorkStays`. The
invariant says: whoever says READY or is about to knows that the template is there
(`ReadyKnown`), also by way of a document that is written back late; the document is
a lock that whoever works holds, and it says READY as long as there is work of that
time (`Exclusive`), except after a race, a take-over or a stale document (`Raced`);
when a restart has lost the document there never is one again (`Lost`), and no poll
starts a bootstrap once work was kept (`LeftAlone`).

`BootstrapsExclusive` and `WorkStays` speak of what a bootstrap waits for. An extraction
that was left behind, by a timeout, a failed attempt or a lost answer, and one that a
list started may go over anything at any time, and so may the first extraction over
what was saved before READY. No invariant of the code excludes that (section 6).

**The editor and its files** (`CodeEditorProofs`), for any files, requests and number of
actions (`FilesAssumption`, `BoundAssumption`): `EditorTypesCorrect`,
`AcknowledgedAlwaysKept`, `ServedAlwaysSaved`, `TypedAlwaysSaved`.

* On the server, as long as a file is not `crossed` (two writers met, or a container
  write failed), it has one writer, which puts back what was acknowledged, and only a
  test run that has not ended keeps that out of the container (`HeldInv`). As long as it
  is not `stale` either, nobody reads it while it is written, and record and cache hold
  the acknowledged content or the one a save has just put there; a file the record does
  not have is still the starter file, so that S3 is as good as a copy (`FreshInv`). A
  list of files that is being written back is the one in the record (`SnapInv`).
* In the page, what counts as saved is what the server has, or a save of this page is on
  its way (`LastInv`); and an edit that is not known to be lost is in the text and in
  every save of it, and has been saved, is being saved, or the file is dirty and
  something will save it: a timer, a drawing, or the answer of the save before
  (`SecureInv`).
* The first form of `TypedIsSaved` held for the run's two actions and failed for three:
  a reload followed by Run saves the empty text, a save of the page that was left is
  applied after one of the new page, and two saves are answered in the other order.
  Each is an overlap that the code allows; `unsaved`, which belongs to the page that is
  open, records them. It also records the file for which the timer or the button saves
  the "" of an editor that the preview has taken away (`Blanks`): the save is
  acknowledged and clears the mark, so nothing saves the edit afterwards.

Each step proof has one step per action.

Only model-checked: liveness (`StoppingDrains`, `StartingSettles`, `ServedTaskReleased`,
`BuildSettles`, `TabRecovers`, `BootstrapSettles`, `EditsSettle`), which TLAPS does not
prove under fairness.

## 6. Where the code does otherwise

With a run (quoted and explained under `findings` in PROJECT.json):
`extension_honoured`, an extension the expiry worker does not honour;
`blank_save`, a run of a file that is still loading saves an empty program over it.

With a configuration that reproduces the counterexample (`tlc -config X.cfg`, with the
MC module of the component), outside the routine check:

| configuration | property | what happens |
|---|---|---|
| `one_active_session` | `OneActiveSession` | two concurrent starts both find no session and insert one each (`sessions.js:93`) |
| `ledger_complete` | `LedgerComplete` | a ledger key is reused after the meter was restarted, and the entry lost |
| `poll_leaks_task` | `ServedTaskReleased` | a poll declares the stop done, and the container runs on (`sessions.js:468`) |
| `get_resurrects` | `EndedStaysEnded` | a poll makes a stopped session RUNNING (`sessions.js:432`) |
| `ledger_unpaid` | `LedgerPaid` | after a swallowed deadlock, usage that was never paid is in the ledger |
| `signed_out` | `SignedOutStaysOut` | a refresh that was under way signs a tab in again after its sign-out; the sign-out itself passes the refresh token as a session id and fails |
| `builds_overlap` | `GradleExclusive` | `AndroidBuildService.js:97` promises one Gradle at a time; a lock older than 1800 s is taken from a build that still runs |
| `announced` | `AnnouncedIsCredited` | the new balance is announced before the settlement rolls back |

Met while modelling, in the model, without a configuration of their own:

* A purchase adds its tokens to `credit_wallets` twice (`CreditWalletService.js:132-140`
  and `StudentLabTokenWalletRepository.js:152`).
* `STOPPED` sessions can be extended: `sessions.js:515` names COMPLETED, not STOPPED.
* `processStop` writes STOPPED after a failed ECS call, and nothing retries
  (`RuntimeStopService.js:30`; `index.js:189` speaks of a retry worker).
* `RemainingTokens` of 0 is falsy, so an LMS candidate with nothing left starts a
  session on the practical credit all the same (`sessions.js:199`).
* The list handler's EXPIRED (`sessions.js:728`) and the reset of a replaced session
  (`sessions.js:138`) leave the container to nobody.
* A crash between RunTask and the update that stores the ARN, an update that fails
  there (`sessions.js:362-366`: the row says FAILED, the container runs), or an ARN stored
  after LabExpiryWorker listed the row without it, orphans a container.
* After a swallowed deadlock the late update of the session row can also lower
  `BilledTokens` below what was billed in between, so that minutes are charged again
  (`BareRow`).
* Two lines of one purchase for the same lab get the same ledger key
  (`CreditWalletService.js:174`): the second entry is dropped, the tokens are not.
* Settlement names a column no schema creates (`PaymentSettlementService.js:127`) and
  rolls back; the webhook passes a gateway order id that `settleOrder` ignores, and
  answers ok. A throw after a release makes the `catch` release again
  (`sessions.js:154`): the connection is in the free list twice.
* With as many requests as connections each may hold one and wait for the next for
  ever: the pool has ten and no time limit (`StudentLabTokenWalletRepository.js:69`).
* The old build's EXIT trap removes the lock directory of the build that took it over;
  a status query or download that has read the old result may write it over a new
  claim (`android.js:69`), until the next query reads again.
* A second start with a larger `practicalCredit` in its body raises the lab wallet again
  (`sessions.js:184-204`): the grant is the larger of what was granted and what is asked.
* A student of the LMS gets a second account when a refresh has read an e-mail that a
  sign-on changes before the refresh uses it (`AuthService.js:44-61`), when a first
  sign-on commits the account and then fails to open the session
  (`SsoService.js:253`), and when `findBySubject` fails (`:224`) under a new e-mail.
* A poll that was held up in its awaits takes over a BOOTSTRAPPING older than 120
  seconds from a bootstrap that still works, whose attempts may take 240
  (`workspaceBootstrapService.js:361-370`). A bootstrap that a restart cut short is not
  taken over when the row is RUNNING and the document says so: no poll starts one, and
  BOOTSTRAPPING stays.
* A timeout, a failed attempt or a lost HTTP answer leaves an extraction behind that
  nobody waits for (`workspaceBootstrapService.js:461-475`), and a list of files that
  finds the workspace empty starts one (`containerClient.js:664-669`). These go over what
  is saved meanwhile. The editor does not wait for READY either
  (`Editor.tsx:1304-1308`): what is saved before goes with the template's extraction.
* The autosave and the save button send `editorRef.current.getValue()`
  (`Editor.tsx:1647`). Once the preview has taken Monaco's place (`:2952-2964`), by its
  button or by a test run, that is "": a file that was typed into less than 1.2 seconds
  before is saved empty, and is no longer dirty.
* An INT or TERM runs the build script's trap, which removes the lock, and the script
  goes on (`AndroidBuildService.js:143`).
* A statement of a transaction whose connection was released twice may be rolled back
  by another request (`PaymentSettlementService.js:144-149`); `refused` covers it.
* The file cache, the session record and the container disagree after a save the
  container did not take, which is acknowledged (`fileRepository.js:617`); a test run
  restores the program it found, over what was saved meanwhile
  (`ExecuteCommand.js:245`), or leaves its own program in the file when the write fails
  (`:243-248`): the next load serves that.

## 7. Abstractions, bounds and what is not modelled

* One student, one lab, one wallet row: rows of others meet these only in the order
  in which a worker visits them. Alias lab ids are left out.
* Time in half minutes; `AllocatedCredits` in minutes.
* In `LabPlatform`, `billSession`, `finalizeSessionBilling`, the extension's and the
  purchase's transaction are atomic: what can go wrong inside them is the subject of
  `WalletTransactions`, which leaves the life of sessions out instead, and of
  `TokenOrders`, which leaves out the amounts.
* `WalletTransactions` has the wallets and sessions exist, extension requests carry a
  key (without one there is no check), and one lab in a purchase. Repeatable-read
  snapshots do not matter there: everything a transaction uses it reads with
  `FOR UPDATE`.
* `processStop`'s read and ECS call are one step (the read decides only
  whether to call). At most one queued `processStop` per session: a second one does
  nothing the first does not.
* The record cleanup's list and treatment of one session are one step: the list is
  the process's own memory.
* finalizeSessionBilling called from the start handler waits for a row lock its
  caller holds and fails; the model keeps the outcome (nothing charged).
* `TokenOrders`: a failing BEGIN outside the `try`, prices and order listings are left
  out; an order has one line.
* Practical credits and prices are positive whole numbers; `sessions.js:184` would take
  any number.
* `updateSession` of the file cache and other writers of the session document do not
  meet the bootstrap's in the models: each has the part of the document it uses.
* `LoginSessions`: passwords, registration, roles and expired refresh tokens are left
  out. Forced logout and the clean-up job touch only columns that no decision reads,
  and the limit on concurrent logins and `RefreshTokenService` are called by nobody.
  The replay record of a sign-on makes calls with the same token take turns, so the
  model gives each call its own.
* `WorkspaceBootstrap`: switching the .NET subtype and the choice of a template are left
  out; with `DISABLE_SSM` and for labs that skip the bootstrap nothing is extracted and
  READY says nothing. One step of `Extract` is the whole extraction and its
  verification; `workspaceBootstrapService.js:484` and after (the local mock without
  AWS) are left out. The other parts of the session document are in `WorkspaceFiles` and
  `AndroidBuilds`, each with the document to itself.
* `AndroidBuilds`: log text, offsets and the script's path are left out. What
  Gradle builds from is not looked at, and neither is the age of a claim's APK.
* `WorkspaceFiles` and `CodeEditor`: a listing is one step; the container lists files
  without contents; a write over HTTP that times out and lands after its SSM
  repetition is left out, and so are eventually consistent reads of DynamoDB,
  deletion, renaming, creation, upload, download and the .NET filter.
  `user_lab_workspaces` rows are written and never read. One tab, whose open files are
  not closed. Monaco shows a file's content whenever it is shown. `PressRun` is the run
  of labs with the mode dialog (Selenium): in the other labs a second save, which is not
  awaited, marks the file as saved before its answer (`Editor.tsx:1977-1982`), so that an
  edit can be lost there when that save fails.
* The addresses of containers, log texts and answers are left out. A subscriber of a
  run's log stream that arrives after the end is never answered; streams are not
  modelled.
* Components with status `not_modelled` in PROJECT.json: container access (proxies,
  terminals: bytes passed through), the LMS calls and their caches, audit and mail
  (written, never read by a decision), the catalogue, reports and the owner dashboard
  (single records, created, read, updated and deleted), and the pages of the client
  that only show what the server answers.
