# Formal model of the wallet service

TLA+ modules of the wallet service (an Express API, a BullMQ worker and a Vue client over
PostgreSQL, Redis and MinIO), the TLC instances that check them, and TLAPS proofs of their safety.
Paths below are relative to the repository's root (`src/...` is the
server, `frontend/...` the client, `db/...` the SQL).

Contents: [the system](#the-system) - [what is hard](#what-is-hard-to-test) -
[modules](#modules-and-how-they-correspond-to-the-code) - [runs](#runs-bounds-and-results) -
[fairness](#fairness) - [proofs](#what-is-proved) - [disagreements](#where-the-code-and-its-documents-disagree) -
[not modelled](#what-is-not-modelled) - [plan](#plan)

## The system

| Component | State it keeps | Operations | Talks to |
|---|---|---|---|
| `transfer_funds` and the triggers (`db/migrations/*.sql`) | `users`, `wallets`, `transactions`, `transaction_ledger` | CALL, opening a wallet | called by the transaction repository; the balance triggers write the ledger |
| transfer service (`src/services/transfer.service.js`) | the requests in flight | `transfer` | CALL, `findById`, then Redis (enqueue), then Socket.io (notify) |
| receipt queue (`src/queues/receipt.queue.js`, BullMQ, Redis) | one job per transfer id | `enqueue`, fetch, complete, fail, stall, expire | API, worker |
| receipt worker (`src/worker.js`, `src/workers/*`) | job slots, failure handlers, recovery runs | `processReceiptJob`, `onReceiptJobFailed`, `recoverPendingReceipts` | queue, `transactions.receipt_*`, MinIO |
| migrate process (`src/scripts/migrate.js`, `src/db/migrator.js`, `src/db/seeder.js`) | `schema_migrations`, an advisory lock | `runMigrations`, `runSeed` | PostgreSQL; docker-compose starts the API after it |
| registration (`src/services/auth.service.js`) | - | `register` | `users`, `wallets` |
| Socket.io server (`src/sockets/index.js`) | sockets, their rooms and expiry timers | handshake, expiry, emit | token service, browsers |
| browser stores (`frontend/src/stores`, `App.vue`, `api/http.js`) | session, socket, status, wallet, toasts | login, logout, reload, listeners, requests | Socket.io server, API |
| paged lists (`frontend/src/composables/usePagedResource.js` and the four views over it) | the page, its rows, its refresh timer | load, refresh, previous, next | API, the wallet store's activity counter |
| transfer form (`frontend/src/components/TransferForm.vue`) | the fields, the recipient and its error, the result card | lookup, submit, poll | API |
| navigation (`frontend/src/router`, `LoginView`, `RegisterView`, `AppHeader`, `App.vue`) | the route, the navigation under way | guard, push, sign-in forms, logout, reload | auth store, API |
| API process (`src/server.js`, `src/container.js`, `src/routes/health.routes.js`, `src/db/pool.js`) | connections, the pool's clients, `shuttingDown` | requests, health check, `shutdown` | PostgreSQL, Redis, signals |
| worker process (`src/worker.js`) | the BullMQ worker, the recovery timer, the pool, `shuttingDown` | `start`, `shutdown` | queue, PostgreSQL, MinIO, signals |
| HTTP API (`src/app.js`, `src/routes`, `src/middlewares`, `src/controllers`, the read services) | none | a request: body, route, authenticate, authorize, validate, service, error handler | services, repositories |

A transfer goes through all of them: the form looks a recipient up and posts; the service
CALLs the procedure, which commits money, ledger and the verdict on the receipt at once; the
service enqueues the receipt's job and emits `transfer:received`; the worker renders, uploads and
marks; the lists and the form poll until they see it. Each arrow is an await behind which
another actor may act, fail or die.

What makes each part correct:

- *transfer_funds*: no lost update, no overdraft, no deadlock, a ledger that agrees with the balances.
- *receipts*: a link only to an object that exists; every required receipt ends GENERATED or FAILED; a request is answered.
- *API*: nobody learns anything of a transfer that is not theirs; going through the pages skips nothing; 500 is said of failures and of three kinds of input only.
- *processes*: a stop cuts off nothing that somebody waits for, nor a job, takes no pool away from such a request, and ends.
- *accounts*: migrations once and in order; user and wallet together; one winner per username; the admin's name is the admin's.
- *sessions*: a socket dies with its token; no transfer is announced to another than its recipient; sessions mix in known ways only; an expired token signs the user out.
- *lists and form*: refreshing neither multiplies, stops early, goes on for ever nor turns the page; money goes to the name on the screen, once; what is pending on the screen is being asked about.
- *navigation*: the page that is shown suits whoever is signed in, however late a guard, a chunk or a login is.

## What is hard to test

The hazards are listed in `PROJECT.json`, each at its line. Their kinds: interleavings of
sessions inside the procedure (a stale balance, opposite lock orders); crashes between the commit
in PostgreSQL, the enqueue in Redis, the upload to MinIO and the UPDATE back; job locks that run
out under a slot that goes on; failure handlers that fail; migrate processes side by side; answers
and events of an earlier browser session that arrive in the next one; overlapping loads that
overwrite each other's timer; late lookups and polls; rows that come into a list between two of its
pages; a signal in the middle of requests and jobs, or a second signal; a session that ends while a page is
being fetched. The repository's tests cover each operation
alone, and parallel transfers statistically; none of these needs more than two or three actors,
but all need them at one exact await.

## Modules and how they correspond to the code

| Module | Models | State and actions |
|---|---|---|
| `WalletBook` | what the database promises: a book of balances in which a transfer is one step | abstract; `Open`, `Transfer` |
| `TransferFunds` | `transfer_funds`, the ledger triggers, READ COMMITTED row locking | `pc` is the statement a session is at: `Call` (argument checks) - `SelectRows` (snapshot of the `SELECT`) - `LockRow` (one row per step, `ORDER BY id`, re-read on grant) - `Check` (WL003-WL005, INSERT, `set_config`) - `Debit` - `Credit` - `Commit`; `Abort` is a lost session, `Rollback` an error, `OpenWallet` a registration's INSERT |
| `ReceiptLifecycle` | what a receipt goes through as seen from its row and the bucket | abstract; `Issue`, `Store`, `Generate`, `GiveUp` |
| `ReceiptStores` | the rows, the bucket and the BullMQ queue the API and the worker share | operators for the SQL, the upload and the queue's operations, `Stall` and `FailStalled` among them; no steps of its own except `RedisForgets` |
| `TransferService` | `transfer`, one await per step, and Redis coming and going | `CommitTransfer`, `FindById`, `EnqueueReceipt`, `NotifyAndAnswer`, each with its failure; `CrashApi` |
| `ReceiptWorker` | the worker process | per slot `TakeJob` - `LoadTransaction` - `UploadReceipt` - `MarkReceipt` - `FinishJob`; `AttemptFails` (before or after the effect), `LockLost`, `DropStalled` (a job that stalled too often), the failure handler, recovery runs, retention, `CrashWorker`, `StartWorker` |
| `ReceiptPipeline` | both over the shared stores | composition; implements `ReceiptLifecycle` |
| `Accounts` | migrate processes and registrations | `AcquireLock` - `ListPending` - `ApplyFile` - `Unlock`, then per account `FindByUsername` - `InsertUser` - `CommitAccount`, shared with `register`; failures at every await |
| `HttpApi` | the chain of a request and what it answers | `Respond` is the answer of a read at any moment, from `Refusals` (the chain, in its order: `ParseBody` - `FindRoute` - `Authenticate` - `DecodePath` - `Authorize` - `Validate`) and one operator per service method; actions: `Refused`, `RegisterFind` - `RegisterInsert`, `Login`, `TransferRefused`, `Transfer`, `AskReceipt` - `Redirect`, and readers that go from page to page of the transactions or the ledger (`StartReading`, `ReadOn`); receipts take the steps of `ReceiptLifecycle` |
| `Sessions` | one browser tab and the Socket.io server | server: `Handshake`, `ExpiryFires`, `NotifyTransferReceived`, `ServerDisconnect`, `Answer`; link: `ConnectionLost` - `NoticeLoss`; browser: `SendLogin` - `Receive` (`SignIn` or `Unauthorized`, also over a session), `Logout`, `Reload`, `RefreshWallet`, `Deliver` (the listeners), `DismissToast`; `Ask` is what a request wants, with which token |
| `PagedList` | `usePagedResource`, one receipt's status per page | `StartLoad` behind mount, activity, `ClickRefresh`, `ClickPage` and timer; `Answer`, `Receive`, `LoadFails`, `Unmount`; a timer nobody refers to any more is counted in `orphans` |
| `TransferForm` | the form's script | `TypeName`, `StartLookup`/`FinishLookup`, `Submit`/`Submitted`/`SubmitFails`, `SendPoll`/`FinishPoll`/`PollFails`, `Unmount`; `card` is the status badge of the result |
| `Navigation` | the router, its guard, the two sign-in forms and what ends a session | `Push` behind links, logout, sign-in and the end of a session; `RunGuard` - `Arrive` or `ImportFails`; `Submit` - `SubmitSucceeds` or `SubmitFails`; `ClickLogout`, `SessionEnds`, `GoBack`, `LoadPage`, `Expire` |
| `Redis` | the Redis both processes wait for | `RedisFails`, `RedisReturns` |
| `ApiProcess` | `server.js` around the handlers | a request is the stages its handler awaits (`Program`: `Read`, `Transfer` or `HealthCheck`): `Request` - `Connect`/`QueryEnds`/`ConnectFails`, `Pong`, `AddJob`/`AddRefused` - `Respond`; `ClientAborts` (the handler goes on); `Deliver` (a signal) - `ServerClosed` - `EndPool` - `Exit`; `Kill` |
| `WorkerProcess` | `worker.js` around the jobs | `EnsureBucket` - the first `RecoveryStep` - up; `Take`, `Settle`, `FailFinally` and the verdict nobody awaits (`SendVerdict`, `Dequeue`, `VerdictEnds`); `DeliverWorker` - `JobsOver` - `EndWorkerPool` - `ExitWorker` |
| `Processes` | both side by side over one Redis | composition; `EnqueueReceipt` is the API's `AddJob` and the worker's `Enqueue` in one |
| `GracefulStop` | what a process promises of its end | abstract; `Start`, `Finish`, `AskToStop`, `Stop`, `Kill`; implemented by both processes |
| `MC*` | instances for TLC | constants in the `.cfg` files |
| `*Proofs` | theorems about the module they are named after; `BrowserProofs` about `Sessions` and `Navigation`, the two halves of a tab | - |

Operators named as mutants in their comment are variants of the definition that follows, used to
show that a property would notice that bug.

Modelling decisions a reader should know:

- *READ COMMITTED.* A `SELECT ... FOR UPDATE` takes the rows of its snapshot, then locks one after the other; a row that changed while it waited is read again. A wallet committed after the snapshot is not among the rows, so WL004 can be raised for a wallet that by then exists. The loop with its waits is `SelectRows` and `LockRow`.
- *CHECK constraints* of `wallets` are in the model as error 23514; those of `transactions` and `transaction_ledger` are second lines of defence that are not modelled separately: `TypeOK`, `LedgerRow` and the invariants say what they say. `WL006`, `WL007` and the `updated_at` triggers guard against callers the repository does not have.
- *The ledger's listing* is a page of `HttpApi`; what its rows hold is in `TransferFunds`.
- *BullMQ.* One job per id, `waiting` stands for delayed too; a job whose lock ran out goes back to waiting, and when that has happened more than `MaxStalls` times (`maxStalledCount`, which `src/` leaves at BullMQ's default) the worker that fetches it next fails it for good with an `UnrecoverableError`, attempts or not (`DropStalled`, BullMQ 6 of the lock file); a new job of the same id starts from nothing. The processor's "transaction not found" is unreachable: a job exists only for a committed transfer, and none is ever deleted.
- *Failures* are bounded by `MaxFaults` and happen before or after their effect, so a lost acknowledgement is among them.
- *docker-compose* starts the API after one migrate process completed (`depends_on`): `appUp`.
- *HttpApi.* A request with one query is one step, because nothing it uses changes between its arrival and its query; one that only reads changes no state and has no action. A row may come anywhere in a listing: `created_at` is the start of its transaction, not its commit, and the id that breaks ties is random; `newer` holds each list's rows in its order. Three kinds of input are answered with 500, because `errorHandler` has no case for them: a body `express.json` gives up on for another reason than its syntax or its length (charset, encoding, a size that is not the announced one), a path parameter with a malformed percent-escape, which Express finds where it comes to the route, behind the router's `authenticate`, and text with U+0000, which passes the schemas and is refused by PostgreSQL with 22021. Balances and who has enough are `TransferFunds`' matter.
- *Sessions.* The server's and the browser's clock are one. Socket events keep their order and are lost with their connection; HTTP answers keep none, those to a login among them: `auth.login` sets the session at its answer whoever is signed in by then, a wrong password is a 401 like any other, and token to token App.vue connects and refreshes but resets nothing. A token is its login: two tokens of one user from the same second are one string in the code, and then App.vue's watch does not fire. A link that breaks is `cut` until the client misses a heartbeat. Timers fire at their tick, not later: the clock waits for the expiry timers that are due, for toasts (7 s) and for missed heartbeats, each far shorter than a token's life.
- *TransferForm.* A poll whose answer is for an older transfer changes nothing and stops; a poll that *fails* is retried whatever is shown. The amount and the description are one valid value, the overdraft hint is layout.
- *PagedList.* The number of pages does not change, and a page holds one receipt that matters.
- *Navigation.* A navigation is its guard, then the chunk of its page; a newer one supersedes it at either. `isAuthenticated` is a computed value over `Date.now()`, which Vue does not compute again when time passes: it is `who # "none"`. Two browser tabs are two copies of the module.
- *Processes.* Both run as PID 1 of a container: a signal without a handler may be lost. a client, or nginx after its 60 s (`nginx.conf`), may close a connection before the answer: no handler is told, so it goes on, and the server no longer counts it. `http.Server.close` closes idle kept-alive connections (Node 19 and later) and waits for busy ones, that is for connections and not for handlers; `pool.end` waits for clients that are out and serves no queued query; what `bullmq` does on `close` is that it takes no further job and waits for the active ones. A request's handlers are the awaits it has, not what they compute; several queries in a row on one connection are one.
- *External behaviour* (PostgreSQL, BullMQ, Redis, socket.io, fetch, clocks) is modelled as the code uses it and marked external in `PROJECT.json`.

## Runs, bounds and results

`tlc -workers 2 -config X.cfg M` in this directory. Deadlock is checked in `HttpApi`,
where there is always another request to make, and not in the others, where all actors may come to
rest (every receipt done, nobody signed in, both processes stopped).

| Run | cfg | Checks | States |
|---|---|---|---|
| TransferFunds | MCTransferFunds | `BalanceIsLedgerTip`, `LedgerIsChained`, `RefusalIsTrue`, `NoDeadlock`, `ImplementsBook`, `CallEnds` | 245 thousand |
| ReceiptPipeline | MCReceiptPipeline | `GeneratedHasObject`, `PendingIsCovered`, `ImplementsLifecycle` | 7.9 million |
| ReceiptLive | MCReceiptLive | `ReceiptsResolve`, `RequestsSettle` | 268 thousand |
| Accounts | MCAccounts | `AccountsHaveWallets`, `OneRegistrationWins`, `AdminIsSeeded`, `EveryProcessEnds` | 140 thousand |
| HttpApi | MCHttpApi | `HiddenLooksAbsent`, `NothingSkipped`, `ServerErrorIsFailure` | 198 thousand |
| Sessions | MCSessions | `ExpiredTokenHasNoSocket`, `ToastsAreOwn`, `LiveIsTrue`, `OnlyLateAnswersMix`, `ExpiredIsSignedOut` | 1.5 million |
| PagedList | MCPagedList | `RefreshesAreBounded`, `PendingIsRefreshed`, `ClickedPageIsShown`, `LinkAppears` | 268 thousand |
| TransferForm | MCTransferForm | `RecipientIsNamed`, `FieldIsExplained`, `CardIsPolled`, `NoDoubleSend`, `ResultIsLatest`, `PollsEnd` | 236 thousand |
| Navigation | MCNavigation | `PageSuitsSession`, `NavigationSettles` | 142 thousand |
| Processes | MCProcesses | `ResourcesOutliveRequests`, `ApiStopsGracefully`, `WorkerStopsGracefully`, `ApiShutdownEnds`, `WorkerShutdownEnds` | 559 thousand |
| ReceiptRevive, TransferRedis | MCReceiptRevive, MCTransferServiceRedis | one statement of a document each, which the code violates ([below](#where-the-code-and-its-documents-disagree)) | small |

The type invariants are part of the inductive invariants that are proved; each was checked by TLC in the
instance of its run before its proof.

Why the bounds are enough:

- *TransferFunds*: two wallets and two sessions give both orders of locking, a lost update, a wait for a row, and a rollback under a waiter. `MaxNow = 4` leaves two CALLs after both wallets are opened, more if one is not. Amounts 0, 1, 2 with openings 0, 2 give WL001, an exact balance, too little and a receipt on either side of the threshold. `MaxNow` bounds the transactions started. The proofs lift the safety results to any numbers.
- *ReceiptPipeline*: two transfers, two slots (one job in two slots after a lost lock), two attempts (a retry and a last one), one recovery run at a time beside the retries and the API, three failures anywhere: enough for a lost lock, a crash and a failed handler on one receipt, and `MaxStalls = 1` for a second lost lock to fail the job for good and its handler after it. Slots are symmetric here; a liveness run must not use symmetry, so *ReceiptLive* has one slot and two failures, and a batch of one so that a receipt can be kept out by an older one.
- *Accounts*: two migrate processes (restarted any number of times), two requests, an admin, a demo user and a third name, two files (an order and a state between), two failures.
- *HttpApi*: three transfers, so that one can come into the list between two pages; pages of two rows; two requests at a time, for two registrations of one name and for a reader beside a writer; a seeded user, a user who may register, and an admin. Every await can fail, any number of times. One transfer is large enough for a receipt. Symmetry exchanges only what the module cannot tell apart, and no liveness is asked here.
- *Sessions*: two users, two logins, a lifetime of two ticks and a clock to three, one received transfer or refresh asked for, one lost connection or request or page load, two requests in flight, logins among them, so that one can outlive its session beside one of the next, or a login come across a session. `Lifetime` is within `MaxTimer`, as the default `JWT_EXPIRES_IN` of 1h is.
- *PagedList*: two pages, three loads in flight at once, three further loads asked for, one failure. *TransferForm*: three names, one unknown and one the user's own, two entries, two lookups in flight, two failures, a poll limit of 1 (one retry, then the limit). All safety properties of both are proved for any numbers.
- *Navigation*: five things a user does, two logins in flight (one sent before the page was left), one chunk that cannot be fetched.
- *Processes*: two connections, three requests and a pool of one client, so that a handler waits for a client the other one holds, and a client can leave either of them; three jobs in two slots, two runs of the recovery that overlap; both signals, one outage of Redis. `MCProcesses` starts with one of the two processes down: the API alone, or the worker over a queue of any length. Their product has ten million states already at smaller bounds, no property relates the two, and the theorems of `ProcessesProofs` are about both together.

What the properties except:

- `NoDoubleSend` allows a second transfer after a submit the user was told had failed: an answer lost after the commit is reported as an error, and the API has no idempotency key.
- `PendingIsRefreshed` and `LinkAppears` except a page that shows an error: a failed refresh sets no timer (`usePagedResource.js:25`).
- `CardIsPolled` excepts a transfer whose timer a later submit cleared: when that one is refused, the badge stays PENDING (`TransferForm.vue:96`).
- `FieldIsExplained` excepts the error of a late lookup of another name: it is written whatever the field says, and shown in place of the recipient (`late`, `TransferForm.vue:53`). The hazard it is has no property of its own; `RecipientIsNamed` shows that no money follows it.
- `ServerErrorIsFailure` excepts the three kinds of input above.
- `ClickedPageIsShown` is about a page that was clicked while no load was under way: of overlapping loads the last answer wins (`usePagedResource.js:20`).
- `ToastsAreOwn` excepts the toast of an earlier session during its seven seconds: nothing clears it on a logout or a sign-in (`App.vue:36-39`).
- `LiveIsTrue` excepts a link that is cut until the client misses a heartbeat (`realtime.js:22`).
- `ReceiptsResolve` excepts a receipt whose failure handler was lost (`stranded`), which is what ReceiptRevive shows, and one that such receipts keep out of recovery's batch.
- `OnlyLateAnswersMix` excepts the answer to a request of an earlier session: its balance is shown, and its 401 ends the session (`wallet.js:13`, `http.js:45`); and the answer to a login sent over a session: the balance of the former user stays until the next one's is there (`auth.js:39`, `App.vue:30-41`), and a wrong password ends the session (`http.js:45`).
- `ResourcesOutliveRequests` and `ApiStopsGracefully` are about requests whose client is still there: the server's close waits for no other (`server.js:47`).
- `ApiShutdownEnds` and `WorkerShutdownEnds` except a Redis that stays away.
- `WorkerStopsGracefully` counts a verdict as under way once the pool has a client for it: one that still waits when the pool is ended is dropped (`worker.js:57`).
- `PageSuitsSession` excepts a page whose chunk could not be fetched: the old page stays.

## Fairness

| Specification | Fair | Why the code justifies it |
|---|---|---|
| `TransferFunds` | weak, each session's `Step` | PostgreSQL runs a statement to its end; a row lock is waited for (no `lock_timeout`); no fairness for new calls or aborts |
| `ReceiptPipeline` | weak: slots, stalled check, handlers, recovery, restart of the worker (`restart: unless-stopped`), the API's awaits, Redis coming back | no failure, no retention and no crash is owed; Redis coming back is assumed in this specification only |
| `TransferService` alone | weak: the API's awaits | nothing of Redis: the run that shows what a Redis that stays away does |
| `Accounts` | weak: awaits; strong: `AcquireLock` | advisory locks are granted in the order they were asked for, so no waiter is passed over for ever |
| `Sessions` | weak: answers and expiry timers; strong: socket steps, a missed heartbeat among them | a browser delivers what arrives; strong because the request slots, a bound of the model, may be taken again and again |
| `PagedList` | weak: timers, loads, `Resolve` | `Resolve` is what `ReceiptsResolve` shows of the worker |
| `TransferForm` | weak: polls | nothing of the user or the worker |
| `Navigation` | weak: the guard, the fetch of a chunk | a promise settles; nothing of the user, the server or the clock |
| `Processes` | weak: each handler, job, recovery run and shutdown | Node runs its callbacks; PostgreSQL and MinIO answer or fail (`DB_CONNECTION_TIMEOUT_MS` for a client); an idle connection is closed by `keepAliveTimeout`; a queue closes only while Redis is there, and nothing promises that it comes back |

## What is proved

With TLAPS 1.4.5 (Z3, Zenon and LS4), for every value of the constants that satisfies the
modules' ASSUMEs: sets of users, sessions, transfers, slots, processes, connections, loads and names of any
size, any bounds on time and failures.

*TransferFundsProofs* proves type correctness, `BalanceIsLedgerTip`, `LedgerIsChained`,
`RefusalIsTrue`, that the CHECK on balances never fires, that the specification implements `WalletBook`, and
`NoDeadlock`. None of these is inductive alone. The strengthening `IInv` adds: what is known of a
session's arguments (`CallInv`); a session past its SELECT holds the locks of all its rows
(`LockInv`); what it read and wrote agrees with the committed balances as long as it holds them
(`ReadInv` - the heart: an update under a lock cannot be stale); ledger ids come from the sequence
(`LedgerInv`); its uncommitted entries are later than all committed ones of their wallet and start
from its balance (`EntriesInv`); transfer identities differ (`IdentityInv`). The refinement maps
`Commit` to the book's `Transfer`, `OpenWallet` to `Open`, all else to a stutter. `NoDeadlock` is an argument of its
own: a session that waits for another wants a wallet of a higher id than any it holds, so in a set of
sessions that wait for each other the wanted ids would descend without end, which well-foundedness of the
naturals excludes. Two results have no run of their own: `DoubleEntry` (each transfer has exactly its DEBIT and its
CREDIT row, from `DraftInv`, what a session has written so far), and the safety half of `CallEnds`: among CALLs
under way one waits for nobody (`SomeoneRuns`, from `NoDeadlock`), and each has at most seven steps left, which
nobody else's step raises (`CallsShorten`).

*ReceiptPipelineProofs* proves type correctness, `GeneratedHasObject`, that a completed job stands for a
GENERATED receipt, that only receipts that are asked for are worked on, `PendingIsCovered` and
`ImplementsLifecycle`. `IInv` adds what a slot knows
after each await (`SlotInv`: the object is stored before the row is marked, the row is GENERATED
before the job finishes), that a locked job is active, a live one has an attempt left and one that is gone has left no counter
(`JobInv`), and that requests enqueue only receipts that are asked for (`RequestInv`). That GENERATED is never undone
makes the slot's knowledge stable under the other slots.

*AccountsProofs* proves type correctness, that a pending file is pending when it is applied and files are
applied in order, that the schema is there before any account, `AccountsHaveWallets`, `OneRegistrationWins` and
`AdminIsSeeded`. `IInv` adds who holds the advisory lock and what its list means (`LockInv`), that the schema is complete
when the API is up (`SchemaInv`), that a process between its two INSERTs is alone at its username
(`InsertInv`), and how far a seed must be for the admin to exist (`AdminInv`). `WaitersWaitForMovers`, what
`EveryProcessEnds` rests on besides fairness, needs `HoldersInv`: the advisory lock and the uncommitted usernames
are held by processes at a place where they use them, so none is left by one that failed.

*HttpApiProofs* proves `NothingSkipped`, `ServerErrorIsFailure`, `HiddenLooksAbsent` and that a redirect goes to
an object that is stored. `NothingSkipped` is about listings into which rows come anywhere. Its
argument: a list has one order (`OrderInv`) in which every rank is taken (`RanksAreTaken`), and an insertion moves no
row to an earlier page (`RanksGrow`), so what a reader has not been shown stays behind the pages it has been shown
(`ReadInv`). For the redirect, a GENERATED receipt has its object (`ReceiptInv`), and one that was read as GENERATED
before an await still is (`LinkInv`).

*ProcessesProofs* proves `ResourcesOutliveRequests` and that both processes implement `GracefulStop`, from
one invariant per process. `ApiInv`: at most one signal has a shutdown under way, and once that is past the closing
of the server no connection is left but those their clients gave up, and none can come. A handler whose client has gone counts in neither. `WorkerInv`: no signal stops a worker that is not up, and
once the jobs are over none is active. That only one shutdown runs is the test of `shuttingDown`; without it the
second `pool.end()` rejects. The safety half of `ApiShutdownEnds` and `WorkerShutdownEnds` is proved too: while Redis
is there a process that is draining has a step to take (`ApiGoesOn`, `WorkerGoesOn`) - the pool comes back, because a
client is held by a handler in a query only (`HandlerInv`) - and what is under way gets less with every step
(`HandlersShorten`, `WorkShortens`); only a request on a connection that was kept alive adds to it.

*BrowserProofs* is about `Sessions` and `Navigation`, the two halves of a tab. It proves `ExpiredTokenHasNoSocket`, `LiveIsTrue`, `ToastsAreOwn` and, where no token lives longer
than a timer can wait (`Lifetime <= MaxTimer`), `OnlyLateAnswersMix`. `IInv` says that only the session's client socket has a
linked connection or anything on its way to it (`SocketInv`), that a connection's timer is still to come and not later
than its token's expiry (`TimerInv`), that an open socket has a connection or will hear why not, a cut one neither (`LiveInv`), and
that what ends a session is only ever said of an expired token (`EndInv`, the part that needs the hypothesis).
Of the router it proves `PageSuitsSession`. `NavInv` adds that a navigation past its guard is still one the
guard lets through: whatever changes the session starts another navigation, which supersedes it. `HopsTheorem` is the
safety half of `NavigationSettles`: the guard never sends back what it redirected to (`RedirectsOnce`), so each
navigation is at its end after three steps of the router.

*PagedListProofs* proves `RefreshesAreBounded`, `PendingIsRefreshed` and `ClickedPageIsShown`. The first two are
inductive with the types and the finiteness of the loads in flight; the last needs `ClickInv`: after a click nothing has come across
there is one load at a time and no timer beside it.

*TransferFormProofs* proves `RecipientIsNamed`, `FieldIsExplained`, `CardIsPolled`, `NoDoubleSend` and
`ResultIsLatest`. `IInv` adds that a lookup never asks for the user that an error is about the
name in the field unless it came late and that a name with neither recipient nor error has a timer or a lookup of it
(`FieldInv`), that the POST in flight is the only one and its transfer the latest (`CreateInv`), and
that a name in the field or a POST under way is owed one transfer (`SendInv`), which makes counting inductive.
`PollsShorten`, the safety half of `PollsEnd`, counts what is left of a transfer's polling from before its POST is
answered: no use of the form ever raises it, so a receipt is asked for at most `PollLimit + 1` times.

The formulas that only a theorem states (`DoubleEntry`, `SomeoneRuns`, `CallsShorten`, `WaitersWaitForMovers`, `ApiGoesOn`,
`HandlersShorten`, `WorkerGoesOn`, `WorkShortens`, `NavigationGoesOn`, `HopsShorten`, `PollsShorten`), and the invariants
they need, were checked by TLC on the instance of their module's run before they were proved.

Only model-checked: the liveness properties (`CallEnds`, `ReceiptsResolve`, `RequestsSettle`, `EveryProcessEnds`,
`ExpiredIsSignedOut`, `LinkAppears`, `PollsEnd`, `NavigationSettles`, `ApiShutdownEnds`, `WorkerShutdownEnds`), as liveness
under fairness and ENABLED are outside the prover's reach. `RecoveryRevives` and `TransferAnswered` do not hold.

## Where the code and its documents disagree

1. **Recovery does not revive a receipt behind a failed job** (`receipt.queue.js:18`, run ReceiptRevive). The kept failed job makes every re-enqueue a no-op for seven days, after `markReceiptFailed` failed once: the trace goes from the last failed attempt over the handler's failed UPDATE (`MarkReceiptFailedErrs`) to a scan that finds the receipt and a re-enqueue that leaves its job failed. A hundred such receipts, being the oldest, keep recovery from younger ones too.
2. **A transfer is not answered while Redis is away** (`redis.js:6`, run TransferRedis). With `maxRetriesPerRequest: null` the enqueue waits instead of rejecting, after the money has moved. The unit test's queue rejects.

Also visible in the models, without a run of its own:

- *Parallel starts can fail* (`seeder.js:16`; README.md:340): the seed runs outside the advisory lock, and the loser of the race exits with 23505 in `Accounts`. No data is harmed (`AccountsHaveWallets`, `AdminIsSeeded`).
- *The previous user's balance can be shown to the next one*, when the answer to a wallet request outlives its session (`wallet.js:13`) and after a login over a session, which keeps it until the refresh is answered (`auth.js:39`, `App.vue:30-41`); a *late 401* ends the session that is there now, and so does a *wrong password* typed over a session (`http.js:45`). All are the exception of `OnlyLateAnswersMix`.
- *A received transfer can be read by the next user* for as long as its toast stays, seven seconds (`App.vue:36-39`).
- *The header says Live on a broken link* until a heartbeat is missed (`realtime.js:22`).
- *A late lookup error hides a valid recipient* (`TransferForm.vue:53`): the template shows the error first.
- *A transfer whose client has gone can be cut off by a shutdown* between its commit and its enqueue (`server.js:47`); its receipt is left to the recovery.
- *Refreshes go on behind a list that was left* while a load was under way when it was (`usePagedResource.js:23`), one request every few seconds as long as its receipts are PENDING.
- *A token that lives longer than 24.8 days* is reported expired early (`sockets/index.js:35`; README.md:277), with which `OnlyLateAnswersMix` fails: its theorem has `Lifetime <= MaxTimer` as a hypothesis.
- *One failed refresh ends a list's refreshing* (`usePagedResource.js:25`; README.md:138).
- *The health check is not answered while Redis is away* (`health.routes.js:18`), where `openapi.yaml:165` has a 503: the probe waits like every Redis command, and the request with it.
- *The dashboard of one user can be on the page while another signs in* (`LoginView.vue:26`): a login sent from a form that was left is answered when somebody else is signed in, and changes the session under the page.
- *A verdict that waits for a client when the pool ends is never sent* (`worker.js:57`): the `failed` listener is not awaited, so the receipt stays PENDING behind its failed job, as in 1.
- *The ledger's listing is not in the order of its entries*: `wallet.repository.js:50` orders by `created_at`, which is the start of the transaction, so a transfer that waited for a lock is listed below the one it waited for, and the first line's `balance_after` is not the balance. The stored ledger is in order by id (`BalanceIsLedgerTip`).
- *500 for three kinds of bad input* (`error-handler.js:9-24`): an unreadable body, an undecodable path parameter, text with U+0000.

## What is not modelled

The text of receipts and the expiry of presigned links: data no property tells apart. `BIGINT` width and the
`MAX_SAFE_INTEGER` check of the type parser: balances are unbounded integers. Configuration and logging: read
once at start, and text; what they set are the modules' CONSTANTS. Toasts of the user's own actions, formatting, layout and the API documentation. Each is a row of
`components` in `PROJECT.json`.

## Plan

Done: all modules of the table above, the proofs of their safety, and of what most liveness properties rest on
besides fairness.

Next, in this order:

1. The safety half of `ReceiptsResolve`: a measure over the attempts a receipt has left, beside `PendingIsCovered`, and of `LinkAppears` beside `PendingIsRefreshed`.
2. The composition of `TransferService` with `ApiProcess`, so that the enqueue of a stop is that of a receipt, and of `WorkerProcess` with `ReceiptWorker`.
3. `BIGINT` balances and the type parser's limit, as a bound in `TransferFunds`.
