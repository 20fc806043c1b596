# WSP-Finance in TLA+

A verification development for WSP-Finance: TLA+ modules translated from the backend
(`src/backend`) and from the parts of the frontend (`src/frontend`) that keep state, TLC
configurations that check them on small instances, and TLAPS proofs about the core.  Paths
below are relative to the repository; services are under `src/backend/src/services/`.

## The system

The backend is one Node.js process (Express, Prisma, PostgreSQL), but several may run.
JavaScript runs a handler without interruption between two `await`s and nothing protects
what it read before an `await`: **every awaited query is a point where other requests
run**.  `prisma.$transaction` commits or rolls back as a whole, its `increment`s are
row-locked, and a unique index is the last word.  This is the whole concurrency model, and
every module uses it: reads and the transaction that follows are separate actions, the
transaction is one.  The frontend is a React application; its tabs share `localStorage`,
and inside a tab callbacks and answers interleave in the same way.

| Component | State | Operations | Correct when |
|---|---|---|---|
| Bank movement review (`BankMovementService`, Telegram buttons) | `BankMovement` rows | ingest, approve, reject, merge, confirm and cancel from Telegram | a movement is booked at most once, never after it was discarded; APPROVED means booked |
| Transactions and balances (`TransactionService`) | `Transaction`, `Account.balance`, `closedUntil` | create, delete | balance = opening balance + live paid transactions; closed periods admit nobody |
| Audit log (`AuditLogService`) | `AuditLog` rows | logSync, logAsync | rows are appended with the balance change and chain up to the balance |
| Bridge transfers (`BridgeService`) | two legs per transfer | executeTransfer | both legs or none, a keyed transfer happens once |
| Recurring pro-labore (`RecurringProLaboreService`, `CronService`) | schedules, pendings | daily generation, confirm, cancel | one payment per pending whatever crashes or races; settled pendings stay settled |
| Outbox and AI insights (`OutboxService`, workers, `AiInsightService`) | `OutboxEvent`, `AiInsight` | enqueue, claim with lease, retry, handle, dismiss | a job queue: tried until done or dead, never forgotten; no insight without its transaction |
| Invites and members (`InviteService`, middlewares) | `WorkspaceInvite`, `WorkspaceMember` | create, revoke, accept, reject, remove, enter | every membership rests on an invite that was accepted; who enters had the rank |
| Telegram (`TelegramLinkService`, `TelegramLinkTokenService`, `TelegramContextResolver`, `TelegramBotService`) | codes, links, destinations, receipts | pair, revoke, add and choose destinations, file and decide documents | one use per code; documents stay in the link of their chat and with members |
| Sessions (`AuthService`, `PasswordResetService`, `VerificationService`) | refresh tokens, codes | register, verify, login, refresh, reset | one session per login, no session outlives a reset |
| Browser session (`AuthProvider.tsx`, `shared/lib/axios.ts`) | access token, stored refresh token, refresh queue | restore, login, logout, calls | nobody is logged out without cause; every call ends |
| Ingestion (`FinancialIngestionEngine`, `FuzzyDeduplicationService`, imports, webhook, OCR) | `BankMovement` rows, fuzzy mode | parse dates, examine, insert chunks | no line is lost; none with an identifier or a readable date comes twice; the counts are true |
| Accountant cache (`AccountantCacheService`, `CronService`, `AuthService`) | cache rows, running flag | rounds with timeouts, refresh, read | the cache converges; logins are not refused for nothing |
| Accounting export (`Export*Service`, `AccountingExport*Service`, `useExportDominio.ts`) | configuration, mappings, archive, files | validate, generate, archive, link | files are complete and recorded; what validates generates |
| Files (`UploadService`, `WorkspaceService`, `useTransactionMutation.ts`) | object storage, keys in rows | receipts, certificate | no row names a file that is not there; the quota |
| Workspaces on the client (`axios.ts`, React Query keys, mutation hooks) | address bar, query cache | navigate, fetch, change | a workspace's list is its own and fresh |
| Routes and middlewares (`routes.ts`) | none | the chain of each route | who passes a chain had the rank it asks for (`Members`); that a controller has the right chain is the table itself, read from the code and not a property |
| Accounts, categories, dashboard, administration | rows | single reads and writes | not a protocol of several steps |

How they interact: approvals, creations, deletions and bridge transfers all move
`Account.balance` and write the audit log in the same database transaction; creating an
expense enqueues an outbox event in it, which a worker later turns into an insight;
confirming a pro-labore pending calls the bridge under an id stored on the pending; the
cron generates pendings and refreshes caches; imports, the open-finance webhook and the
Telegram bot file movements, which the review books; a request enters a workspace through
the middlewares, under a header the frontend takes from its address bar; a login may wait
for the accountant cache.

The behaviours that are hard: two requests on one row whose guard was read before;
retries after a transfer that did commit; a worker that dies or outlives its lease; the
timeout of a cron round that does not stop the work; two stores without a common
transaction; answers that arrive at a page that has changed; one step of several failing.
`PROJECT.json` lists the hazards at their lines, with the properties about them.

## Modules

| Module | Models |
|---|---|
| `Journal` | the abstract contract of all that moves `Account.balance`: with every change its journal entry, entries only appended |
| `Ledger` | bank movement review, transactions, Telegram buttons, audit and closed periods of one workspace |
| `Bridge` | `BridgeService.executeTransfer`, one action per await, with deletions of legs |
| `ProLabore` | schedules, calendar, cron, confirmation and cancellation, manual transfers; extends `Bridge` |
| `JobQueue` | the abstract promise of the outbox, safety and liveness |
| `Outbox` | `OutboxService`, `OutboxWorker`, the insight handler and `AiInsightService` |
| `Routes` | the routes and the middlewares before each of them |
| `Members` | `InviteService` and the middlewares every request of a workspace passes; extends `Routes` |
| `Telegram` | pairing codes, links, destinations, the bot's commands, documents and buttons |
| `Sessions` | accounts and sessions on the server |
| `Browser` | the tabs of one browser, composed with `Sessions`, which it extends |
| `Ingestion` | imports, webhook and documents up to the rows that are reviewed |
| `Cache` | the accountant's dashboard cache and its callers |
| `Export` | validation, generation, archive and links, with the modal |
| `Storage` | the object storage and the failures its users share |
| `Files` | receipts and certificates between browser, storage and database; extends `Storage`, as `Export` does |
| `Viewer` | the preview of a receipt: links and files that arrive in any order; composed with `Files`, which it extends |
| `Tenancy` | address bar, header, query cache and changes in one tab |
| `Sums` | what a sum over a finite set is, and the inductions the other proofs need |
| `LedgerProofs`, `ProLaboreProofs`, `MembersProofs` | the theorems about the modules of these names |
| `BrowserProofs` | the theorems about `Sessions`, `Browser` and `Tenancy` |
| `WorkerProofs` | the theorems about `Outbox` and `Cache` |
| `IngestionProofs` | the theorems about `Telegram` and `Ingestion` |
| `StorageProofs` | the theorems about `Files`, `Viewer` and `Export` |
| `MC...` | the instances TLC checks, one for each run |

Operators marked `\* mutant` are plausible mistakes of the definition next to them; no
specification uses them.  `PROJECT.json` pairs each property with the mistake that breaks
it, and names for each definition the lines it stands for.

### Ledger

`movement`, `ledger`, `balance`, `audit`, `outbox` and `closedUntil` are tables or columns;
`req` holds, per request in flight, what its handler has read.  A deleted transaction stays
in `ledger` as a tombstone so that ids are not reused; an AuditRow keeps the three
numbers the code writes.  Amounts are signed as `updateBalance` gets them.  The handlers:

* approve: `ApproveRead` (status), `ApproveGuard` (closed period, role, balance),
  `ApproveCommit` (the transaction, where `updateMany(status = PENDING)` is the guard that counts);
* reject and the Telegram cancel: `RejectRead`/`OcrCancel`, then `RejectCommit` by id alone;
* Telegram confirm: `OcrConfirm` reads the movement, then calls approve, which reads it again;
* merge: `MergeRead`, `MergeCommit` by id; `sources` abstracts `rawPayload` to the movements whose payload it still contains;
* create and delete: guard, then commit;
* `Abort`: a request dies between two awaits (restart, query timeout, serialization failure);
* `CloseBooks`: the backend never writes `closedUntil`; an administrator does.

Left out: description, category, attachment (see Files), metadata; the answer of the
idempotent approve; `Decimal` precision (amounts are integers of cents).

### Bridge and ProLabore

A call of `executeTransfer` is a record in `call` that walks through access, lookup, funds,
recheck, write and relookup.  Both legs, both balances and both audit rows are one action;
`Unique` is the index on (workspaceId, fitid).  Ids chosen by a pending are retried, ids of
manual transfers are fresh.  `CheckAccess` refuses a pending's transfer when the books of today are
closed in one of its workspaces (it is the owner's of both and dated today).  A manual transfer carries the date its caller chose
and may be an accountant's, whom a BUSINESS workspace lets through: there refusal is a choice.  `ProLabore` adds what calls it: `ConfirmRead`, `ConfirmClaim`
(stores `bridgeId` by compare-and-set), the transfer, `ConfirmComplete`/`ConfirmFail`, the
cancellation in two steps, the cron's run of one read and an upsert per schedule, and the
calendar in which day 31 becomes the last of the month.

### Outbox

Time is relative to the present, so that states repeat: `due` of an event is the distance to
`nextAttemptAt`, `lag` of a batch the age of its one `now`.  A batch fetches, claims each
event for `Lease`, runs the handler (context, provider, insight) and marks the outcome; a
crash leaves the row in PROCESSING until the lease is over.  Deleting an expense deletes its
insight with it (the foreign key cascades).

### Members and Routes

`invite` and `member` are tables; `req` is what the handlers have read; `admitted` is a
history variable, the invites that have created a membership.  Creating an invite takes three
awaits (`InviteGuard`, `InviteLookup`, `InviteCreate`).  Revoking and refusing are a read and an
update by id.  `AcceptRead` refuses REVOKED and ACCEPTED and turns a late invite into an
`AcceptExpire`; `AcceptCommit` is the one database transaction, which the unique index on
(userId, workspaceId) rolls back for somebody who is a member already.  `EnterWorkspace` and
`RbacCheck` are `WorkspaceMiddleware` and `RbacMiddleware`, which read the membership one after
the other; which of them stand before a route is read from the tables of `Routes`, of which `Members` uses the set of
chains.  The download of an export is the one route whose path names the workspace: `Addressed` is its
`WorkspaceRouteParamGuard`, which supplies a missing header and refuses one that names another workspace.  Ranks are those
of `roleHierarchy`, doubled.  The owner is never invited or removed
and is not part of the state; e-mail addresses are identified with guests; who may call an
operation (the owner, or the guest whose address the invite names) never changes and is built into `OwnerStep` and `GuestStep`.

### Telegram

`code`, `link` and `dest` are tables in order of `createdAt`, `receipt` the movements filed from
chats, `member` the memberships, which come and go.  Verifying a code is a read and an `updateMany`
guarded by `usedAt = null` (`ConsumeRead`, `ConsumeBurn`).  `consumeCode` then works in a
transaction of PostgreSQL's default isolation, READ COMMITTED: its query for older links and its writes
are two steps (`ConsumeFind`, `ConsumeLink`), since nothing locks a row that does not exist yet.  The
other transactions only write, and are one step each.  A document, and a button pressed below it,
walks through `Resolve`, `ResolveDests`, `ResolveMember` and then files the receipt or has it decided
(`Press`, `Confirm`): the chat's destination is resolved anew for the button, and its signature
names the workspace, the movement and the action.  Left out: download, OCR and message texts, code hashes.

### Sessions and Browser

`user`, `token` and `code` are tables; a deleted token is absent again and ids are not reused.
Register, resend, verify, login, refresh and reset have one action per await; a refresh finds its
token (`RefreshFind`, which may find it expired and delete it), deletes it and creates the successor, and a
reset changes the password, marks the code and deletes the sessions in three steps.  Passwords are
generations.  `purged` and `raced` are history: what deletions have seen, and which logins had
overlapping refreshes.  Expiry is a choice whenever something is looked up.

`Browser` gives each tab its page, its access token and `isRefreshing`, each API call its
state in the refresh queue, and all tabs one `stored` token.  A tab's session request is the
server's slot of the same name, so every interleaving of server awaits with other tabs is there, also
those where the page has gone.  `disturbed` records what may end a session: a lost answer,
a page left in the middle of a refresh, two tabs refreshing at once, a logout, an expiry.

### Ingestion

A line is what is sent; `Movement` is what `ingest` makes of it.  `ParseDate` takes a readable date down to its
midnight.  A missing or unreadable one (an OFX date with a zone suffix, `20260120100000[-3:BRT]`, is unreadable)
becomes the instant at which the line is parsed: a reading of the clock `now`, which moves on between lines,
imports and documents.  `Unreadable` is the set of such dates, and `Files` and `Deliveries`
are what may come through the import and the webhook; a webhook movement always has a date, readable or not.

An import is a `job` that examines its lines one by one against the rows of now (`Examine`, with
`FallBack` when `similarity()` fails and `QueryFails` for any other error), then inserts chunks, where the two
unique indexes decide.  A chunk is inserted (`InsertChunk`), rolls back (`ChunkFails`), or commits and its answer is lost
(`ChunkUnanswered`): the last two reach the same `catch` and are counted as failed.  What two descriptions have in common is given
by the relations `Alike` and `WordsIn`.  Documents come without hash and identifier, dated when they
are filed; reviews and merges change rows meanwhile.  `bound` says whether the row-level policies bind the
database role: both cases are checked (see below).  The service is configured for `auto`, its default mode.

### Cache

One `call` is one `refreshCache` with who waits for it.  Workspaces of a batch are aggregated and
stored side by side, each in two steps; a failing one keeps the final removal from happening.
`Timeout` ends the waiting and not the call.  A login compares the rows with the memberships it came
with, waits for one refresh and reads once more.  What an aggregate says is one number, `figures`.

### Export, Files, Viewer

`Export` keeps every read of a generation apart: configuration, rows, mapping for the validation,
and the same again for the file, then the upload, the commit and its cleaning up.  The modal keeps
what its last validation said.  A file is the set of its transactions; `calm` and `untouched` are
history: whether anything changed since the request began.

`Files` has three parties: tabs that ask for a signed URL (quota), put the file and create the
transaction; deletions, which delete the row and then the file; certificate uploads, which store the
new file, change the row and delete the old file, or undo the first step.  A creation or an update may go through without
an answer (`doubtful`).

`Viewer` adds the two components that show a receipt.  A `press` is one click on a preview button: it is signed a link
(`SignLink`), the answer opens the viewer (`OpenLink`, `LinkFails`), and the effect of `AttachmentPreview` fetches the
file, which arrives or fails (`FileArrives`, `FileFails`).  `viewer` is the state the hooks keep between them, and
`active` the flag an effect's clean-up clears.  Nothing orders the answers of two presses; the viewer may
be closed, and the transaction deleted, in between.

### Tenancy

`entry` is the query cache: for each query and workspace its data, whether it is invalid, and the
fetch under way.  `Header` is the request interceptor: the address bar when the request leaves,
also when it leaves again after a 401.  `Move` is a navigation: what unmounts is aborted if it listens to the
signal, what mounts is fetched if needed.  `Succeeded` is the `onSuccess` of the three hooks
that change books.  `told` is what the tab knows to have changed.

## Runs

| Run | Instance | Shows |
|---|---|---|
| `ledger` | two requests, an income and an expense movement, one account, two transactions, one closing day; 1.1 million states | balances equal the live transactions; the audit trail chains; a movement is booked once, APPROVED only when booked, never after it was discarded; closed periods admit nobody; the ledger implements `Journal` |
| `prolabore` | two callers, one schedule due on the 31st of a two-day month, one pending, one manual transfer, money for one of them, one leg deleted by hand; 53 thousand states | COMPLETED means transferred, money equals the legs, settled stays settled, `Journal` (the audit chain is proved) |
| `outbox` | two workers, one event, three attempts, lease and maximal backoff of 2 ticks, batches up to 3 ticks, two crashes; 145 thousand states | the outbox implements `JobQueue` with its liveness; PROCESSED was handled; insights have their transaction; dismissed stays dismissed |
| `members` | two requests, one guest, two invites with any role, a PERSONAL workspace, every chain of middlewares, with and without the header; 152 thousand states | each member holds the role of an accepted invite; who passed both middlewares had the rank; closed invites admit nobody |
| `telegram` | two requests, one user, two chats, two codes, two links, two destinations, one receipt; 1.7 million states | one link per code; documents stay in the link of their chat; neither a document nor a button of a non-member gets through |
| `sessions` | two requests, one account, two codes, three tokens, two passwords; 676 thousand states | what outlives a reset overlapped it; one session per login unless refreshes overlap |
| `browser` | a tab with two calls and one with one, one account, five tokens for logins, restores, expiries and losses; 251 thousand states | a session nothing disturbs survives; every call ends (liveness) |
| `ingestion` | two imports of two files and a delivery, two unreadable dates, chunks of two, a clock of three instants, one document, one fault, one review, with and without policies that bind; 1.5 million states | no line is lost; none with an identifier or a readable date comes twice; the counts are those of the rows |
| `cache` | one accountant, two clients, two calls at a time, batches of one, one change, one request, one fault; 926 thousand states | refusals have a cause; answers name the clients of now; the cache converges (liveness) |
| `export` | one request, two transactions, two keys, three periods, one edit, one fault; 1.4 million states | files are complete, recorded and stored; what validates generates |
| `files` | two tabs, two deletions, two certificate uploads, two transactions, three keys, one fault, two presses of preview buttons, under the constraint `Bounded`; 189 thousand states | rows name files that are there; the quota is exceeded by overlapping submissions only; the preview shows the receipt of its transaction |
| `tenancy` | two workspaces and the hub, three navigations, one 401 or failure, two changes; 607 thousand states | transactions shown are the workspace's own and show the changes this tab made |

The type invariants hold on the same instances; the runs leave them out because they are proved.

Why the bounds suffice: every race in these handlers is between two requests on one row, one
of which has read before the other writes; two requests can be at any two steps at once.
Two movements are needed for merges and for two bookings of different sign, and two
transactions for a second booking of one movement.  Two ticks of lease and three of lag let a
batch outlive its lease, and three attempts give a first, a middle and a last failure.  Two
invites of one guest let a second one be accepted after a removal, or while the first is still being
answered; a further guest would share no row with the first.  Two chats of one user and two codes let one
code reach two chats, two codes one chat, and a second link follow a first.  Three tokens let two refreshes of one
login meet and a login follow a reset; in `browser` five tokens allow for a login and two
expiries of a tab with two calls, so that a call sent again is refused again.  Chunks of two split statements of
three lines, and the statements hold a pair alike, one identifier with two descriptions, one line without identifier, one
below the minimal amount, one day written with two times of it, and two lines that differ in unreadable dates only.  The clock's three
instants lie within the window (one tick) of each other or not, and `Day` is longer than all of them: an undated
line may be near a midnight or far from it.  Batches of one make the cache's batches follow each other, a second
call lets one refresh overtake another.  In `export` one request suffices, since exports share nothing they change but the
archive, whose keys are random; edits happen between any two of its reads.  In `files` two of each party race for the
quota, a row or the certificate, and one key more than rows lets a file be orphaned; two presses let the answers of one
overtake those of the other.  The constraint `Bounded` keeps the viewer from multiplying the states of what it shares nothing with: once a
receipt is looked at, no certificate is replaced and one browser and one deletion are at work.  Three navigations leave a workspace, enter
another and come back.
Deadlock is not checked in `ledger`, `ingestion`, `tenancy` and `browser`: transactions, imports, navigations and tokens are bounded and run out,
so those instances can stop.  Requests, keys and the like are symmetric; runs with symmetry check safety only.

Fairness is assumed in three modules.  `Outbox`: time passes and a worker that can
step does so, which is what a process in a loop of `processBatch` does, with crashes bounded; the
repository contains no such loop, so liveness is that of the queue **when something runs the
worker**.  `Browser`: the server goes on with what it has received, the event loop delivers what
has arrived, a navigation takes effect; the user is never assumed to act.  `Cache`: the cron's schedule fires and a query that does not fail
ends; changes, requests and faults are bounded, so that "nothing changes any more" is reached.  Requests of users are never assumed to finish.

## Disagreements found

What the code does against what a reader, a comment or a test expects.  The models contain these steps; the properties
say what remains true with them.

Ledger and bridge
1. A rejection (or a Telegram cancel) that read PENDING overwrites an approval that commits in
   between: REJECTED with its money booked (`BankMovementService.ts:256`).
2. Of two merges that overlap, one deletes the row that kept the other's payloads (`BankMovementService.ts:115`).
3. Two transfers pass one check of the funds (`BridgeService.ts:163`).
4. A cancellation overlaps a confirmation that goes on to pay (`RecurringProLaboreService.ts:186`).
5. Only schedules due exactly today are generated: a day the cron misses is never made up for (`RecurringProLaboreService.ts:205`).
6. `balanceBefore` of an audit row is read outside the transaction and may belong to another state; the
   audit properties rely on `balanceAfter` only.

Invites, sessions, Telegram
7. An invite its guest refused can still be accepted (`InviteService.ts:122`), and an answer in flight
   overwrites another one.
8. Two codes consumed from one chat at once leave two ACTIVE links (`TelegramLinkService.ts:138`).
9. The "Ignorar" button carries the signature of the confirm action and is always refused
   (`TelegramBotService.ts:283`, `:343`); a default changed between a document and its button refuses that
   button too; the destination-choice buttons (`TelegramContextResolver.ts:131`) have no handler.
10. Two overlapping refreshes leave one login with two sessions (`AuthService.ts:144`); a login or refresh that
    began before a reset outlives it (`PasswordResetService.ts:71`).
11. A login is refused when a change of memberships or a failing query keeps the cache incomplete (`AuthService.ts:128`).
12. Two tabs refreshing at once, or a page left in the middle of a refresh, lose the stored session.
13. `pending_invite_token` is written and never read (`InviteLandingPage.tsx:27`).

Ingestion and outbox
14. The role check refuses roles that bypass row-level security (`lib/checkEnvironment.ts:3`), so the policies
    bind the server; `lib/prisma.ts` sets the tenant only for model operations inside a request's context.  Under them the raw queries of
    `FuzzyDeduplicationService.ts:101` see no candidate, every chunk of the open-finance webhook fails, and the bot's filing and
    deciding, the outbox handler's lookups and the cron's risk analysis find no rows.  `Ingestion` checks both cases; `Telegram`, `Outbox` and
    `Ledger` describe a role the policies do not bind on these paths.
15. Masking an outbox payload replaces two all-digit groups of a UUID as if they were a phone number
    (`lib/piiMasking.ts:32`): about one expense in sixteen is never analysed.
16. The deduplication hash leaves the account out: equal lines of two accounts are one movement.  A line whose
    movement was merged away comes back with the next import, and one that was left out for a pending movement with another hash
    comes in with an import after that movement's review, since only pending rows are compared
    (`FuzzyDeduplicationService.ts:107`).

Export and files
17. The validation never looks at the CNPJ that the generation needs (`ExportService.ts:55`).
18. A deactivated mapping can never be created again (`AccountingExportMappingService.ts:103`).
19. A validation answered after the modal was closed or changed shows its old result (`useExportDominio.ts:57`).
20. A commit without an answer deletes the file it has recorded (`ExportArchiveService.ts:115`), or the
    certificate the row names (`WorkspaceService.ts:172`).  Two certificate uploads at once orphan a file (`WorkspaceService.ts:161`).
21. A creation whose answer is lost is booked twice by a retry and orphans a receipt (`useTransactionMutation.ts:130`).

Frontend
22. Confirming a pending refetches the dashboards of both workspaces with one header: the dashboard of the other one shows this one's
    figures (`useRecurringProLabore.ts:47`).  A creation sent again after a 401, or after its upload, is booked in
    the workspace the user has moved to.  `useCreateBridge.ts:14` invalidates a key no query has.  A list loading for the first time while a
    creation is confirmed stays stale.
23. The inbox's "load more" starts after a cursor row that may have been decided: the query then skips a pending one
    (`BankMovementRepository.ts:33`); a load of another route that answers late overwrites the page (`ApprovalInboxPage.tsx:106`).

Dates of lines
24. A line whose date is missing (`FinancialIngestionEngine.ts:145`) or unreadable (`:162`) is dated with the instant of its
    import, not truncated.  Its hash changes with every import: without an identifier it gets a second row
    when it is delivered again more than two hours later (or at once if its amount is below one real, which the fuzzy check
    leaves alone), although "duplicatas fuzzy não são inseridas novamente" (`_reversa_sdd/sdd/imports-open-finance.md:64-66`).
    `ParseDate` has it happen in the `ingestion` run: TLC finds a counterexample, without any fault, to `LinesComeOnce` with its identifier-or-readable-date
    condition left out.  The other way round, two such lines of different days are within the window when their imports
    are, and the second is left out as a duplicate: `NoLineIsLost` and `LinesComeOnce` say what holds, with the date a line was given.
25. A chunk that commits without an answer is reported as failed with its rows in place (`FinancialIngestionEngine.ts:125`).

## Proofs

All theorems hold for every value of the constants under the named ASSUMEs of the modules, which only say what
kind of value a constant is and that marks such as `Absent` are not data: days and sizes are numbers, a statement is a sequence of
lines, a date is an instant or unreadable, `"document"` is no import, there is an accountant, deactivating a mapping keeps its other columns.

`Sums` is what the proofs about money, sizes and batches rest on.  The library's induction rules take an operator as a
parameter and cannot be used, so induction is done by minimal counterexample: among the subsets of a finite set, or
the numbers, that break a claim there is a smallest one (`SmallestBadSet`, `SmallestBadNumber`, from the library's well-founded
orders), and the claim holds of what is left when one element goes.  `SumUnfolds` gives the equation of the community modules' `SumFunctionOnSet`
for every finite set, and from it a sum has a type, changes by what is added or removed and grows with its set.

### LedgerProofs

For every set of movements, accounts and requests, every statement and every bound:

* `TypeCorrect`: `[]TypeOK`, from `TypeInv` = `TypeOK` and "a deletion in flight refers to a
  row of the ledger" (ids are never reused), which `DeleteCommit` needs;
* `BalancesAddUp`: every step leaves an account's live rows and its balance alone, or adds or removes one row
  together with its amount (`BookBalances`, `DeleteBalances`); `Sums` turns that into the equation;
* `MovementsAreBookedOnce` and `ApprovalsAreBooked`, from `BookingInv`: a movement that is
  absent or pending has no transaction.  Without it `BookedOnce` is not inductive: an approval
  of a pending movement that already had one would break it.  A rejected movement may be booked
  (disagreement 1), so the invariant is about unreviewed movements only;
* `DiscardedStaysUnbooked`: only `ApproveCommit` books, and only a pending movement;
* `ClosedPeriodsStayClosed`, an action property: while the books stay closed no step makes a late writer.  A commit changes
  only the posting of its own movement or transaction (`SamePostings`), so a waiting request is as late after it as before
  (`WaitingStaysHarmless`), and a request's own step passes the guard that the closed date stops (`OwnStepIsHarmless`);
* `AuditTrailIsAChain`: every step keeps each account's chain or appends one row that extends it (`Extends`);
* `LedgerImplementsJournal`: initial states map to initial states and steps to steps or stutters of `Journal` (`JournalStep`).

### ProLaboreProofs

For every number of callers, schedules and pendings and every calendar:

* `ProLaboreTypeCorrect`; `CompletedMeansTransferred`, from `ProLaboreInv`: a call that is done has both legs written, and
  the call of a confirmation runs the transfer of its own pending (`Sound`).  Without it the step that stores COMPLETED
  could follow a call of another pending.  Legs are never forgotten (`LegsRemain`);
* `TransfersAddUp`: the write of both legs and the deletion of one change the live legs of an account and its balance by the same
  amount, and the unique index lets no leg be written while it is there;
* `SettledIsFinal`, an action property: the cron creates pendings that are absent, and the other writers test the status they change;
* `TransferTrailIsAChain` and `TransfersImplementJournal`: every step leaves an account's books alone or appends one row with
  its balance (`Booked`), which is a stutter or a step of `Journal`.

### MembersProofs

For every set of guests, invites and requests and for both kinds of workspace:

* `MembersTypeCorrect`, `MembershipsRestOnInvites`, `AcceptedInvitesAdmitted` and `EntriesHadRank`,
  all from `MembersInv`.  What makes it inductive is `AdmittedExist`: an invite that has made a
  member exists, so `InviteCreate` cannot put another guest or role in its place, and what
  memberships and entered requests rest on is never rewritten (`Kept`).  `EntriesHadRank` also needs
  `MembershipsRestOnInvites`, for the membership that `RbacCheck` reads;
* `ClosedInvitesStayClosed`, an action property: only `AcceptRead` adds to the acceptances in
  flight (`OtherStepsDoNotAccept`), and it refuses closed invites (`AcceptReadSparesClosed`).

### BrowserProofs

`Sessions`, for every number of accounts, requests, codes, tokens and passwords:

* `SessionsTypeCorrect`;
* `OnlyOverlapsSurvive`, from `ResetInv`: deletions have seen no password newer than the account's
  (`PurgesFollow`); what a login or refresh about to store a session has read is as new as the last deletion or will be
  marked late (`Justified`), so that what it stores after a deletion is marked; and the row of a code that was found
  stays (`Known`);
* `OneSessionPerLogin`, from `RotationInv`: logins are tokens already issued (`LoginsIssued`), so a new
  login shares its name with none, and a login not marked as raced has either one session, which at most one request
  is about to delete, or one request about to store the next (`OneSuccessor`).

`Browser`, for every number of tabs and calls:

* `BrowserTypeCorrect`, and `BrowserImplementsSessions`: every step of a tab is a step of `Sessions` or leaves the server alone, so that the
  theorems about `Sessions` hold beside the browser as well;
* `UndisturbedSessionSurvives`, from `SurvivalInv`: as long as nothing has disturbed it, the browser satisfies `Undisturbed`.
  A page waits for the request it sent (`PageFits`), the server refuses nobody (`AnswerIsLive`), one page at most exchanges
  the stored token (`OneReplaces`), and nobody else knows, or is about to delete, the token of an answer on its way (`AnswersApart`); so
  the stored token is live except while it is exchanged (`StoredIsLive`).  `SessionSurvives` alone says nothing of the time in
  between, which is when it could go wrong.

`Tenancy`, for every number of workspaces, navigations and repeated requests: `TenancyTypeCorrect`, from `TenancyInv`: the server answers
for a workspace only (`NamedEntry`), and a change is booked once (`ToBook`); `NoForeignLists` and `ListsShowChanges`, from
`CacheInv`: a list is fetched only while its page is open, under that page's header, and an answer is at least as new as what
the tab has been told of (`Sound`).

### WorkerProofs

`Outbox`, for every number of workers and events and all bounds:

* `OutboxTypeCorrect`; `InsightsHaveTransactions` and `ProcessedEventsWereHandled`, from `OutboxInv`: attempts stay
  below their maximum while an event is open (`AttemptsLeft`), an expense that is not written has no event (`UnwrittenHaveNoEvent`), and a
  worker that is about to report success has handled its event (`SuccessIsHandled`);
* `DismissalsLast`: no action but the upsert writes a dismissed insight, and the upsert keeps the mark;
* `OutboxImplementsQueue`: the safety half of the refinement, one step of `JobQueue` or a stutter for each step.

`Cache`, for every number of accountants, workspaces and calls and every size of a batch: `CacheTypeIsCorrect`, `NobodyIsLockedOut` and
`RefreshShowsMyClients`, from `CacheInv`.  `CallsFit` relates each stage of a refresh to the memberships and the rows of now: unless upset,
a refresh has the workspaces of its accountant to do, in its batch, in its hands or already in the cache, so another refresh can neither remove nor
miss one of them.  It is inductive only with `UpsetTogether`: two refreshes of one accountant at a time have seen the same
changes, so a refresh that removes rows by an old list of clients upsets nobody who has not been upset by the change itself.

### IngestionProofs

`Telegram`, for every set of users, chats, workspaces, codes and requests:

* `TelegramTypeCorrect`; `CodesLinkOneChat` and `ReceiptsAreFiledInTheirLink`, from `TelegramInv`: the rows a request has
  found exist and are its chat's and its link's (`Bounds`), which holds because rows stay and keep their owner (`Grows`); a
  used code is in one link or in the hands of one request (`CodesOnce`);
* `NonMembersStayOutside`, an action property: only the check of the membership lets a request through, for the very user and workspace it then acts for.

`Ingestion`, for every set of imports, statements of any length and chunks of any size: `IngestionTypeIsCorrect`,
`NoLineFallsThrough`, `ReportsAreTrue` and `LinesHaveOneRow`, from `IngestionInv`: a line sent, with the date it was given, has a row that looks
like it or is still in the import's hands (`LinesKnown`); `imported` lies between the rows of lines that did not fail and all rows of the
import (`RowsCounted`); what an import has in hand and its counters are
no more than it was sent (`LotsFit`); a row's date is that of its line at some instant (`RowsTaken`), so that rows of one readable day have one
date and with it one hash; and `OnceIn` is `LinesComeOnce` of any table.  The insertion of a chunk is a recursion over its lines;
`BatchIsLast` and the lemmas after it say by minimal counterexample what the table is after each of them, in which the indexes see
the lines of the same chunk too.

### StorageProofs

`Files`, for every number of tabs, deletions, uploads and failures:

* `FilesTypeCorrect`; `ReceiptsAreThere` and `CertificatesAreThere`, from `FilesInv`.  Each needs to know who holds a key: no
  two rows or submissions share one (`RowsApart`, `TabsApart`), a deletion's key is named by its own row only and by none after the
  commit (`DeletionsMatch`), receipts and certificates share none (`FamiliesApart`), and a new certificate is nobody
  else's until the row names it (`CertificatesApart`);
* `QuotaIsKept`, from `QuotaInv`: the rows of submissions that had none beside them fit the quota together (`PlainFits`), and
  still do with such a submission that has been measured (`MeasuredFits`), which has nobody beside it without both knowing (`CompanyIsKnown`).

`Viewer`, for every number of presses: `ViewerTypeCorrect`, `FilesBesideTheViewer` (the invariants of `Files` in the composition) and
`PreviewShowsItsReceipt`, from `ViewerInv`: links and files in flight are those of their transaction as long as it is there (`LinkIsOwn`), the viewer's
link is that of the selected one unless an error or a spinner hides it (`LinkOfSelected`), only the fetch of that link is
active (`ActiveIsLinked`), and the blob shown is that link's (`BlobOfLink`).

`Export`, for every number of requests, days, rows and files: `ExportTypeIsCorrect`, `ExportedFileIsComplete`, `ValidationSuffices` and
`RecordedExportIsStored`, from `ExportInv`: what a request has read of unchanged transactions is what there is (`RowsFit`), a calm request's configuration
and rows are those that were validated (`CalmFits`), a file between its upload and its row has no row unless a commit went
through unanswered (`KeyFits`), and no two requests are about to record or to remove one file (`FilesApart`).

Every safety property a run checks is thus a theorem.  Only model-checked is liveness: `CallsSettle`, `Converges` and the fairness half of
`OutboxIsAJobQueue`.  Their proofs need ENABLED, which the prover cannot expand.

## Not modelled

Profiles, accounts, categories, dashboards, administration and external data are reads and
single-row writes.  Parsing (the structure of OFX files, PDF, OCR, certificates) and formatting (the layout of an export line, message texts, prompts) are
functions of their input without state; where their outcome matters it is a choice.  The date of a bank line is not such a function, and
is modelled (`ParseDate`).  An amount that cannot be read makes `Decimal` throw before anything is written: that import changes nothing.  Rendering, forms and pages of
single calls keep no state that several steps share.  `logAsync`, the risk analysis and the keep-alive
queries of the cron are single calls nobody waits for.  The frontend's inbox page keeps its list outside the query cache; its races
are read from the code (23) and not checked.

## Plan

Further work: abstract specifications of `Ingestion` (a table of lines, each filed once) and of the pairing codes of `Telegram` (a
register that is claimed once), with refinement proofs as for `Outbox`, `Ledger` and `Browser`; a model of the approval
inbox's pages (23).

