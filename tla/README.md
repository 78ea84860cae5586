# A verification project for PDFDadi

PDFDadi turns uploaded PDFs into other PDFs, and lets people edit, keep and publish
documents in a workspace. This project models the parts of it where several actors
meet: the processing jobs with their workers, sweeps and allowance; the lease that
decides which process serves; the editor that must not lose the user's work, the
browser's draft store and the server's autosave behind it; saving into a workspace,
ingesting what was saved and versioning it; and the billing webhooks. Each part is a TLA+ module,
checked with TLC on a small instance; what matters most is proved with TLAPS for
every instance.

Paths below are relative to the repository. `UMS` is
`src/application/services/UsageMeteringService.ts`, `PJS`
`src/application/services/ProcessingJobService.ts`, `SJ`
`src/application/services/StuckJobRecoveryService.ts`, `H`
`src/infrastructure/jobs/ProcessingJobHandler.ts`, `W`
`src/infrastructure/queue/InMemoryWorker.ts`, `EP`
`src/application/editor/persistence`, `IS`
`src/application/services/DocumentIngestionService.ts`.

## 1. Inventory

| Component | State | Operations | Talks to | Hard behaviour | What makes it correct |
|---|---|---|---|---|---|
| Job state machine (`src/domain/jobs`) | none (pure) | `isTransitionAllowed`, `isTerminal`, retryable categories | every writer of a job row | two privileged edges, retry and recover | no write bypasses the table |
| Processing job lifecycle (`PJS`, `H`, `queueHandoff.ts`, `PrismaJobRepository.ts`) | the job row; the output object; each request's and handler's locals | create, queue, start, stage, complete, fail, cancel, retry, expire | queue, worker, storage, metering | compare-and-swap per write, no transaction over two of them; a fence on the attempt count | one run at a time; a result that is published stays; a failure leaves nothing behind |
| In-process worker and queue (`W`, `InMemoryQueue.ts`) | ready list, cancellation set, slots | pull, claim, attempt loop, dead-letter, `cancel` | lifecycle | lost with the web process; cancellation is a set in memory | at most one claim wins |
| Standalone worker (`src/workers/processingWorker.ts`, `DatabaseQueue.ts`) | none but its slot and a recently-pulled set | poll, claim, run, own sweep | jobs table only | never hears `worker.cancel`; its sweep is a second one | as above |
| Stuck-job recovery (`SJ`) | the listed rows | list stale, requeue / fail / confirm cancel, settle | lifecycle, queue, metering | decides from a snapshot | recovers each abandoned attempt once, charges it, within budget |
| Usage metering (`UMS`, `PrismaUsageRepository.ts`, `src/domain/metering`) | a counter per owner, meter and window; a claims table; an in-process fallback set | authorize, reserve, release, settle | submission, handler, sweep | increment-first admission; fails open; once-per-job settlement | the limit holds, nothing is minted, nothing leaks in fair weather |
| Submission (`lib/server/processingJobSubmit.ts`) | the reservation it holds | authorize, stage, create, dedupe, queue | metering, uploads, lifecycle | which failures give the reservation back | give back exactly what was taken |
| Instance lease (`src/infrastructure/config/instanceLease.ts`, `ingress/guard.mjs`) | one row with a holder and an expiry; each process's own belief | acquire, heartbeat, take over, release, drain | ingress guard | answers are old when acted on; failed beats, kills, restarts | never two processes serving; a standby takes over |
| Editor save state (`EP`: machine, coordinator, `writeScheduler.ts`, navigation guard) | revision on screen, a watermark and a status per channel, two schedulers, the server version the canvas stands for, a conflict | open, edit, write, retry, flush, go offline and online, resolve a conflict, publish, close | draft store, server autosave | late answers across documents, retries, rivals | what it claims to be safe is stored; nobody's version is replaced unseen; work is stored in the end |
| Browser draft store (`EP/draftRepository.ts`, `tabCoordination.ts`, IndexedDB, Web Locks) | pointers, generations and shared assets; what each tab knows of its siblings | commit, load, delete, collect, reclaim | coordinator of each tab | a tab dies between transactions; two tabs; full storage | a draft that can be found is whole; durable work is what is found |
| Server autosave (`AutosaveService.ts`) | a draft row per device, objects under generation keys | save, recover, mark saved, discard | object storage | overlapping requests, failures between object and row | the row's object is there and is its own |
| Save intents and upload (`WorkspaceAwareUploadService.ts`) | an intent row per press of Save; document, file, ingestion rows; shared bytes | claim, converge, reclaim, complete, unwind | storage, ingestion | retries, two identical saves, partial failure | one document per intention, which stays with its bytes |
| Document ingestion (`DocumentIngestionService.ts`) | ingestion row, import versions, document pointer | promote, adopt, sweep at start | queue, versions | at-least-once delivery; a delivery later than the user's next save | the import never takes a document back |
| Billing webhooks (`BillingService.ts`) | customer, subscription and plan of an organization; claimed events | checkout, webhook | Stripe | duplicates, reordering, failures after the claim | nothing unpaid; the plan follows the newest event |
| Document versions (`VersionService.ts`) | document revision, versions | commit, restore | editor, ingestion | concurrent clients; the revision is checked, the version cut and the document turned in separate awaits | a document turns to a later version only, by a client that saw the one it replaces |
| Redis worker, queue, scheduler; legacy tool jobs; comparison jobs | as their in-process counterparts | as those | lifecycle | at-least-once, retries inside one claim | as those |
| Ingress limits, admin store, CRUD services, editor document model, PDF processors, accounts, user interface | request-local, or synchronous | | | nothing that interleaves | tested directly |

`PROJECT.json` lists the same components with their files and status, and the
hazards of the modelled ones each at the line where it bites. Smaller hazards that a
listed one stands for are kept here only: the attempt budget's off-by-one (`W` and `SJ`
both compare with it; `RunsWithinBudget`), the worker's outer catch, which dead-letters
without a fence, a user's retry between a worker's last two reads, a reservation that is
two upserts, active jobs counted before the new one exists, a lease looked up on a
sibling device before the save's own row, a generation pruned in part, and an ingestion
whose enqueue fails after its rows are written.

### How the modelled parts interact

A request runs `submitProcessingJob`: it reserves allowance, stages the file,
creates the row with the reservation in its payload and queues it. Queueing is a
compare-and-swap on the row and then a push of the id; a worker pulls the id (or
polls the table), claims the row with another compare-and-swap, and runs the
handler. The handler uploads the output to the job's one output key, publishes
with a fenced swap (`attempts` must still be what it was when the worker pulled)
and settles the allowance. Failures are written with the same fence and, when the
category allows, requeued through the very `retryJob` users call. A sweep lists
`running` rows whose lease (`updatedAt`) is old and requeues, fails or cancels them.
The web process hosts the requests, the in-process worker slots and one sweep; a
standalone worker process has its own slot and its own sweep and shares only the
database and object storage. Only the web process that holds the instance lease
passes requests.

The editor gives every revision to two write schedulers. The local one commits a
draft generation to IndexedDB, under a lock shared with the tab's siblings; the
remote one sends the state to the autosave endpoint with the document revision it
stands for. Publishing cuts a version and moves that revision on. `Save` uploads the
bytes into a workspace and queues the ingestion that makes them the document's first
version.

## 2. Modules

| Module | Models |
|---|---|
| `JobStateMachine` | `jobStateMachine.ts`, `jobErrors.ts`: statuses, the table, privileges, categories |
| `JobContract` | what the owner of a job is promised: an abstract specification with seven actions |
| `JobLifecycle` | one job, its workers, sweeps and requests; one action per awaited step; `INSTANCE`s the contract with a refinement mapping |
| `JobLifecycleProofs` | type correctness, mutual exclusion, kept quota, published output, the budget, the attempt count, the contract, nothing orphaned |
| `Metering` | one owner's counters, submissions, and the settlement of their jobs |
| `MeteringProofs` | type correctness; a reservation comes back at most once, nothing is minted, the limit holds, the books balance |
| `InstanceLease` | the lease row, and every process's boot, beats, drain and death |
| `InstanceLeaseProofs` | type correctness; whoever serves owns the row, so one process serves |
| `WriteScheduler` | one scheduler as a record, its methods as functions of it |
| `EditorPersistence` | a tab: machine, coordinator and two `WriteScheduler`s, the stores and the server |
| `EditorPersistenceProofs` | watermarks are honest, leaving loses nothing, a durable verdict is true, queued work moves, no unseen version is replaced |
| `DraftShelf` | what the draft store promises: a shelf with one piece of work per document |
| `DraftStore` | the drafts of all tabs, one action per transaction; implements `DraftShelf` through `Shown` (what a reopened document finds) and `Asked` (some tab was asked to delete the document's draft and its pointer is not gone yet) |
| `DraftStoreProofs` | type correctness, whole drafts, durable work found, the swap, and the refinement of `DraftShelf` |
| `AutosaveDrafts` | the server's drafts of one author and document, one action per awaited call |
| `AutosaveDraftsProofs` | saves are chained, recoveries current, a row's object is its own, nothing is left behind |
| `Billing` | checkouts, webhook handlers, and the provider they hear of |
| `BillingProofs` | type correctness; nothing unpaid is granted; every payment page is of the organization's customer; newer state stands; a settled record is the provider's |
| `WorkspaceSave` | save requests, their intention, the ingestion of what they saved, and the versions editors save and restore |
| `WorkspaceSaveProofs` | type correctness, one document per intention, answers and bytes kept, documents turn only to what follows the version a client saw |
| `MC*` | each with its constants' values, and symmetry where members are alike |

Definitions named `x_y` are `x` with a plausible bug `y`; no specification uses
them. They document, for each property, a change of the code it would catch.

### JobLifecycle against the code

- `row` is the jobs-table row: status, attempts, `cancelRequestedAt`, the error
  category, and `stale`, which stands for `updatedAt < now - staleAfterMs`; every
  write through the repository clears it.
- `worker[w].pc` names the await a worker is at. `pulled` and `claimed` are `W`'s
  `process`; `working` to `publishing` the success path of `H`; `discarding` and
  `disputing` the branch of a refused completion; `cleanup` to `failing` its catch
  and `recordFailure`; `rereading` to `reverting` the automatic `retryJob` with the
  queue handoff and its rollback; `keeping`, `refunding` the settlement; `leaving`
  the worker's finally. `base` is the attempt count of the row it pulled (its
  fence), `loop` the worker's own loop counter, `uploaded` is `uploadedKey`.
- `mayMove` is validation by the table, `refused` is any way a compare-and-swap
  may be lost: the table refuses, or the row is no longer in the status that the
  caller saw. A caller that validates a status read at one moment and swaps at the
  next is one action, as both happen in one repository call and the swap repeats
  the check.
- A write whose result the code ignores (`DeadLetter`, the rollbacks) offers both
  outcomes with `written`.
- Jobs share no state except the queue and the cancellation set, which are keyed by
  id; one job is therefore enough, and `ready` counts its copies.

### Metering against the code

- `counter[d][m]` is the `usage_counters` row of a day and a meter. Both
  enforceable meters have a daily window. Each upsert of `incrementCounters` is an
  action, as is each awaited call of `submitProcessingJob`.
- `job[k].day` is `payload.usage.reservedAt`, 0 when nothing was reserved. Of the
  lifecycle only the status is kept: `Finish` is any path of `JobLifecycle` that
  writes a last outcome and then calls `settleProcessingOutcome`. That a completed
  outcome is the only one that keeps the quota is `KeptMeansPublished` there.
- `claimed` is the claims table, `remembered` the fallback set of each process.
- `held` is the reservation object a request still owns; `release` empties it
  before it writes, and so does the model.
- `refunds` is a history variable; no action reads it.
- `Standing` adds amounts up by counting units: a holder's amount is a set of so many
  units of its own, and the sum is the cardinality of their union. That requests and
  keys are finitely many is assumed for it (`MeteringAssumption`).

### InstanceLease against the code

- `row.age` is how long ago its last writer read its clock, so `expiresAt` is
  `Ttl - age` away; a call keeps the age of its own reading, with which `stealable`
  compares. Hosts share one clock here: skew is what the code's `Grace` absorbs.
- A call is `tryAcquire` (`create`, then `take`), `beat` or the delete. A statement
  lands (`Land`) and is answered (`Answer`) in separate steps, and `Fail` is an error
  before or after the statement took effect. Nothing stops the interval from starting
  a beat beside one still in flight (`MaxCalls` 2).
- `serves` is the guard's `held`; a process that drains has stopped listening.
- `Tick` makes calls answer within `Latency` and the interval fire on time. Safety
  needs `Ttl + Grace` to outlast a missed beat: without an end to misses a process
  keeps `held` for ever, as `beat`'s comment says it should.

### EditorPersistence against the code

- A write is captured and sent (`Fires`, or a flush), lands in its store (`Lands`),
  and is answered (`Succeeds`, `Fails`, `Refused`). `machine[c]` keeps of a channel
  the watermark, whether an attempt is awaited, and the status shown; `forced` is
  `forcedExpectedServerVersion`. Debounce and backoff timers fire at any time.
- The open document's number stands for session and request ids: an attempt is
  awaited when the channel is and its session is the open one.
- A workspace document is opened with the server's version known. A capture that
  yields nothing, draft recovery, and cross-tab planning are not here (the latter two
  are in `DraftStore`); a request abandoned by its client may land late in
  `AutosaveDrafts`. `adopt_server_version` cannot be reached, since `readVersion`
  returns no etag, and `flushRemote` has no caller.
- `told`, `decided`, `misled`, `excused` and `rivals` are history; no guard reads them.

### DraftStore against the code

- A key-value transaction is one action; `pointers[d]` is pointer and index record,
  which are written together. A snapshot holds whose work it is and its revision.
- `at` is the await a tab is at: `read` to `prune` are `commitOnce`, `unlist` and
  `drop` `deleteDraft`, `mark` to `sweep` `collectGarbage`, `visit` to `discard`
  `reclaimSpace`, which runs inside a commit and then starts it again.
- `Locks` is whether the browser has Web Locks. `SweepsOverlap` FALSE excludes that a
  sweep or deletion of one tab runs beside a commit of another; see below.

### AutosaveDrafts against the code

- A payload is the number of the request that brought it and its checksum is the
  same number; an object's key is device and generation. `Lands` is the row's
  version-checked update or the unique index of the create.
- Whether the document moved on (`behind`) is chosen at the start of a save, as its
  revision is read once. A lease is there or not; that it expired is a choice when it
  is read, so no clock is needed.

### Billing against the code

- The provider is external: `subs`, `events` and `made` are what Stripe holds, and
  `Deliver` sends what has had no 200, or, at a cost, sends again. `trialing` stands
  with `active`, other unpaid statuses with `past_due`.
- `paid`, `raced` and `stranded` are history.

### WorkspaceSave against the code

- Requests carry the same bytes, so there is one `object`. Rows are named by the
  request that made them. `meaning` is what `sameMeaning` compares, `stamp` is
  `updatedAt`, on which `reclaim` swaps. A find and the claim after it are one step,
  as the row it found is compared again.
- `SlowSaves` FALSE assumes that a live save ends within `staleClaimMs`. `updatedAt` is
  a timestamp in milliseconds; the model takes it to differ between two writes of a row.
  Were a reclaim and a failure to fall into one millisecond, a second reclaim could match
  the row the first had read.
- `lanes` are the worker's jobs and the sweep at its start, each running
  `processIngestion` await by await: adoption of version 1, the mark (of a row read as
  pending), the file row, the object, its signature, the version, the pointer, the last
  status. `IS:384-408` takes a read that fails for bytes that are no PDF, which `IS:264`
  records for good: `ReadSignature` models it, and `misread` remembers for whom. Every
  other error throws (`LaneFails`) and is tried again.
- `versions[d]` is the highest version number of a document, `imports[d]` the numbers
  that ingestion cut, `current[d]` the number its row points to, and `revision[d]` the
  row's revision, raised by each write of it.
- An editor opens a document with the revision that its GET returns, sends a save or a
  restore against it (`AcceptVersion`, the check), cuts the version (`CommitVersion`) and
  turns the row if the revision is still that (`AdvanceDocument`). Both operations are
  these steps. A failure of the last leaves what a crash after `CommitVersion` leaves.
- Renames, moves and other writes of the row are left out: they raise the revision, so
  all they do here is that a save is refused. A document is trashed and never deleted,
  so no step finds it missing. What users do to its lifecycle (trash, archive, restore)
  is left out; a rollback trashes the document it made.

## 3. What is checked

Every property of a passing run has a mutant in `PROJECT.json`.

| Run | Instance | Shows |
|---|---|---|
| `orderly` | an in-process and a polling worker, a standalone sweep, a cancelling user, crashes, two attempts, fairness | `TypeOK`; `AtMostOneRun`; `RunsWithinBudget`; `PublishedOutputIsStored`; `AttemptsNeverFall`; the lifecycle implements `JobContract`; `QueuedJobEnds` |
| `faults` | two slots and the sweep of one web process that may crash, a cancelling user; a handler's storage and database writes and the queue handoff may reject, before or after they land; three attempts | `LicenceInv`, the inductive invariant of the proof, which implies `AtMostOneRun` |
| `cleanup` | the same process without faults and crashes, leases that may run out under a live worker, a user who retries, three attempts | `NoOrphanOutput`; `KeptMeansPublished` |
| `meter_balance` | three submissions, two of one key, an allowance of two operations and three bytes, claim outages | `LimitHolds`; `Balanced` |
| `meter_faults` | two submissions of different size for an allowance one of them exhausts, two processes, two days, a retry, counter and store faults, crashes | `NeverMints`; `RefundedOnce` |
| `one_server` | two processes, TTL 5, grace 1, a beat every 2, calls of at most 1, one missed beat in a row | `TypeOK`; `ServerOwnsRow`, and with it `OneServes`; `StandbyTakesOver` under fairness |
| `editor` | two documents in turn, guest or workspace, two edits, one retry, two events among faults, texts, link losses, rivals and commands | `WatermarksHonest`; `LeavingLosesNothing`; `DurableVerdictIsTrue`; `NothingStranded`; `NoUnseenOverwrite`; `WorkIsStored` under fairness |
| `drafts` | two tabs, two documents sharing an asset, two edits a tab, four generations, two failing transactions | `DraftsIntact`; `DurableIsFound`; `SwapsWhatItCompared`; the store implements `DraftShelf` |
| `autosave` | two devices, two requests at a time, four in all, one failed call or crash | `SnapshotIntact`; `NothingOrphaned`; `SavesAreChained`; `RecoveredIsCurrent` |
| `billing` | one organization that checks out twice, another; one subscription, three events, two handlers, three moments, one trouble | `TypeOK`; `NothingUnpaid`; `SessionsAreOurs`; `SettledIsCurrent` |
| `save` | a save and its retry, with its key reused, or a save without a key, or one save and two editors of its document; one lane and the sweep; one fault or crash | `TypeOK`; `OneDocumentPerIntention`; `AnsweredIsKept`; `BytesAreKept`; `ReplacesWhatItSaw` |
| `conflict_stands` | as `editor` | a counterexample to `ConflictStands`: after a refused save the token is the version that refused it, so the next edit's autosave is accepted over that version and clears the conflict nobody decided |

The type invariants of `EditorPersistence`, `DraftStore` and `AutosaveDrafts`, those of
the `faults` and `meter_faults` instances, `LimitHolds` in `meter_faults`, and
`NewerStateStands` in `billing` hold under the same configurations; no run repeats
them, and section 4 proves all but the type invariants of the editor and of the
autosave.

### What else the models show

Each of these is behaviour of the code that a run above steps around with a constant
or an exception in a property; it can be reproduced with the change named.

Jobs, with `JobLifecycle` and `Metering`:

- Two sweeps (`Sweeper = {websweep, alonesweep}`, `Commands = {}`, as `orderly`): a
  second sweep acting on an older listing requeues a running attempt with the count it
  has, so `UniqueLiveAttempt` fails, against `JobRepository.ts:61` ("unique per live
  attempt, which is the whole fence").
- `SlowLeases`: a superseded worker deletes the output the next attempt published, as
  both use one key: `PublishedOutputIsStored` fails, against `SJ:38`.
- `ConfirmedCancelIsFinal` fails in `orderly`: "stopped" is answered for a job that
  completed, against `app/api/jobs/[id]/cancel/route.ts:25`.
- `FinalSlotIsTaken` fails in `meter_balance` without the replay: both contenders for
  the last slot are refused, each by the other's increment, against `UMS:54`.
- `ReplayIsAnswered` fails there: a replayed key is refused by the limit the original
  used up, against `processingJobSubmit.ts:177`.
- `CancelledIsRefunded` fails in both: a job cancelled while it waits is settled by
  nobody, against `UMS:399`.
- A user who cancels a job just claimed and then retries it has two workers on it
  until the first notices (`Commands = {"cancel", "retry"}` breaks `AtMostOneRun`);
  so does a retry with `HandoffFaults`, whose rollback writes `failed` over a polling
  worker's claim. Retries alone, with crashes and both workers, keep `AtMostOneRun`,
  `PublishedOutputIsStored` and `KeptMeansPublished`.
- A cancellation recorded while the worker is past its last check, or runs in a
  standalone process, does not stop publication; one recorded after a sweep's listing
  is requeued by that sweep.
- With `StoreFaults` a failed attempt may leave an object whose file record could not
  be written. With `ClaimFaults` in `meter_faults` a job settled, retried and settled
  again is refunded twice. Concurrent submissions may exceed `maxConcurrentJobs`.

Editor and drafts:

- A write of an earlier document that ends after the next was opened settles the new
  document's flush and may leave its queue to the next edit; waking the remote channel
  while offline leaves a reconnect nothing to resume. `excused` names the channels.
- `paused` survives `cancel` and the next `open`; a `readVersion` that fails leaves
  the channel paused. A publication that races an autosave shows a conflict with
  nobody. `onLocalSucceeded` sets `ownGeneration` whichever session wrote.
- `pruneGenerations` that fails after the promotion makes the tab compare with a
  generation it does not know of: its later commits are refused.
- Without Web Locks (`Locks = FALSE`) two tabs can both pass the comparison
  (`SwapsWhatItCompared` fails), and a reopened document that has a draft is refused
  its first commit. With locks, a tab that knows nothing overwrites a sibling's draft
  in silence; and `already_durable` tells a tab of a sibling's revision of the same
  number that its own work is stored (`DurableIsStored` fails).
- `collectGarbage`, `reclaimSpace` and `deleteDraft` take no lock: beside a commit of
  another tab (`SweepsOverlap = TRUE`) they can delete what it staged, or rewrite a
  pointer it just moved. The comment "Called once when a document opens" has no such
  caller, and `pruneGenerations` trusts the caller's pointer though its comment says
  otherwise.

Autosave, billing, saving:

- Two saves of one device at a time stage under one generation, and the loser releases
  or overwrites the winner's object: `SnapshotAlwaysIntact` fails with the constants
  of `autosave`. A discard that races a save orphans the newer object.
- Two handlers between check and write leave older billing state
  (`OlderStateNeverWins` fails with the constants of `billing`); a release that fails,
  or a crash after the claim, loses the event; changes of one second are applied in
  the order they arrive. A second subscription of a customer overwrites the first; a
  `currentPeriodEnd` of null never expires.
- With `SlowSaves`, a live save is overtaken and both make a document. A save without
  a key may be answered with a keyed save's document that is then unwound
  (`NeverUnwound` fails with the constants of `save`). Two lanes past the adoption
  check cut two import versions (`OneImportVersion` fails there). A document is listed
  and can be saved before its ingestion has run; such a save is version 1, and the import
  is cut after it (`ImportIsFirst` fails there), against `IS:357` ("Version 1 is the
  import version by construction"). The pointer then stays with the save.
- One failed read of the stored object makes a sound upload `not-a-pdf` for good, as
  `looksLikePdf` swallows the error; `DocumentIngestionJobHandler.ts:90` returns without
  a retry because "the cause is a property of the bytes rather than a transient fault".
  `BytesAreKept` excepts exactly these ingestions, and fails without the exception.
- `head` and `put` fail outside the `try`, so the claim waits out `staleClaimMs`;
  `complete` and `fail` write by id whatever the row says; a completed row whose document
  is gone is never reclaimed; a job that could not be queued waits for the next start of
  a worker.

### Bounds, and why they are enough

- Two of every actor: each property relates at most two, and the proofs cover any
  number. Job workers are one in-process and one standalone, as they differ (queue,
  cancellation), or two of one process, which share its queue and cancellation set.
- `MaxAttempts` 2 or 3: a first, a repeated and a last attempt. `MaxReady` bounds the
  in-memory queue; two copies of an id are what a retry and a recovery can leave.
- Metering: two submissions race for a slot, the third replays a key. Two days: a
  reservation and its refund on different ones. Sizes 1 and 2, so that the two meters
  run out at different submissions. `MaxRetries` 1: two settlements.
- Lease: `MaxCalls` 2 lets the interval start a beat beside one in flight, which needs a
  latency of a beat or more; with the times of `one_server` no two calls overlap. These
  are the smallest times with a missed beat covered (`Ttl + Grace` at least two
  beats and two calls), which the code's 10, 2 and 3 seconds are with calls under two
  seconds.
- Editor: two documents for late answers of the first; two edits for one in flight and
  one queued; two events pair any two of a fault, a rival, a lost link and a command.
- Drafts: four generations are two commits of each tab, so that one is pruned.
- Autosave: four requests overlap in pairs twice. Billing: three events are a purchase
  and two changes in any order. Saving: `Casts` names who takes part together:
  two requests of one key with a third of another meaning, the two with one that has no
  key, and one request with two editors, which is what overtaking on one document takes.
  The proofs cover any number of them together.
- Crashes of jobs are unbounded except under fairness, where they stop for good some
  day; elsewhere faults and crashes share one bound, named in each module.

### Fairness

`JobLifecycle!FairSpec` assumes weak fairness of each worker's, sweep's and started
request's steps (each is a loop or a promise that resolves in a live process), of the
lease's expiry, and that crashes and cancel presses come to an end: each cancel press
writes the row and so renews the lease of a dead worker. No fairness is assumed of
users, of expiry, or of a crash. `orderly` has a standalone worker: with in-process
workers alone, a web crash between the row's write and the push loses the job until
its TTL, as `PJS` itself notes at `queueJob`.

`InstanceLease!FairSpec`: time passes, a live process runs its interval and its
awaits, and one that drains exits (the guard exits after a hold). Misses are bounded
in a row, so a standby is answered in the end.

`EditorPersistence!FairSpec`: the browser fires timers, its own store takes what it is
sent, and a transaction that landed is answered with success unless it is answered
with a failure first. Nothing is assumed of the user, of the network or
of the server, so liveness is stated of the local channel only.

## 4. What is proved

`tlapm` proves, for every value of the constants, the theorems below; the inductive
invariant of each is named, with the reason it is needed. Assumptions on constants are
the named `ASSUME`s of the modules, which TLC evaluates in every run; a theorem that
holds only of some deployments says so in its own `ASSUME`.

### Jobs (`JobLifecycleProofs`)

- `Typing`: `Spec => []TypeOK`, under every fault.
- `LicenceIsExclusive` and `OneRunAtATime`: `Spec => []AtMostOneRun` when the
  deployment is `Orderly`: at most one sweep, leases that outlive their workers, no
  user retry. Crashes, store faults and handoff faults are allowed. `AtMostOneRun`
  is not inductive: from a state in which a row is queued while a worker still
  holds it, a claim breaks it. `LicenceInv` says where the licence to run is: in the
  queued row, with one holder, or with the sweep that found the row abandoned. It
  needs that a failing worker is fenced while the row runs (`FailuresAreFenced`),
  or a slow failure could hit another's attempt, and that nobody requeues a running
  row but the sweep (`RetriesOnlyEnded`). The first two parts of the assumption are
  needed, as section 3 shows; the third is a limit of the invariant.
- `KeptIsPublished`: `Spec => []KeptMeansPublished`, with no deployment assumption.
  The invariant adds that a worker about to keep the quota has published, and that a
  published row never leaves `completed` but for `expired`.
- `PublishedIsStored` and `BudgetIsKept`: `PublishedOutputIsStored` and
  `RunsWithinBudget`, when `Orderly` and without store faults. `WorkInv` adds that a
  holder finds the row running or ended without a result, that a worker about to record
  or publish has its object in the store, that nobody deletes an output but after a
  refused publication, and that a waiting row has budget left. With store faults neither
  holds: a publication that lands and throws is cleaned up after, and a handler that
  throws is run again by the worker's own loop, whatever the row's count.
- `CountNeverFalls` and `LifecycleKeepsContract`: `AttemptsNeverFall`, and each step of
  the lifecycle is a step of `JobContract` or leaves it alone, when `Orderly` and
  `Answering` (neither store nor handoff rejects). `SettleInv` adds that a job whose
  allowance is settled has ended and nobody is left who could requeue it. The hypothesis
  is needed: with `StoreFaults` the worker's own catch writes its loop counter, unfenced,
  over the count (a counterexample needs three attempts); with `HandoffFaults` a rollback writes what it read over a row that a
  polling worker has moved on.
- `NothingIsOrphaned`: `Spec => []NoOrphanOutput` without store faults and crashes, for
  any sweeps, user retries and leases that run out under live workers.
  `OutputIsAccounted` says that an object is published or some worker is yet to publish
  or delete it.

### Allowance and lease (`MeteringProofs`, `InstanceLeaseProofs`)

- All theorems of `MeteringProofs` assume `OneSettlement`: the settlement claim does not
  reject, or no job is retried by its user. It is needed, as said above; either half is
  enough, and `meter_faults` has the one, `meter_balance` the other. Submissions, keys,
  sizes, limits, processes, days and store faults are any.
- `RefundsAreOnce`: `Spec => []RefundedOnce`. With a claim that answers, the invariant
  says that who returns a reservation owns its claim, alone, and that before the claim
  nothing came back (`RefundInv`); without retries, that a job has one settlement, after
  it is over, and nothing came back before (`FinishInv`).
- `NothingIsMinted` and `LimitIsKept`: `NeverMints` and `LimitHolds`, whatever counter
  calls reject and whoever crashes. Neither is inductive: `Standing` does not see what a
  request took and does not hold yet, or has still to give back. `Owed` adds that, and
  `Covered` says that no counter is below it: each step moves a counter and what is owed
  to it alike (`Level`), or leaves the counter the higher (`Rising`). `Promise` lies
  between the two: it counts what will stand if nothing more is refused. It grows only
  for a request whose own reading, after its own increment, was within the plan
  (`Prudent`), and a counter is never below what is promised of it, so no promise goes
  beyond the plan (`WithinPlan`), although the readings of racing submissions are old
  when they are used.
- `BooksBalance`: `Balanced`, when neither counter calls reject nor processes die: then
  every step is `Level`, so each counter is exactly what is owed, and at rest that is
  what stands. Both hypotheses are needed: the code fails open when a counter call
  rejects, and a dead process gives nothing back.
- `Typing`: `TypeOK`, in which counters are natural numbers because what is owed is.
- The lemmas on `Total` (what one more holder adds, what a smaller set has) follow from
  the library's facts on cardinality, and need no induction.
- `Typing` of the lease, and `ServingIsOwning`: `Spec => []ServerOwnsRow` and, from it,
  `OneServing` (at most one process serves), when `LeaseOutlastsMisses`: a call is
  answered sooner than the next beat is due, and `Ttl + Grace` covers every beat that
  may be missed in a row, one more, and two latencies. That is needed: `one_server` with
  `Ttl = 4` lets a standby take the row while its owner still serves. `ServerOwnsRow`
  alone is not inductive. `LeaseInv` adds that a process has one call at a time, of the
  kind its status asks for, and bounds the age of a holder's row by the time since its
  last beat was sent, a beat for every miss and the latency of the call in flight; so no
  take-over finds it run out.

### The editor's tab (`EditorPersistenceProofs`)

All five are proved with no hypothesis on faults, links, rivals or commands, for any
number of documents, edits, retries and events, from one invariant, `EditorInv`.

- `HonestWatermarks`: `WatermarksHonest`. `Stored` relates the watermark, the store and
  the write in flight of a channel: what landed is stored, and what is still to be
  accepted is no older than what is stored, so that a write landing late never takes the
  store back below the watermark. `Published` says the same of a version being published.
- `LeavingIsSafe`: `LeavingLosesNothing`, from the same parts.
- `DurableIsTrue`: `DurableVerdictIsTrue`. `Newest` says that the newest revision is
  queued, in flight, stored, or the store is shown to be unavailable; a flush that is
  answered "durable" has emptied the queue.
- `QueuedWorkMoves`: `NothingStranded`. `Aboard` says that an attempt of the open
  document is awaited, and so will be reported, and that a remote channel is paused
  while the tab is offline; these are what `excused` is defined for.
- `SavesStandOnTheKnown`: the action property `NoUnseenOverwrite`. `Informed` says that
  every version a save could be sent against, the token, a forced expectation or that of
  a save in flight, is no newer than versions the user was told of.

The lemmas on `WriteScheduler` say what each of its methods leaves of a scheduler, field
by field; every action of the tab is proved from them and not from their definitions.

### Drafts (`DraftStoreProofs`, `AutosaveDraftsProofs`)

- `DraftStoreProofs`: `Typing`, `DraftsStayIntact`, `CommitsSwap`, `DurableWorkIsFound`
  and `StoreKeepsShelf`, when `Guarded`: the browser has Web Locks, and a sweep does not
  overlap another tab's commit. `StoreInv` says that one tab at a time is in the locked
  part of a commit (`OneWriter`), that the pointer it saw is still the pointer and what
  it staged is still there (`Writing`), and that what a sweep is about to delete is named
  by no pointer (`Clearing`). The refinement of `DraftShelf` also needs `Authored`: a
  tab's stored work is no later than what it shows, so that each new find is new work of
  a tab. Section 3 shows what happens without either part of `Guarded`.
- `SavesChain` and `RecoveriesAreCurrent`: `SavesAreChained` and `RecoveredIsCurrent`
  of `AutosaveDrafts`, as action properties. `ReadInv` says that a row whose id and
  version are those a request read is the row it read, since each write of a row
  raises its version and a new row has a new id; the version check then is enough.
- `SnapshotsStayIntact`: `Spec => []SnapshotIntact`. `BytesInv` says of every
  device outside `overlapped` that one request at a time moves its bytes, that a save's
  row is still the one it read, so that what it stages is not what the row names, and
  that what is about to be deleted is no longer named.
- `NothingIsLeft`: `Spec => []NothingOrphaned`. `TidyInv` adds that while no call has
  failed every object is named by its device's row or is in the hands of the one request
  that moves the device's bytes.

### Billing (`BillingProofs`)

- `NothingGrantedUnpaid` and `SessionsStayOurs`: `NothingUnpaid` and `SessionsAreOurs`,
  with no assumption on the order, loss or repetition of events or on crashes.
  `BillingInv` says that a record is of a subscription of its own customer (so an owner
  found by subscription pays, too), that whatever an event or a handler carries was paid
  for when it was active at the Pro price, and that a checkout past `linkCustomer` holds
  the customer that was stored first. What was paid for only grows, so whatever is old
  when it is applied is still covered.
- `NewerStands`: the action property `NewerStateStands`; a record goes back in time only
  where two handlers of the organization overlapped between check and write.
  `FreshInv` keeps what a handler is about to write no older than what is stored.
- `SettledStaysCurrent`: `Spec => []SettledIsCurrent`. It is about a subscription's last
  state, which no single step relates to a record: `ToldInv` says that the provider's
  events are in order and the last one that carries a subscription carries it as it
  stands; `WitnessInv` that each record is what some event made of what it or the
  provider carried; `DoneInv` that a record is no older than any event handled to its end.
  So a record whose events are all answered was made from the last.
- `Typing`: `Spec => []TypeOK`, from all of these.

### Saving and ingestion (`WorkspaceSaveProofs`)

- `Typing` and `TurnsAreSeen` (the action property `ReplacesWhatItSaw`), with no
  hypothesis. The layers are the shapes of state (`Shapes`, `Paths`), the rows a save has
  made so far (`Rows`), the version numbers lanes are at (`Numbers`), and what editors saw
  (`Saves`): while the document's revision is the one a save was sent with, the version
  its client saw is the current one, and the version it cut comes after that. Every step
  that moves the pointer raises the revision (`Drifts`), so a save whose revision still
  stands at its last step replaces what its client saw; and a lane moves the pointer only
  while it is unset. Two saves may both pass the check and cut versions; the second is
  then kept in the history and not turned to.
- `OneDocument`, `AnswersAreKept` and `BytesStay`: `OneDocumentPerIntention`,
  `AnsweredIsKept` and `BytesAreKept`, without `SlowSaves` and `LostReplies`. `Claims`
  says that one request is at work under a key and that a reclaim whose stamp still
  stands finds nobody at work; `Intentions` that a completed intention names a document
  of its own key that is live and past every rollback; `Bytes` that a file row nobody
  pulled keeps the shared object, that no rollback is about to remove it, and that its
  ingestion has failed only if its bytes were misread. A live save
  that is overtaken makes a second document (section 3), so the first hypothesis is
  needed; with `LostReplies` a save whose `complete` was applied but answered with an
  error unwinds the document that its intention names, and `AnsweredIsKept` and
  `BytesAreKept` fail. `OneDocumentPerIntention` still holds then in the instance of
  `save`, which the invariant does not show.

### Only model-checked

Liveness (`QueuedJobEnds`, `StandbyTakesOver`, `WorkIsStored`): fairness and `ENABLED`
are out of the prover's reach. `ConflictStands` is the one property that fails.

## 5. What is not modelled

- Retention: purging objects and rows after the TTL; `ExpireJob` changes the status
  only. `DatabaseQueue`'s set of recently pulled ids, which makes duplicate pulls
  rarer. The worker's drain on shutdown: a crash at any point covers its time-out.
- Wording, progress stages, and timestamps other than leases, TTLs and billing periods.
- The usage event ledger, compute units, plan changes; the settled-set's eviction
  after 5000 entries; pruning of counter rows and of old save intentions.
- A replayed key sends the same file again, so its size is a function of the key.
  The file-size limit and upload validation depend on nothing shared.
- The editor: presentation of a save, draft schema migration and partial restores,
  the capture of a document into bytes. Drafts: assets other than one per document.
- Billing: the portal, prices other than one paid and one unmapped, purchases that are
  no subscription. A claim of an event that lands and is reported as failed, and a
  customer link that does, are left out: `StepFails` and `CheckoutFails` there fail
  before the write.
- Drafts: a tab's own commit and its own deletion of a draft are taken not to overlap,
  though the coordinator takes no lock for the second; another tab's may.
- Publishing: the machine's commit fence, which is never met as publications of a tab are
  serial, and a publication answered without a revision, which changes nothing.
- The components of section 1 without a module. Most of the repository's lines are
  user interface, marketing pages, content, probes and geometry: rendering and format
  conversion without shared state, where a state machine says nothing a test does not.

## 6. Plan

1. Proofs: type correctness of the editor and of the autosave; `CountNeverFalls` with
   handoff faults and no standalone worker.
2. Versions: renames, moves and restoring from the trash beside saves, pruning,
   artifacts and manifests.
3. `RedisTransport` and the legacy handler, as another instance of the worker side;
   the comparison jobs after them.
4. The concurrency limiter of the ingress.
