# A TLA+ verification project for QuixiChat

QuixiChat keeps a user's conversations in a local archive (SQLite over OPFS in
the browser) that several tabs share, streams provider output into it while it
is being generated, lets the user switch between archives, keeps a search index up
to date beside them and embeds texts with a local model. This directory models
the parts of that program whose correctness depends on the order in which
independent actors act: tabs, workers, the Web Lock manager, BroadcastChannel,
timers, cancelled and retried calls, awaits, and processes that die.

Paths below are relative to `src/packages/` of the repository.

    tlc -config Runtime_two_requests.cfg MCArchiveRuntime     # a run
    tlapm ArchiveRuntimeProofs.tla                            # a proof module

`PROJECT.json` lists the runs, maps every definition that models code to its
lines, and names for each property a mutated definition that breaks it.

## 1. Inventory

### 1.1 The local archive: worker runtime and client

`storage/src/worker/archive-runtime.ts`, `storage/src/client/archive.ts`

Every tab has a client and a dedicated worker. The workers compete for one
exclusive Web Lock per archive; the holder, the *owner*, is the only one to
open SQLite. The others forward their calls over a BroadcastChannel.

* State. Client: pending calls and pending cancellations with their deadlines.
  Worker: whom it takes for the owner (`ownerId`), the map `waiting` of calls
  not answered yet, each either held back for want of an owner or dispatched
  to one. Owner: `queue`, `active` request with its `AbortController`.
* Operations. `call`, `cancel`, deadline, `hello`/`owner`/`released` messages,
  `ownerChanged`, `dispatch`, `enqueue`, `cancelled`, `drain`, `close`, `fail`.
* Interaction. Port messages inside a tab, broadcast messages between tabs,
  the lock manager, and `execute` of `archive-database.ts`.
* Hard. An owner that closes or dies with work queued, or with calls that wait for
  its maintenance to end; a call dispatched to an
  owner that is no longer one; a cancellation that overtakes, meets or follows
  the effect; a deadline followed by a retry elsewhere while the first copy is
  still queued; three limits (client, worker, owner queue); a tab that starts
  while the ownership is changing.
* Correct means: only the holder of the lock works; a transaction takes effect at most
  once; the requests of one tab take effect in the order they were issued; an
  answer that says "did" or "never will" is true whatever happens later;
  without crashes of its own tab every call is answered.

### 1.2 Generation: producer, producer rows, recovery

`providers/src/generation.ts`, `app/src/workflows/generation.ts`,
`storage/src/worker/producers.ts`, `storage/src/client/producer.ts`,
`storage/src/worker/canonical/repository.ts`

A generation run turns provider events into numbered mutations of one attempt
and commits them in batches. A Web Lock per generation (its lease) tells the
archive that the producer lives; a producer row tells it what to recover.

* State. Producer: the counter of mutations, the pending text deltas, the flush
  timer, the flags `committing` and `flushFailed`, up to two commits in flight
  with their attempts. Archive: producer row (active, released, finished,
  lost), `lastSequence`, receipts, the seal of the attempt (complete, partial).
* Operations. Text delta, raw record, part and end of stream; idle flush and
  inline flush; `commit` with operation status and retry; register, release,
  write fence, reconcile.
* Interaction. All writes are canonical commits through the archive client of
  1.1, so they are executed in order, may be lost with the owner, cancelled at
  their deadline, or executed with the answer lost.
* Hard. The write fence looks at the lease, and the commit follows an await later;
  two commits in flight whose numbers must join without a hole; a commit
  whose answer is lost is retried; a producer that dies with a batch queued,
  while another tab's owner reconciles; a counter read after an `await`.
* Correct means: the committed mutations are 0..lastSequence without a hole;
  recovery seals exactly the attempts whose producer is gone, and nothing is
  appended or created afterwards (one batch that had passed the fence before the
  producer went may still arrive, before the recovery); success is reported only when the attempt is
  sealed; the run ends.

### 1.3 Managed archive selection

`storage/src/selection/managed-catalog.ts`, `storage/src/client/selection.ts`,
`storage/src/worker/selection.ts`, `withActivationReview` in
`storage/src/worker/archives/index.ts`

A catalog in its own SQLite file says which archive is selected. An activation
records its intent, verifies candidate and source under the selection gate and
publishes the new head; contexts pinned to an older head may no longer write.

* State. Catalog: the head (archive, revision, operation), a row per operation
  (prepared, interrupted, failed, committed), the archives retained. Context:
  the selection its archive was opened under (`pinned`), the running call, whether
  its catalog failed to close. The gate is a Web Lock.
* Operations. `read`, `status`, `guard`, `activateReviewed`; the review of a
  candidate and its renewal under the gate; opening and closing the catalog.
* Interaction. Every call an owner executes (1.1) runs inside `guard`; an
  activation runs `withActivationReview` of the archive jobs inside the catalog,
  whose last act is the catalog's own publication.

* Hard. A crash between intent and publication; a publication whose
  confirmation is lost; a commit in the old archive between review and
  publication; a catalog that fails to close.
* Correct means: the heads form one line of committed operations; nothing is
  written to an archive after it was deselected or between the review that
  approved its successor and the switch; answers about an activation are true.

### 1.4 Embedding scheduler

`quixi-embed/src/scheduler/scheduler.ts`

One job per text and role, shared by the requests for it, in two classes
(interactive, background) over one model backend with one fallback.

* State. Jobs with their stage and consumers, the in-memory cache, the batch that
  owns the executor, whether `pump()` stands or is on its way, the mode of a
  shutdown, the promises of `drain`, `drainBackground` and `shutdown`.
* Operations. `submit`, `cancel`, answers of the persistent cache, the turns of
  `pump()`, success, failure and fallback of a batch, `pauseBackground`,
  `resumeBackground`, `drainBackground`, `drain`, `clearCache`, `shutdown`.
* Interaction. The worker around it (`quixi-embed/src/service/worker.ts`) forwards
  messages; executor, fallback and cache are awaited.
* Hard. Every await of `pump()` lets a call in; a cache answer for a job that is no
  longer there; `shutdown('cancel')` during inference or fallback; a wake-up that
  is only given by who saw the pump idle.
* Correct means: every request settles once, nobody waits for a job that was
  dropped, what can be dispatched is dispatched, promises resolve, closed is final.

### 1.5 Search index

`storage/src/worker/search/index.ts`, `storage/src/worker/search/schema.ts`,
`advanceSearch` and the repair of `storage/src/worker/archive-database.ts`

Sources are cut into chunks by runs; a finished run becomes the head of its source
in an epoch; a rebuild fills a second epoch that then takes over.

* State. In SQLite: queue rows of sources and of scopes still to be expanded, heads,
  chunks, the runs under way (`builds`), the epochs. In memory: the run, the flag
  `maybeObsolete`.
* Operations. Slices of turns (drop a stale run, clean up, expand, begin, write a
  chunk, publish, fail, switch epochs); triggers that mark and queue what changed;
  `rebuild`, `yieldResources`, repair, reopening.
* Interaction. The owner of 1.1 runs one slice at a time between its calls, as one
  transaction; the triggers run inside the commits of 1.2.
* Hard. A source that changes while its run or its expansion is under way; a slice
  that ends anywhere; a restart that loses the run; rows that nobody owns; an
  epoch that takes over while something of it is still missing.
* Correct means: what is visible is current; what changed is queued until it is
  visible; a rebuilt epoch takes over only complete; every source gets indexed.

### 1.6 Chat controller

`app/src/workflows/chat.ts`, with `app/src/workflows/generation.ts`,
`app/src/runtime/library.ts`, `providers/src/generation.ts`, `providers/src/adapter.ts`

Saves a user turn, runs one attempt or several compared ones and at most one
fallback.

* State. The operation, its attempts with their runs, the flags `cancelled` and
  `disposed`, the library's batch of unknown outcome, the conversation itself.
* Operations. `send`, `compare`, `regenerate`, `stop`, `dispose`, inspections,
  reconciliation; creation, selection, the checks before dispatch, the request.
* Interaction. Commits through 1.1, the run of 1.2, the host's request.
* Hard. Some ten awaits between the user's click and the request, in any of which
  the user stops, the tab goes or another tab edits the same conversation; a regeneration
  reads the conversation only after the click.
* Correct means: a stop reaches everything that was started and nothing goes out
  after it; what goes out was selected in the conversation the operation saw; operations end.

### 1.7 Not modelled

| Part | Sources | Why |
|---|---|---|
| Semantic indexer and index | `search/src/semantic/indexer.ts`, `storage/src/worker/search/semantic.ts` | a loop of claim, embed and publish against requests that are synchronous and check generation and digest themselves; the scheduler it embeds with (1.4) and the index it reads (1.5) are modelled |
| Byte transfers, blobs | `storage/src/worker/blobs.ts`, `blob-catalog.ts` | staging has no effect until a commit claims it, which is what `GenerationRun` uses |
| Archive export, restore | `storage/src/worker/archives/` | long resumable jobs over files; of them the activation review is in `SelectionCatalog`, as a review that fits or does not |
| Imports, extraction | `storage/src/worker/canonical/imports.ts`, `extraction/`, `importers/`, `documents/` | mostly parsing and validation in one SQL transaction; extracted pages reach the index as changes of their source |
| Queries and ranking | `storage/src/worker/search/`, `search/src/` | pure functions over large text; `VisibleIsCurrent` says which heads they see |
| Provider adapters, routing | `providers/src/sse.ts`, `normalize.ts` | wire formats and pure policy; of `adapter.ts` the checks and the cancellation are in `ChatController` |
| Views | `app/src/AppRoot.tsx` and the components | presentation; what it calls are the operations of 1.6 |
| Contracts | `core/` | types; their vocabularies are the values of the models |
| Hosts, relay, extension | `../apps/` | I/O around the core; of the web host the last check before the fetch is in `ChatController` |

## 2. Modules

    ArchiveRuntime ---- implements ----> OnceService
      MCArchiveRuntime (values for TLC)
      ArchiveRuntimeProofs
      ArchivePromiseProofs (extends that)
      ArchiveProgressProofs (extends ArchiveRuntimeProofs)

    GenerationRun ----- implements ----> GenerationLog
      GenerationRunProofs

    SelectionCatalog -- implements ----> SelectionRegister
      MCSelectionCatalog (symmetry for TLC)
      SelectionCatalogProofs

    EmbeddingScheduler              SearchIndex              ChatController
      MCEmbeddingScheduler            SearchIndexProofs        ChatControllerProofs
      EmbeddingSchedulerProofs

`GenerationRun` uses of `ArchiveRuntime` what the latter establishes: requests of
one client are executed in the order they were issued, at most once, a request
may be lost with its owner, and an answer may be "unknown" whether or not the
effect took place. `SelectionCatalog` looks at the owner of 1.1 from the other side:
its calls are executed one at a time, and here it matters that each of them passes
the gate. `SearchIndex` is what that owner does between its calls. `ChatController` takes
from `GenerationRun` how an attempt ends, and from the archive that a commit which
expects another revision is refused.

### 2.1 ArchiveRuntime

| Variable | In the code |
|---|---|
| `caller`, `answer` | the client's pending calls; what the promise of each request, and of its cancellation, settled to |
| `phase`, `closing` | `start`/`elect`/`open` progress, `fatal`, `close()` |
| `known` | `ownerId` |
| `held`, `heldCancels`, `sent` | the map `waiting`: not dispatched, or dispatched to that owner |
| `queue`, `active`, `aborted` | the owner's `queue`, `active` and its `AbortController` |
| `result` | the answer of `execute` before `drain` delivers it |
| `gateBroken` | the selection catalog of the owner became unavailable |
| `turn` | what `draining` is busy with: calls or none, maintenance, or calls that a closing owner left to a drain after the one it awaits |
| `inbox` | BroadcastChannel messages posted and not handled |
| `lock` | Web Lock of the archive |
| `committed`, `effects` | transaction receipts in SQLite; history of effects |

| Action | In the code |
|---|---|
| `Issue`, `Cancel`, `Timeout` | `call()`, `cancel()` and the reply deadline of the client, with the ingress in its own worker (`request`, `dispatch`, or `enqueue` when it is the owner) |
| `Start`, `Grant`, `OpenOk`, `OpenFails` | `start`, lock callback, `open` with `ownerChanged(self)`, `fail` |
| `Receive` | the channel handler: `hello`, `owner`, `released`, `call`, `reply` |
| `Begin`, `Execute`, `Refuse`, `GateCloseFails`, `Finish` | one turn of `drain` around `execute` |
| `Maintain`, `Maintained` | `startDrain` from the idle timer with nothing queued, to the end of that `drain` and its `finally`, which starts another drain when calls came meanwhile |
| `Close`, `Release`, `Crash` | `close` of a waiting tab or a begun close of an owner; the end of the drain a closing owner awaits, after which it closes SQLite and frees the lock; termination |

A closing owner awaits the drain it finds (`archive-runtime.ts:246`). If that is a maintenance
turn and calls came during it, its `finally` (line 122) starts another drain that nobody
awaits (`turn` is `again`). The first of its calls asks for the selection gate before the
owner's own last `fenced()` (line 250) does; the gate is a Web Lock, granted in the order of
the requests, so that call still finds the database open. Every later one may find it closed
(`abandoned`): `Release` may come before, between or after them, and once it came they have
no effect. What was left is answered by the client, with UNKNOWN_OUTCOME.

Abstractions. A port message inside a tab is reliable and ordered, and a worker
that receives a call at once holds, forwards or enqueues it, so the call and its
ingress are one step. Requests come in two kinds, commits (with a transaction
identity and a receipt) and others. Which kind of error a refused execution
raises is one value, FAILED. Every tab opens its archive once; a reopened tab is
another tab. Workers of the mode `isolated-test`, which have no gate, are left out. A maintenance
turn is one span in which calls wait; that it may find the gate broken is kept. Streams of
progress, search and change notices carry no state of the protocol and are left out. With `Prompt = FALSE`, messages of one sender arrive in order and messages of
different senders in any order; with `Prompt = TRUE`, the oldest message is handled
first and all messages are handled before a later owner has finished opening.

### 2.2 GenerationRun

| Variable | In the code |
|---|---|
| `pc`, `op` | where `startCoordinatedGeneration`, `runGeneration` and the event loop are |
| `sequence`, `taken` | the counter; `pending` is the interval `taken+1 .. sequence` |
| `timer`, `committing`, `flushFailed` | `flushTimer`, `committing`, the stored flush error |
| `call` | one `commit()` per activity: the loop and each idle flush in flight |
| `wire`, `replies` | requests at the owner, answers on the way back, both in order |
| `told`, `outcome` | last checkpoint notice; result of the run |
| `lease` | Web Lock of the generation |
| `admitted` | the write at the head of `wire` passed `assertWritable` and is not committed yet |
| `row`, `last`, `receipts`, `seal` | producer row, `lastSequence`, operation receipts and seal in SQLite |

| Action | In the code |
|---|---|
| `AcquireLease`, `Registered`, `Created` | lease, `registerGeneration`, creation of the attempt |
| `Text`, `Checkpoint`, `Settled`, `Hashed`, `Checkpointed`, `RunFails` | `appendText`, `append`, raw records and the final batch, with the wait for an idle flush before and the hash in between |
| `TimerFires`, `Flushed`, `FlushFails` | the idle flush |
| `Retry` | `commit()` after an unknown outcome: operation status, then the batch again |
| `Settle`, `ReleaseLease`, `ContextLost` | `settle()`, and the loss of the tab |
| `Admit` | the first part of a commit at the owner, up to the awaited look at row and lease (`archive-database.ts:575-605`) |
| `Serve` | execution at the owner: the commit of an admitted write with its sequence and seal checks, or the refusal of the fence; stage; status; register; release |
| `OwnerLost`, `ReplyLost` | the owner dies with its queue; a deadline passes with or without its cancellation succeeding |
| `Reconcile` | `reconcile()` of the owner's maintenance |

Abstractions. One attempt with one row is modelled. A mutation is its sequence
number, a batch an interval. The status probe of a batch asks for its operations
one after the other; they were committed together, so it is one request.
Between `Admit` and the commit the lease may go, the deadline may pass and the
owner may die; it does nothing else meanwhile, because it executes one call at a time.
`discardBlobTransfer` after a failed batch changes nothing that the properties
see and is left out. A provider may stop sending at any point.

### 2.3 SelectionCatalog

| Variable | In the code |
|---|---|
| `head`, `state`, `retained` | the tables `selection`, `operations`, `retained` of the catalog |
| `args` | the payload an operation is reviewed and stored with |
| `water` | the highest sync sequence of each archive |
| `pin` | `pinned` of an owner worker |
| `call` | its running call: place in `gated`, abort signal, `publicationAttempted`, `knownReceipt`, answer |
| `unavailable` | `unavailable` of its catalog |
| `gate` | the Web Lock of the selection |

| Action | In the code |
|---|---|
| `Open`, `Inquire`, `Review` | `start` with its first `guard`; `read` and `status`; the review of a candidate |
| `AskWrite`, `AskActivation`, `Abort` | a call reaches the owner's drain; its signal fires |
| `Enter`, `OpenFails`, `Close` | gate and `open()`, `open()` failing, the `finally` of `gated()` |
| `Admit`, `Write`, `Refuse` | `assertCurrent` of `guard()`, after an await the effect, and every refusal |
| `Replay`, `Intend`, `ReviewRefuses`, `Publish` | `activateReviewed`: the receipt of a committed operation, the prepared row, `withActivationReview`, `commit` |
| `ReceiptFound`, `NoReceipt`, `Unreadable` | its `catch`: the operation is read back |
| `Crash` | the worker ends, its locks are freed |

Abstractions. A context is an owner worker; it holds the owner lock of its archive and
executes one call at a time, so tabs that forward to it add nothing. `Open`, `Inquire` and
`Review` do nothing between their awaits that another context can see and are one
step each. Archive maintenance runs under `guard` as a write does. Publication is one
SQL transaction: durable and confirmed, durable without confirmation, or rolled back;
a `ROLLBACK` that fails is taken to mean that the transaction is over. Which
candidate a restore produced is a choice among the archives. The first bootstrap of
a catalog, its queue limit of 16 and the recognition of a corrupt catalog are left out.

### 2.4 EmbeddingScheduler

| Variable | In the code |
|---|---|
| `state`, `background` | as `statistics()` shows them |
| `closing`, `draining`, `observed` | the mode of `shutdown`; the unresolved promises of `drainBackground()` and `drain()` |
| `job` | `jobs`: stage, whether the cache was asked, consumers |
| `hot` | the in-memory cache |
| `pump`, `scheduled` | where `pump()` awaits; a pump that `kick()` put on its way |
| `active`, `fallbackUsed` | the batch of the executor; the one fallback |
| `outcome` | what the promise of each request settled to |

| Action | In the code |
|---|---|
| `Refuse`, `ServeHot`, `Enqueue`, `Cancel` | `submit` with its limits, the in-memory cache, a new or a shared job; `cancel` and the abort signal |
| `Miss`, `Hit`, `Unwanted` | the answer of `lookup`, a timeout counting as a miss |
| `Start`, `Continue` with `Dispatch` or `Exhaust` | a turn of `pump()`: `candidates`, lookups sent, a batch dispatched, or the end of the loop |
| `Discard`, `Succeed`, `Fail`, `Recover` | the executor answers: too late, with vectors, with an error without or with a fallback left |
| `Switched`, `NotSwitched` | the fallback answers |
| `PauseBackground`, `ResumeBackground`, `DrainBackground`, `Drain`, `ClearCache`, `ShutdownCancel`, `ShutdownDrain` | the calls of the service |

`CheckDrains` and `Resolve` are the end of every step that calls `checkDrains()`.
Abstractions. The background priorities 1 to 4 are one class, in which ageing and arrival
may order jobs in any way. Token budgets and byte limits are refusals like
the limits that are kept; a batch is at most `Batch` jobs. One observer calls `drain()`
at a time.

### 2.5 SearchIndex

| Variable | In the code |
|---|---|
| `present`, `text` | the canonical records of a source and their version (its signature) |
| `rebuilding`, `queued`, `sweep`, `head` | `rebuilding_epoch`, queue rows of sources, `after_id` of the row of a scope, heads with their chunks |
| `litter` | groups of rows that no head, run or living epoch owns |
| `work`, `maybe` | the run in memory with its row in `builds`; `maybeObsolete` |
| `slice`, `broken` | a slice may go on; `searchFailure`, the triggers dropped |

| Action | In the code |
|---|---|
| `DropStale`, `CleanUp`, `Expand`, `SkipVisible`, `DropAbsent`, `Begin`, `WriteChunk`, `Publish`, `SwitchEpoch` | the turns of the loop in `advance()`, in the order of its tests |
| `CannotBegin`, `FailRun` | a source that cannot be loaded or chunked |
| `Advance`, `Settle` | `advanceSearch`: a slice begins when `status()` counts something, and may end after any turn |
| `Change`, `ChangeShared` | canonical changes with their triggers |
| `Rebuild`, `Yield`, `Restart`, `Break`, `Repair` | `rebuild`, `yieldResources`, reopening the archive, an `advance()` that throws, `installDerived` |

Abstractions. Epochs are named for their role. `litter` counts groups, and a cleanup
removes some. Of the four scopes the global one stands for all. A slice is one transaction
whose `COMMIT` succeeds. The version of the chunker, extraction pages and
repeated rebuild identities are left out.

### 2.6 ChatController

| Variable | In the code |
|---|---|
| `thread` | the conversation in the archive: revision, reviewed context, routing profile, selected leaf |
| `op`, `step`, `plan`, `mine` | the operation, its await, its fallback plan, the thread as it saw it |
| `att` | its attempts: await, expected revision, profile of the check, cancelled run |
| `run`, `runs`, `cancelled`, `disposed` | the same in `createChatController` |
| `pending` | the batch of unknown outcome in the library |
| `halted`, `begun`, `sent`, `chosen` | history: stopped, changes of the other tab when the operation saw the thread, dispatched, changes at the selection |

| Action | In the code |
|---|---|
| `Start`, `ReadThread`, `ReadPath`, `SaveTurn`, `AfterAttempts`, `Decide` | `send`, `compare`, `regenerate` around their attempts; `fallbackAfter` |
| `View`, `Lease`, `Create`, `SelectOutput` | `attempt()`: the view and its comparison, lease and registration, creation, `onCreated` |
| `Prepare`, `SendRequest`, `Respond`, `BreakOff` | the adapter's check, the host's check and the fetch, the end of the stream |
| `Stop`, `Dispose`, `Inspect`, `Reconcile`, `Foreign` | the user, the tab, an inspection that clears the stop flag, another tab |

A turn and a comparison start from the conversation on the screen. A regeneration and a critique set
`busy` and then read it (`ReadThread`, `chat.ts:1302` and `1251`); nothing compares it with what the user saw.

Abstractions. A critique is a regeneration without a plan. Composition, price, regions
and reports may refuse where the code looks at them. The checkpoints of a stream are those
of `GenerationRun`.

## 3. What the runs check

| Run | Shows |
|---|---|
| `runtime_two_requests` | two tabs, a commit and another call, maintenance turns: types, `WorkUnderLock`, `RefusalIsFinal`, and the refinement `KeepsPromises` of `OnceService` |
| `runtime_retry` | a commit and its retry with one transaction, limit 1, openings and catalogs that fail: `KeepsPromises` |
| `runtime_liveness` | `SilentMeansSettled`; under fairness `EveryCallAnswered` and `OwnerDiscovered`; all with `Prompt` |
| `generation_attempt` | types, `PrefixHasNoHoles`, `SealKeepsDelivered`, `ReportedIsDurable`, `NothingStranded`, the refinement `ImplementsLog`, `EventuallySettled`, `RunEnds` |
| `selection_switch` | types, `Lineage`, `SourceFrozen`, `PreparedIsRunning`, `AnswersTrue`, the refinement `ActsAsRegister` of `SelectionRegister` |
| `embedding_schedule` | types, `WaiterHasJob`, `NeverIdle`, `PromisesPending`, `ClosedStaysShut`, `RequestsAnswered`, `ShutdownEnds` |
| `search_index` | types, `VisibleIsCurrent`, `NothingForgotten`, `GarbageIsSeen`, `SwitchIsComplete`, `EventuallyIndexed` |
| `chat_operations` | types, `StopReachesAll`, `SentAsReviewed`, `NothingSentAfterStop`, `StopEnds` |
| `runtime_open_failure`, `generation_invisible`, `search_rebuild_ends`, `chat_fallback_unsent` | findings 1 to 4 |

Properties in words.

* `WorkUnderLock`: SQLite is open, and work queued or running, only in the lock's
  holder. The one exception are the calls of an `abandoned` drain (2.1), which outlive the
  lock; that they have no effect is what `KeepsPromises` and the theorem
  `EffectsByOwner` are about.
* `RefusalIsFinal`: a request whose caller was told "cancelled", "closed",
  "overloaded", "not dispatched" or "cancelled before commit" has not taken effect
  and never does, in whichever owner a copy of it may still be on its way.
* `KeepsPromises`: every step is a step of `OnceService`: a transaction takes effect
  at most once, effects of one tab are in issue order, each "done" and each "never"
  is true when it is said and stays true.
* `EveryCallAnswered`, `OwnerDiscovered`: no call waits for its deadline; a tab that
  stays learns of the owner that stays.
* `SilentMeansSettled`: when no worker has anything left to do, every call has its answer and
  every open tab knows the owner. No fairness and no deadline enters into it.
* `PrefixHasNoHoles`, `SealKeepsDelivered`, `ReportedIsDurable`: the numbers of the
  loop and of the flushes beside it join; a sealed output holds every delta the
  producer counted; a run that reports success sealed its attempt.
* `NothingStranded`, `EventuallySettled`: a settled row leaves no open attempt and no
  late batch reopens or creates one; an abandoned attempt is settled.
* `ImplementsLog`: an append-only log, extended only by batches that were admitted one at a time
  while the producer held its lease. So at most one batch follows the producer's end, none
  follows the recovery, and the log is sealed once, by recovery only when the producer is
  gone and nothing is admitted.
* `RunEnds`: after the end of the stream the run ends, whatever flushes and retries do.
* `Lineage`: what `current()` demands of the catalog at every opening always holds, and
  the committed activations form one line of distinct archives.
* `SourceFrozen`: an archive that was replaced has the history it was reviewed with,
  although contexts with delayed writes to it live on.
* `PreparedIsRunning`: whoever has the catalog open sees no intent of somebody else.
* `AnswersTrue`: an activation is called successful only when it is committed, cancelled
  or conflicting only when it is not. A plain FAILED promises nothing: a catalog that
  fails to close after an unreadable receipt gives it to a committed activation.
* `ActsAsRegister`: there is one selected archive, only it is written, and it changes in one
  step, from the reviewed selection with the reviewed history.

* `WaiterHasJob`: whoever waits has a job that knows it; no job is dropped under a consumer.
* `NeverIdle`: whoever waits, and a draining shutdown, has a pump or a lookup to wait for; only
  a pause holds background requests back.
* `PromisesPending`: an unresolved promise of a drain or a shutdown has something to wait for.
* `ClosedStaysShut`: after `shutdown('cancel')` no late batch, fallback or lookup serves,
  caches or keeps a job. `RequestsAnswered`, `ShutdownEnds`: requests are answered unless they are
  background ones under a pause, and a draining shutdown closes.
* `VisibleIsCurrent`, `NothingForgotten`: what a search sees is made of the present text; what it
  does not see although it is there, and what it must lose, is queued or still to be swept.
* `GarbageIsSeen`: `maybeObsolete` is never wrong about rows that nobody owns.
* `SwitchIsComplete`, `EventuallyIndexed`: an epoch takes over with every source as it is, and a
  source that stays gets indexed or reported as failed.
* `StopReachesAll`, `NothingSentAfterStop`, `StopEnds`: a stop at any await finds every attempt that was
  started, nothing is dispatched after it, and the operation ends without the provider.
* `SentAsReviewed`: the first attempt of a send or a regeneration is prepared only if nobody
  changed the conversation between the view that the operation rests on and its
  selection. For a send that view is the one the user clicked in. For a regeneration or a
  critique it is the one read after the click, so a change made between the click and that
  read goes unnoticed, and the property does not say otherwise. A comparison
  deliberately follows the conversation and is not covered.

### Bounds

* Two tabs: every race of the protocol is between an owner and one other worker,
  or between two owners in succession; a third tab adds only bystanders. Two
  requests: order within one tab, a request and its retry, and a request met by
  the other's cancellation need two.
* `MaxPending` 1 and 2 (64 in the code): with two requests the limits are reached
  at 1 and not at 2. `MaxCancels = 1` (8): one cancellation fills it.
* Each tab starts once, each request is issued and cancelled once: `Crash`, `Close`
  and `OpenFails` use up tabs, so the runs cover every handover between the two.
* Up to four checkpoints (`MaxSequence = 4`): creation, a delta of an idle flush, a
  checkpoint beside it, and the final batch. `MaxPending = 2` (16 in the code)
  makes the inline flush happen. `MaxAttempts = 3` is the code's value.
  `MaxFaults = 3` uses up the attempts of one commit, or strikes three different
  ones. Two flushers: flushes that overlap need two, and a third would need a fourth delta.
* Two contexts: the one that activates and one that is pinned to the source, to the
  candidate, or to an older selection. Three operations over three archives: a chain of
  two activations, and a third that would lead back to a retained archive. Two writes,
  before and after a review; four calls: two activations, a retry and a write.
* Three requests over two texts: an interactive and a background one that share a job, and a
  background one of its own. Two jobs, three consumers, two of them per job, one cached
  vector: jobs, consumers and jobs' consumers can be filled, and a cached vector evicted, but with
  three requests nobody is refused by a full table; refusals come from closing and draining.
  A batch of two.
* Two sources of two chunks, expanded one per page, so that an expansion, a run and an
  epoch can each be interrupted half-way; one change of each source (`MaxText`), three
  rebuilds, interruptions, restarts or failures together (`MaxCuts`).
* Two operations (`MaxOps`), because a flag or a handle may outlive the first; two
  attempts each, which are the compared ones or an attempt and its fallback; one change by
  the other tab (`MaxForeign`), of any of the three kinds.
* Deadlock is not checked: tabs may all be closed, a run may be over, a scheduler shut.

### Fairness

`ArchiveRuntime`: a free lock is granted to some waiting tab, a begun opening ends, a
queued message is handled, a queued request is begun, executed or refused, and
delivered, a maintenance turn ends, and a closing owner leaves when the drain it awaits is over. These are steps the
browser's lock manager and event loops take by themselves. Nothing is assumed of users,
deadlines, closing or crashing, and no maintenance turn has to come. `Prompt` is a timing assumption: a message is
handled before an election and an opening of SQLite that began after it was posted.
Without it, an `owner` message can arrive after that owner's `released`; then calls
end by their deadline, and a hazard in `PROJECT.json` says so.

`GenerationRun`: the owner admits, serves and maintains, timers fire, promises resume. The
provider may fall silent at any point, and no fault is obliged to happen.

`SelectionCatalog` has safety properties only and assumes no fairness.

`EmbeddingScheduler`: a task that was scheduled runs, a lookup has a timeout in the code, and
the executor and the fallback return or throw. No call of the service has to come.

`SearchIndex`: maintenance comes back while `status()` counts something and completes turns;
that is all. Finding 3 is what this fairness does not give.

`ChatController`: local awaits end (archive calls have deadlines), and a cancelled request ends. A
provider that was not told to stop may stream for ever, so `Respond` is not fair.

## 4. What is proved

The theorems hold for any tabs, calls, limits and faults, under the named
assumptions of the modules (`CallsAssumption`, `CommitAssumption`, `LimitAssumption`,
`FaultAssumption`, `NoneAssumption`; `BoundsAssumption`, `FlusherAssumption`; in the
catalog `ArchiveAssumption`, `FiniteAssumption`, `BoundAssumption`, `NoneAssumption`), which TLC evaluates in every run.

* `ArchiveRuntimeProofs!Typing`: `Spec => []TypeOK`. The lemmas go handler by handler;
  the type of `inbox` needs what each constructor of messages returns.
* `Exclusion`: `Spec => []WorkUnderLock`. It is not inductive: the handler for a
  received call enqueues when `known[r] = r`, without looking at the lock. The
  inductive invariant `ExclusionInv` adds that a worker between grant and release
  holds the lock, that calls are left in a worker without its database only when it has closed with
  an abandoned drain (`LeftBehind`), that a worker takes itself for the owner only with its database
  open, and that no worker ever hears an `owner` message of its own, which is what
  keeps `known[r] = r` from being set by the bus.
* `EffectsByOwner`: `Spec => [][EffectsUnderLock]_vars`. Every change of what is durable is made by the
  running request of the worker that holds the lock with its database open. It is what the exception
  in `WorkUnderLock` leaves of the exclusion: calls may outlive the lock, their effects may not.
* `Finality`: `Spec => []RefusalIsFinal`. A refusal can be on its way
  in a reply while another copy of the request might still be executed, so the
  inductive invariant `RefusalInv` is about the whole life of a request. `OnePlace`
  and `OneTime`: it is held by its caller's worker, in one message, in one queue or
  active, in one of them and once. `RefusedInv`: a request whose refusal was told, or is in a
  message, waits nowhere; if it is active it is over, or its abort signal is
  set and it is a commit, which looks at the signal again. `DoneInv`: a request that
  took effect has its receipt and waits nowhere. `FreshInv`: nothing is known of a
  request before it is issued. `PlacesKeep` says once what a step that moves
  requests to one place does to all of these; the lemmas per action name the move.
* `ArchivePromiseProofs!Promises`: `Spec => KeepsPromises`, the refinement of `OnceService`.
  Beyond `RefusalInv` it needs `OrderInv` and `ReceiptInv`. `OrderInv`: the requests of one
  caller never overtake each other, neither within a place (`LineInv`, `RouteInv`) nor
  from place to place (`StageInv`), so that no earlier one is left once a later one took effect
  (`LateInv`), but for what a closed owner left behind, which can only fail; across
  a handover this rests on two facts: a worker that knows an owner holds nothing, and
  calls are only on their way to the one worker whose database is open. `ReceiptInv`: whoever
  is told, or is about to be told, "done" has a receipt. `Settles`: only a new or
  pending call is answered. Then `Issue` is the service's `Issue`, `Execute` is
  `TakeEffect` or, for a known transaction, a stutter, and every other step is `Answer`.
* `History`: `EffectsOnceInOrder` and `ToldTrue`, the promise as a reader of the archive sees it. Through any
  handover no transaction has two effects, the effects of one caller come in the order it issued
  them, and who was told "done" has the effect there. `HistoryInv` ties the receipts to the
  effects; that an effect is the latest of its caller is `LateInv` from above.
* `ArchiveProgressProofs!NeverSilent`: `SilentMeansSettled`, with the two facts it rests on as theorems of their
  own. `Discovery`: an open tab knows the owner that serves, or that owner's announcement is the last
  one in its box, or its own greeting is in the owner's box. `Accounting`: an unanswered call is held by
  a worker that looks for an owner or was sent to the owner its worker knows, and there it is in a
  message, queued, running, or its reply is on the way back. `BusInv` says whose messages a box can
  hold. All three assume `Prompt`, the timing assumption of 2.1, which the tabs of
  one browser meet except for a message that is delayed past an election and an opening. They are false
  without it: that is the hazard of a late `owner` message (`archive-runtime.ts:230`), in which a call
  waits for its deadline.
* `GenerationRunProofs!Typing`: needs `Counted`, which bounds the counter by the place of
  the loop (each operation reserves room for the number it will take), and `Batches`:
  no batch is empty.
* `NoHoles`, `Recovery`: `PrefixHasNoHoles` and `NothingStranded`. They rest on `RowInv`,
  which says what may be under way before the row exists: no write, so no attempt
  is created without a row, and only the row lets a write through the fence.
* `Refinement`: `Spec => ImplementsLog`. `AdmitInv` in `LogInv` says that the row of an admitted write stays
  active until its commit, because the owner does nothing else between the two. With it `Admit` maps to
  `Grant`, the commit to `Extend`, a refusal or a lost owner to `Refuse`, reconciliation to `Recover`,
  and each producer step to a stutter or to `Stop`.
* `Delivered` and `Reported`: `SealKeepsDelivered` and `ReportedIsDurable`. Neither is inductive: a final checkpoint seals whatever the archive has
  by then, so the proof must know where every number is. The invariant `SealInv`
  follows the exchange between the producer's activities and the owner: an activity waits for
  one request or one answer and never both (`Callers`, `WireInv`, `ReplyInv`, `OneAnswer`), so a
  yes is about the batch it sent; what the loop has taken is committed or in a call under
  way (`Underway`); no batch is ahead of the counter (`Within`); the final batch is
  newer than every flush still under way, and alone completes the seal (`Finals`).
* `Unstuck`: `NeverStalls`. Outside the wait for the provider the loop, the owner or a commit with its
  answer in hand has a step. It needs the converse of `OneAnswer`, that a waiting activity is
  owed its answer (`Owed`: a request that is lost leaves an answer behind), and that the flag
  which holds the final checkpoint back is raised only while a flush is in flight (`FlagInv`).
* `Sealedness` and `Leases` are what a reader of the attempt gets from the refinement: a
  sealed output never changes, and a partial seal means that the producer's lease was taken and is gone.
* `SelectionCatalogProofs`: `Typing`, `OneLine`, `Frozen`, `Prepared`, `Truth` and `Refinement` state
  every property of `selection_switch`. The inductive invariant `Inv` adds two parts.
  `Line`: no committed operation left the selected archive, which is why a write to
  it disturbs no frozen source and why the next revision is new. `CallsOk`: what each
  stage of a call may rely on although it was checked a step earlier (current
  selection, fresh candidate, no receipt); it survives the steps of other contexts
  because they either leave the catalog alone or hold the gate. That the revision
  counts the committed operations needs the finiteness of `Operation`. `Retired`
  (`ReplacedForGood`) joins what several of them say in one action property: a replaced archive is
  never written and never selected again.

* `EmbeddingSchedulerProofs`: `Typing`, `Waiters`, `Wakeups`, `Promises`, `Caching` and `ShutsForGood` state
  every safety property of `embedding_schedule`. The inductive invariant adds `Stand` (the place
  of the pump, its batch and the visible state agree, and a pump is on its way only
  while none stands) and `Shut` (what a closed scheduler has left). `Wakeups` rests on the
  order of `candidates()`: after an exhausted turn either nothing is eligible or an
  interactive lookup is out, whose answer wakes the pump. `Progress` (`NeverIdle`) follows from it: a job that
  waits is eligible, being looked up, in a batch, or held back by a pause; and with `Quiet`,
  nobody waits for a scheduler that has stopped. `NoLostWakeup` and `CachedIsServed` (a text whose
  vector is in memory has no job) are parts of the invariant and not run on their own.
* `SearchIndexProofs`: `Typing`, `Visibility`, `Memory`, `Scans` and `CompleteSwitch`. The invariant adds
  `RunIsLive` (a run is one of a living epoch, and its source is there while its
  signature stands) and `Remembered`, which is stronger than `NothingForgotten`: of a source that
  has gone only the queue may know, because a sweep does not come across it. `PageIsFirst`
  shows that a page is a beginning of the sources in key order. `Status` (`CaughtUpOrDue`) is about the
  number the user sees: unless the index is broken, `status()` counts nothing only when every source shows as it is or
  as failed, and a slice that is started because it counts something has a turn to do.
  Finding 3 is no exception to it: what is not counted there is the epoch to be switched to, which already
  shows every source.
* `ChatControllerProofs`: `Typing`, `Reaches`, `Reviewing` and `Silence`. The invariant adds `Phases`
  and `Registered` (which attempts may be under way, and where their handles are),
  `Reviewed` (the revision an attempt expects counts the other tab's changes since the
  operation saw the conversation; until `ReadThread` there is nothing to count from) and
  `Budget`, which bounds the revision by the changes still owed. `Told` (`StoppedAreTold`):
  once the user stopped, the run of every attempt under way is cancelled, also of one that was being
  selected or registered at that moment, so the end of the operation is not the provider's to give.

Only model-checked: liveness under fairness, which the proof system cannot treat, and the
properties of the four findings, which are false. Of the liveness properties the half that is
about states is proved: `NeverSilent` for `EveryCallAnswered` and `OwnerDiscovered`, `Unstuck` for `RunEnds`,
`Progress` for `RequestsAnswered` and `ShutdownEnds`, `Status` for `EventuallyIndexed`, `Told` for
`StopEnds`. They say that nobody waits for nothing; that the waiting ends, and that no cycle
of steps goes on for ever, is left to TLC. Every safety property, action property and
refinement that a passing run checks is also proved.

## 5. Findings

Each is a run that ends in a violation of what the repository says.

1. `runtime_open_failure`: `fail()` (`storage/src/worker/archive-runtime.ts:210`) rejects every
   waiting call with the fatal error, also those dispatched to the previous owner,
   which may have executed them. `client/archive.ts:207` and ADR 0002 promise
   `UNKNOWN_OUTCOME` for those.
2. `generation_invisible`: a flush timer that fires during a commit
   (`providers/src/generation.ts:292`) is not set again; later deltas stay invisible while the
   provider pauses.
3. `search_rebuild_ends`: a slice that ends after the last source of a rebuilt epoch, before the
   turn that switches epochs, leaves nothing that `status()` counts, so
   `advanceSearch` (`storage/src/worker/archive-database.ts:363`) starts no other: the epoch is
   not used until something else changes. ADR 0007 says that completion swaps epochs.
4. `chat_fallback_unsent`: an attempt that was created and then not selected counts as failed: its
   selection was not confirmed, or was refused because another tab changed the conversation, or the
   view after it could not be loaded (`providers/src/generation.ts:483`). `fallbackAfter()`
   (`app/src/workflows/chat.ts:731`) then sends to the fallback although no provider saw the
   request; `app/src/runtime/fallback.ts:84` says that a fallback applies only to provider
   failures. The shortest trace needs no other tab.

Disagreements seen while modelling, without a run of their own:

* An owner that closes during a maintenance turn leaves work behind. ADR 0002 (line 19) has it hold
  the Web Lock until queued work drains. TLC finds `DrainedBeforeRelease` violated: a tab becomes owner and
  turns to maintenance; two calls arrive and wait; it closes, and awaits the drain it finds
  (`archive-runtime.ts:246`); the turn ends and its `finally` (line 122) starts another drain, which serves the first
  call; the owner closes SQLite and frees the lock with the second call queued. That call has no
  effect and its caller is told UNKNOWN_OUTCOME, which is true.
* A regeneration or a critique does not notice what another tab changed between the click and the
  read of the conversation (`chat.ts:1302`), while a send is refused then.
* `gated()` (`selection/managed-catalog.ts:231`) throws the error of closing the catalog in place
  of the result of a guarded commit: `FailureMeansNoEffect` of `ArchiveRuntime` fails that way too.
* The notice after a flush (`providers/src/generation.ts:282`) carries the counter after the
  `await`, ahead of what is durable (`NotifiedIsDurable` in `GenerationRun`).
* An inline flush (`generation.ts:378`) clears the flag of an idle flush in flight, and the next
  timer starts a second one beside it (`NoOverlappingFlushes`). The sequence checks of
  the archive keep the prefix whole.
* `closeBatch` (`search/index.ts:176`) swallows a failing `COMMIT`; ADR 0007 and ADR 0038 have a
  failure break the index. The model takes the `COMMIT` to succeed.
* An upgrade of the chunker during a rebuild goes on with the epoch that was begun
  (`search/index.ts:333`) and keeps its heads of the older version; ADR 0034 has it rebuilt.
* `pauseBackground()` during `drainBackground()` sets the mode to paused
  (`quixi-embed/src/scheduler/scheduler.ts:252`), in which background work is admitted again; the
  contract of a drain (`types.ts:68`) is that it is not.
* A fallback that fails after `shutdown('cancel')` turns a closed scheduler into an unavailable
  one (`scheduler.ts:195`); `ClosedStaysShut` holds for both names.
* `dispose()` (`chat.ts:1361`) cancels the selected run and not those of a comparison. They send
  nothing new (`NothingSentAfterStop`), but a stream that is under way goes on.
* A queued retry that is cancelled is reported as `cancelled_before_commit`
  (`archive-runtime.ts:91`) without a look at the receipt of its transaction. The answer is
  true of that request; the transaction may have taken effect earlier.

## 6. Plan

Done: the archive runtime, the generation producer with its recovery, the selection of
archives, the embedding scheduler, the search index, the chat controller. Left, in the
order of what they would add:

1. The semantic index: claim, embed and publish against enrolment and chunk changes, composed
   with `EmbeddingScheduler` through the results of its jobs.
2. Archive jobs (export, restore) as resumable jobs with their files, and the publication of
   extracted documents.
3. The bootstrap of a fresh catalog against a legacy worker that has the default archive open.
