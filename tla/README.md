# Queuert: a verification project

Queuert keeps background jobs in the application's own database: clients start
*chains* of jobs inside their transactions, workers take the jobs one at a
time, run user handlers and complete or retry them, and leases bring back the
jobs of workers that died. This directory models that system in TLA+, checks
the models with TLC and proves the main safety results with TLAPS. Paths below
are relative to the repository; `core/` stands for `packages/core/src/`,
`postgres/` and `sqlite/` for `packages/postgres/src/` and
`packages/sqlite/src/`.

## 1. Inventory

| Component | State | Operations | What is hard | What makes it correct |
|---|---|---|---|---|
| Client (`core/client.ts`, `core/implementation/`) | none of its own | startChain(s), triggerJob(s), completeChain, deleteChain(s), awaitChain, lists and reads | runs inside the caller's transaction beside workers; completes jobs a worker is running; handles of chains go stale; pages of a list are read while it changes | a chain has one live job; completion is final; blockers and chains stay consistent; no completion is slept through; no row is skipped |
| State adapter, in-process (`core/state-adapter/state-adapter.in-process.ts`) | job table, blocker table, ten indices, a journal per transaction | 14 writes, reads and lists | rollback to savepoints; indices maintained by hand; deduplication; cascades | tables well formed; indices agree with them; a rollback restores everything |
| State adapters, PostgreSQL and SQLite (`postgres/state-adapter`, `sqlite/state-adapter`) | the same in SQL | the same as statements | READ COMMITTED snapshots, row locks and `SKIP LOCKED` (PostgreSQL); one writer behind a lock (SQLite) | the same, under their concurrency; all adapters agree |
| Attempt execution (`core/worker/job-process.ts`, `lease.ts`, `core/implementation/refetch-job-locked.ts`, `handle-job-handler-error.ts`) | a prepare and a complete transaction, an abort signal, a renewal loop | prepare (atomic or staged), complete, continueWith, renewal, failure | the staged handler runs outside any transaction while its lease may expire and its job be retried, completed or deleted | a lost attempt writes nothing; no running job is without a lease |
| Worker loop (`core/in-process-worker.ts`, `core/helpers/parallel-executor.ts`) | slots, `jobIdsInProgress`, worker id, a subscription | acquire, execute, reap, wait, stop | slots of one worker share an identity; crashes; wake-ups lost between a check and a wait; a stop beside all of it | due jobs are taken, expired leases resolved; a stop waits for the attempts of its worker |
| Read-write lock (`core/helpers/async-rw-lock.ts`) | a queue, a reader count, a writer flag | acquireRead, acquireWrite, release | order of waiters, repeated release | exclusion, no missed grant, first-in first-out, no starvation |
| Transaction hooks and contexts (`core/transaction-hooks.ts`, `core/helpers/transaction-context.ts`, `savepoint-context.ts`, `notify-hooks.ts`, `observability-hooks.ts`) | buffered side effects per key, savepoints | buffer, savepoint, rollback, flush, discard | nested savepoints; commit failures | exactly the effects of what committed take place |
| Notifications (`core/notify-adapter/`, `core/helpers/shared-listener.ts`, `postgres/notify-provider`, `packages/redis`, `packages/nats`) | listeners, wake-hint budgets, one shared subscription, one shared connection | notify, listen, provide and consume hints | lost and late notifications, subscribe against unsubscribe, budgets that expire | whoever waits and listens is woken; the connection stays while needed |
| Observability, dashboard, job type validation | no state the system depends on | | | |

Components interact in three ways: through the tables of the state adapter (all
of them, in transactions); through notifications, which only shorten waits; and
inside one process through the lock, the execution slots and the hooks.

Default worker concurrency is one slot (`core/in-process-worker.ts:350`).

## 2. Modules

| Module | Models | Form |
|---|---|---|
| `StateAdapter` | the two tables and what each method does to them; what a consistent pair of tables is | operators |
| `Queuert` | clients, workers, attempts, leases, the reaper, time and crashes over those tables | state machine |
| `SqliteAdapter`, `SqliteConformance` | the statements of the SQLite adapter; that they do, in every state of `Queuert`, what `StateAdapter` says | operators; invariants |
| `PostgresAdapter` | the PostgreSQL adapter, statement by statement, under READ COMMITTED | state machine |
| `InProcessStore` | the in-process adapter's map, indices, journal and rollback | state machine |
| `TransactionalTable` | what is promised of any store: `StateAdapter`'s tables with transactions and savepoints | abstract state machine, implemented by `InProcessStore` |
| `WorkerLoop` | the loop of in-process workers, their executor, wake hints and notifications | state machine |
| `ChainAwaiting` | `awaitChain`, the shared listener, the shared LISTEN connection | state machine |
| `Listing`, `InProcessListing` | lists read page by page while rows are written; the in-process lists compared with the SQL ones | state machine; operators |
| `TransactionHooks` | one transaction with its buffered side effects and savepoints | state machine |
| `TransactionEffects` | what is promised of those effects | abstract state machine, implemented by `TransactionHooks` |
| `AsyncRwLock` | the read-write lock | state machine |
| `QueuertProofs`, `StoreProofs`, `PostgresProofs`, `WorkerLoopProofs`, `AwaitingProofs`, `ListingProofs`, `HooksProofs`, `AsyncRwLockProofs` | theorems about the modules they are named after (`QueuertProofs`: also `SqliteConformance`; `StoreProofs`: `InProcessStore` and its refinement of `TransactionalTable`; `ListingProofs`: also `InProcessListing`; `AwaitingProofs`: `ChainAwaiting`; `HooksProofs`: `TransactionHooks` and `TransactionEffects`) | TLAPS proofs |
| `MCQueuert`, `MCPostgresAdapter`, `MCInProcessStore`, `MCInProcessListing`, `MCWorkerLoop`, `MCTransactionHooks` | instances for TLC | constants, symmetry, one view, one constraint |

How they fit together. `StateAdapter` is the common ground: `Queuert` composes
its operators into transactions, `TransactionalTable` into methods of a store,
`PostgresAdapter` into statements over snapshots, and `SqliteAdapter` is
compared with it operator by operator. What `Queuert` shows therefore holds on
the in-process adapter through `InProcessStore` (which implements
`TransactionalTable`), on SQLite through `SqliteConformance`, and on PostgreSQL
as far as `PostgresAdapter` shows it again (section 5 says where it does not).
`WorkerLoop` has the loop that drives the worker actions of `Queuert`;
`AsyncRwLock` is what makes transactions of the first two adapters serial.

### AsyncRwLock

`queue`, `readers` and `writerActive` are the closure's variables of those
names; `handle[c]` is the promise or lock handle a caller holds. An acquire
runs synchronously up to the promise it returns and a release calls `drain()`
before it returns, so each is one action (`AcquireReadNow`/`Later`,
`AcquireWriteNow`/`Later`, `ReleaseRead`, `ReleaseWrite`); `ReleaseAgain` is the
second call of a handle's `release`. The `while` loop of `drain()` is the
operator `LeadingReads`: the longest run of readers at the head of the queue.

### StateAdapter and Queuert

`jobs` maps each id to a job record and `blockers` holds the pairs
`<<job, blocking chain>>`. The in-process and SQLite adapters take their lock in
write mode for a whole transaction, so a committed transaction is one step; a
rolled back one is no step. A step of `Queuert` composes `StateAdapter`
operators the way the transaction calls adapter methods:

| Action | Code |
|---|---|
| `StartChain` | `startChains` → `createStateJobs`: `createJobs`, then `addJobsBlockers`; a batch is a sequence of such steps |
| `Trigger`, `DeleteChains` | `client.triggerJobs`, `client.deleteChains` of `Deletions`: some chains, with cascade also what they depend on |
| `CompleteChain` | `client.completeChain` with one `complete()` call |
| `FinishJob` = `FinishChain` \/ `ContinueWith` | `finishJob` without and with a continuation |
| `AtomicAttempt` | `performJob` and a handler that prepares in atomic mode: acquisition, handler and completion, reschedule or escaped error in one transaction |
| `StagedPrepare`, `StagedComplete`, `StagedFail`, `Abandon` | the prepare transaction with its lease, the complete transaction, the error path with and without a write |
| `RenewLease`, `LoseOwnership` | `commitLease` of the lease manager; a guard that fails and aborts the signal |
| `Owned` | `refetchJobLocked`, the guard of each transaction of a staged attempt |
| `Reap` | `reapExpiredJobLease` as the worker loop calls it |
| `Leave` | the `finally` block of the executor task, which deletes from `jobIdsInProgress` |
| `BecomeDue`, `ExpireLease` | the clock passing `scheduledAt` or `leasedUntil` |
| `Crash` | a process dies; a restarted one draws a new worker id |

Abstractions. Times keep only what the code compares: whether a job is due,
whether a lease is absent, live or expired. Ids are never reused (the default
generator draws UUIDs); a deleted id stays `"deleted"`, which lets stale
handles be told from fresh ids. Which due job is acquired and which expired
lease is reaped first is left open here, so nothing here depends on their
order; `InProcessStore` has the order. Inputs, outputs, type names, `windowMs`,
`excludeChainIds` and observability are left out. The branch of `createJobs`
that finds an existing continuation is not modelled here: `ChainShape` shows
that no job of the next index exists when `continueWith` runs.

Three flags open behaviour that callers may or may not show:
`ContinuationBlockers` (continuations with blockers), `StaleBlockers` (blockers
whose chain was deleted meanwhile) and `EscapingErrors` (handlers that let the
`JobNotFoundError` or `JobAlreadyCompletedError` of another job through).

### SqliteAdapter and SqliteConformance

The SQLite providers run a transaction under the write handle of the lock, so
its statements see each other and nothing else; what has to be shown is that
each statement does to the tables what the in-process method does with its
maps. Each operator is one statement of `sqlite/state-adapter/sql.ts`
(`FindReadyJobs` with its grouping, `ConnectedChainIds` with its recursion, the
updates of an attempt with their WHERE clauses) or the adapter method that
calls several. `Agrees(js, bl)` compares them with `StateAdapter` for the calls
the library makes, and says that no statement of a deletion trips over a
foreign key; `SqliteConformance` states it of every state of `Queuert`.
Only unblocking and adding blockers compare statements that are really written
differently; for the plain updates the agreement says that the SQL sets the
same columns. `SqliteCascades` is the recursive query against the closure.

### PostgresAdapter

A session's `tx` holds what its open transaction has written (`own`, `refs`)
and locked (`lock`); `job` and `blocker` are committed. A statement that reads
rows it does not lock takes two steps: the first computes from the snapshot the
rows it will lock (`target`), the second runs when their locks are free and
sees the latest version of those rows and of no others. `AddJobsBlockers`,
`Unblock`, `ChainLocked` and `DeleteLocked` are such second steps. Lock modes
are PostgreSQL's: `"share"` for foreign keys, `"noKey"` for updates, `"update"`
for `FOR UPDATE` and deletes. `Acquire` and `Reap` skip locked rows and check
their conditions again on the version they lock. `Rollback` may end a
transaction anywhere: errors, lost connections, deadlocks (which PostgreSQL
resolves by failing one of the transactions). `ForeignKeyHolds` has the
references of `job_blocker` and that of `chain_id`: a root whose chain keeps a
job cannot be deleted, and `ContinueWith` takes the `"share"` lock on the root
that the reference of the new row takes. `Operations` selects what sessions do.

### InProcessStore and TransactionalTable

`ix` is the adapter's state: the job map, the sequence numbers, the sorted
arrays per type of pending and running jobs, the chains, their last jobs, the
roots, the deduplication sets and the two blocker maps. `Write` applies one
journal entry through `IndexRemoveJob` and `IndexInsertJob`, `Undo` its inverse;
`RolledBackTo` is `rollbackTo`, reading the journal backwards. Rows are
immutable objects, so an index may hold an old version of a job until it is
replaced, as in the code. `WithTransaction`, `WithSavepoint`, `Resolve` and
`Reject` are the scopes. `TransactionalTable` knows two plain tables and a stack
of their former values; the refinement maps the job map to the table, the clock
to `due` and `lease`, and `saved` to the stack.

### WorkerLoop

A step is what a worker does between two awaits. `worker[w].pc` walks through
the loop: `acquire` (fill the slots while `hasMore`), `reap`, `provide` and
`notify` (publish what was reaped), `listen`, `check`
(`getNextJobAvailableInMs`), `sleep`, `dispose`, and out of it `backoff`
(`withRetry`), `draining` and `stopped`. `Listen` subscribes before `Check`
looks. `hint` is the wake budget of the in-process and Redis adapters, absent
(`NULL`) until provided and again after it expires; `outbox` holds commits whose
hooks have not run, `mail` notifications on their way. `Stop`, `Crash` and the
`Faults` (publications, subscriptions and database calls that fail) may come at
any time; `faulty` remembers that one did. `EndAttempt` is an attempt that
completes or reschedules its job, or finds that it lost it. `AbandonAttempt` is a
staged attempt that ends with its lease still in the table: the guarded
transaction of its error path fails (`job-process.ts:622-627`), or the error of
another job is taken for the loss of this one
(`handle-job-handler-error.ts:35-41`). The ghost `abandoned` marks such a lease.

### ChainAwaiting

`caller` is an `awaitChain` call or a listener of another channel; `shared` the
shared listener of each channel with the holder of its lock; `client`,
`handlers`, `listened` and `queue` the state of the pool provider, with its
serial query queue. The actions follow the promises: `Start`, `Join` or `Open`,
`Connected`, `Listened`, then `CheckChain`, `Decide`, sleep and `Wake`, and
`Dispose` with `Unlistened`. `Timeout` aborts a call at any time, `Faults` are
connects, queries, publications and connections that fail.

### Listing and InProcessListing

`table` has the rows, reduced to what lists tell apart; `reading` a traversal:
the query, the cursor, what was shown and, as a ghost, what was in the list at
every moment since it began. A page is one statement and anything may be
written between two pages, rows with earlier creation times included (a
transaction commits later than it began). `CursorOf` is what the adapter encodes
of its last row; `CoarseLists` names the lists whose cursor passes through a
JavaScript `Date` and loses what is finer than `Resolution`.
`InProcessListing` computes the same pages as the in-process adapter does, by
sorting everything and searching the array for the cursor.

### TransactionHooks

`hooks` is the map of the container, from keys to hook objects; `buffer` is the
state of each object, kept apart because a savepoint refers to the objects that
were registered when it was made; `saved` is the stack of open savepoints,
`rows` the writes the database transaction holds. `Push` is `getOrInsert` with
what callers do to the state it returns; `Snapshot`, `RestoredHooks`,
`RestoredBuffer` and `UndoneBy` are `captureSnapshot` and `restoreSnapshot` with
the checkpoints of the library's hooks. The three kinds of library hooks are the
keys `events` (run by flush), `undo` (run by discard and by savepoint rollback)
and `notify`; `user` is a hook of the caller, the only one caller code can set
or delete, since the library's keys are private symbols.

| Action | Code |
|---|---|
| `Create`, `CreateFails` | `createStateJobs`, complete or refused by `validateBlockers` at its last job |
| `Finish`, `FinishFails` | `finishJob`, complete or throwing after it has buffered the completion (no root, or `unblockJobs` fails) |
| `UserBuffers` | an effect of the caller's own hook |
| `UserThrows`, `UserCatches` | caller code |
| `Set`, `Delete` | the container's methods |
| `OpenSavepoint`, `ReleaseSavepoint`, `RollbackSavepoint` | the savepoint of `complete` (`savepoint-context.ts`) and `withSavepoint` |
| `Commit`, `CommitFails`, `Abort`, `Flush` | `withTransactionHooks` around `withTransaction` (`owner = "callback"`) and `createTransactionContext` (`"context"`) |

A call that fails keeps what it has buffered: of the jobs before the refused one
everything, of the refused job the events of its blocker spans if it has
blockers, of a `finishJob` its completion and possibly its notification.

A savepoint covers the database and the hooks, and savepoints are left in the
order opposite to the one they were opened in; the handles of `createSavepoint`
would allow any order. `TransactionEffects` has no hooks: it keeps one sequence
of effects, cut back by savepoints, and says which of them fire and which are
undone. The refinement maps its sequence to `rows`, so that it also says that
effects and committed writes agree.

## 3. Runs

The runs of the finite systems use `CHECK_DEADLOCK FALSE`: the supply of ids
runs out and a system whose chains are done may stop; a transaction ends. The
lock and the lists never stop, and there deadlock is checked.

| Run | Question | Bounds |
|---|---|---|
| `lock` | does the lock exclude, wake, order and serve as documented? | 4 clients: a writer, two readers behind it and one more to overtake |
| `safety` | do the tables stay consistent and do lost attempts stay silent, with crashes, takeovers and escaping errors; do the SQLite statements agree with the in-process adapter in each of those states? | 3 jobs, 2 blockers per job, also of continuations, one deduplication key, 2 workers of one slot, failures up to attempt 2: a chain of two and one that waits for it, a job with two blockers, a lease taken over once |
| `liveness` | does every chain settle and every expired lease resolve; does completion stay final? | 2 jobs, one deduplication key, 2 workers, one crash |
| `hooks` | do the library's hooks keep the promise of `TransactionEffects`, also when callers set and delete hooks of their own? | 3 effects, 2 of them in one call, savepoints nested twice, 2 hook objects |
| `indices` | do acquisition and reaper find the earliest due job and the oldest expired lease at the heads of their indices? | 3 jobs of 2 types, a clock of two ticks, no transactions |
| `journal` | do journal and rollback restore every index; is the store a plain table with savepoints? | 2 jobs, a journal of 3 entries, one savepoint inside a transaction: an undo of an undo's base, a job and its blockers deleted and back |
| `loop` | do waits, wake hints, faults, stops and crashes leave a job behind; does a stop wait for the attempts that run? | 2 workers of one slot, 1 job, failures up to attempt 2, all faults; two workers and one job are what a stolen hint needs |
| `postgres` | what do row locks and foreign keys keep under READ COMMITTED? | 2 sessions, 3 jobs, 1 blocker per job, 2 acquisitions of a job: two writers of one chain, and a third job that waits for it |
| `await` | is a completion slept through, a subscription lost, a connection leaked? | 2 waiters of one channel and 1 listener of another, all faults |
| `listing` | does a traversal skip or repeat a row; do all adapters return the same pages? | 3 rows, pages of 1 and 2, 2 creation times, exact cursors |
| `unblock`, `pages` | does the code do what the documentation and its tests say? | the smallest instance that decides it; both end with a counterexample (section 5) |

Bounds. `MaxAttempts` is the attempt number from which attempts no longer fail
and a live attempt's lease no longer expires (in `PostgresAdapter`, after which
a job is not acquired); it keeps retries finite and lets liveness be asked at
all. `MaxBlockers`, `MaxEntries`, `MaxSavepoints`, `MaxNow`, `MaxTime`,
`MaxBatch`, `MaxObjects`, `MaxDepth` and the sets of ids are as small as the
cases above allow. Symmetry (permutations of ids, and of workers with their
slots) is used in safety runs only, never where ids are compared. `safety` has a
view besides, `WhatIsRead`: states that differ only in the schedule or the
attempts of a completed job, or in what a slot remembers of a job that is
completed or gone, are one, since no guard and no property reads these again
(`Owned` is already false there, and completion is final). `listing` has a
constraint, `EdgesWhereRead`: blocker edges only forbid deletions, so for the
lists that do not read them every traversal with edges is also one without.

Fairness.

- `Queuert` (`liveness`): worker loops keep acquiring and reaping, since a loop
  always polls again after `pollIntervalMs`; handlers return; deadlines pass.
  Nothing is assumed of clients, of lease renewals, or of crashes. One worker
  stays up (`Crash` leaves one alive), as nothing can happen without any.
- `WorkerLoop` (`loop`) has that poll timer itself: `WakeByPoll` is part of the
  loop, whose steps are weakly fair. The two queries of the loop are strongly
  fair, which says that a database that is asked again and again answers some
  time; `withRetry` asks without end. Nothing is assumed of clients,
  notifications, hints, faults or stops.
- `ChainAwaiting` (`await`): pool and server answer, the timeout and the poll
  timer fire, and the shared listener's lock is had by whoever waits for it
  (strong fairness, justified by `EveryWaiterServed` of the lock). Nothing is
  assumed of the chain or of notifications.
- `AsyncRwLock` (`lock`): holders release in the end (`using` declarations and
  ends of transactions); nothing is assumed of acquires.

## 4. Proofs

All theorems hold for every value of the constants that satisfies the named
assumptions of the modules; the column says what is assumed besides.

| Theorem | Property | Assumes |
|---|---|---|
| `QueuertProofs!TypeCorrect`, `ChainsWellFormed`, `NoMissedUnblock`, `LeasesOnRunningJobs`, `CompletionFinal` | `TypeOK`, `ChainShape`, `BlockedWhileWaiting`, `LeaseOnlyWhileRunning`, `CompletionIsFinal` | |
| `QueuertProofs!RunningRecoverable` | `RunningIsRecoverable` | no escaping errors |
| `QueuertProofs!CurrentAttemptWrites` | `OnlyCurrentAttemptWrites` | one slot per worker |
| `QueuertProofs!NoBlockerDangles` | `NoDanglingBlockers` | blockers exist when given |
| `QueuertProofs!SqliteAgreement` | `SqliteAgrees` | blockers exist when given |
| `QueuertProofs!CascadesAgree` | `SqliteCascades` | finitely many job ids |
| `StoreProofs!IndicesStayTrue`, `OneOpenRoot`, `OrderStays` | `IndicesAgree`, `OneOpenRootPerKey`, `OrderIsStable` | |
| `StoreProofs!AcquisitionFinds`, `ReaperFinds` | `AcquisitionFindsTheEarliest`, `ReaperFindsTheOldest` | |
| `StoreProofs!StoreImplementsTable` | `ImplementsTable`, the refinement of `TransactionalTable` | |
| `PostgresProofs!WritersOfChainsSerial`, `ReferencesKept`, `CompletedChainsKept`, `SingleBlockersUnblock`, `DeletionTakesChains` | `ChainsInOrder`, `ReferencesExist`, `CompletedChainsStay`, `SingleBlockerUnblocks`, `ChainsDeletedWhole` | |
| `WorkerLoopProofs!StopWaitsForAttempts`, `DueJobsAreNoticed` | `StopAbandonsNothing`, `NoJobIsForgotten` | |
| `AwaitingProofs!CompletionsAreHeard`, `ListenersAreHeard`, `ConnectionGoesBack` | `NoCompletionMissed`, `RunningIsHeard`, `ConnectionReturned` | |
| `ListingProofs!ExactCursorsSkipNothing` | `StayersListedOnce` | exact cursors |
| `ListingProofs!SlicesArePages` | `PagesAgree` | |
| `HooksProofs!SavepointsRestoreHooks` | `LibraryHooksRestored` | |
| `HooksProofs!SpansAreEnded` | `SpansEndOnce` | `~CommitFailures` |
| `HooksProofs!EffectsWait` | `EffectsArePromised`, the refinement of `TransactionEffects` | `~Catching`, `~CommitFailures` |
| `AsyncRwLockProofs!WritersExclude`, `CountsExact`, `GrantsNotMissed`, `ServedInOrder` | `MutualExclusion`, `CountersExact`, `NoMissedGrant`, `NoOvertaking` | |

The assumptions are needed: section 5 has the counterexamples without them.
`WorkerLoopProofs`, `AwaitingProofs`, `ListingProofs`, `HooksProofs` and
`AsyncRwLockProofs` also prove the type invariants their other results rest on.

**Queuert.** `Consistent(jobs, blockers)` says the two tables are typed, chains
are well formed, a job is blocked exactly while it waits, and leases are on
running jobs; none of the last three is inductive alone (unblocking is right
because a chain's last job is the only incomplete one, which is `ChainShape`;
completing the last job keeps `ChainShape` because it is running or pending,
which needs the other two). `IInv` adds the types of the workers' memory.
The proof goes by layers: typing of each single-column update; lemmas about the
*layout* of chains (who is in which chain at which index) under the few ways
the code changes it (a root added, a successor added, the last job completed,
chains deleted); then one consistency lemma per `StateAdapter` operation; then
one case per action. `CompletionIsFinal` follows from a lemma on what a step
may do to a row. `SlotsCurrent`, the strengthening behind
`OnlyCurrentAttemptWrites`, says that a worker's single slot holds the current
attempt of every job the worker has leased. `NoDanglingBlockers` is inductive
with `IInv` once blockers are taken from existing chains.

**SQLite.** `TablesAgree` shows the agreement of any consistent pair of tables
whose keys are on root jobs (`KeysOnRoots`, since the statement looks at
`chain_index = 0` where the in-process adapter has an index of roots) and whose
blocker rows refer to roots. The first is shown to be invariant, the rest comes
from the invariant of `Queuert`: consistency is why "the last row of each blocking chain is
complete" and "the chain is complete" are the same question.
`CascadesAgree` compares the recursive query, which goes in rounds and is a
recursive function of the round, with the least set closed under blockers. A
round adds a chain as long as the set is not closed, so that as many rounds as
there are job ids close it (`RoundsGrow`), and no round leaves a closed set
(`RoundsStayInside`); both go by induction on the round, written as a least
counterexample (`LeastElement`, from the well-foundedness of the naturals).

**InProcessStore.** What the indices should hold is a function of the job map
(`Agree`), so the argument separates the two tables, jobs and blockers, from the
redundant rest. A journal entry *fits* the tables when it starts from the row
they hold; writing an entry that fits keeps the indices in agreement, for each
kind of entry (`CreateAgrees`, `UpdateAgrees`, `DeleteAgrees`,
`PutBlockerAgrees`), because the binary search, whose rounds halve a window that
keeps the bound inside (`WindowNarrows`), finds a row's place in a sorted set. A
`Path` is a sequence of well-formed tables that the entries of a journal lead
through; undoing an entry is writing the reversed one (`UndoWritesReversed`), so
that a rollback is the same path walked back. `StoreInv` says that the journal is
a path which ends in the tables as they are and passes through what they were
when each open scope began. `IndicesAgree` alone is not inductive: what a
rollback meets on its way is not in the state, only the path says so. Each
operation then has one lemma, that it `Advances` the path, and it is there that
the preconditions of the methods are used: that a created job has a free place
in its chain, that no open root has its key, that no chain is deleted in part.
The order of acquisition is kept along the path because an entry only adds or
removes one number. `AcquisitionFinds` and `ReaperFinds` follow from sortedness.

For the refinement the invariant has to know more of the tables. `Whole`, which
`StoreInv` demands of the current tables and of those of every open scope, says
that every chain has its root, that the indexes of a chain have no gap and that
only roots carry deduplication keys. Without it the store could go another way
than the table: that the next index of a chain is free means that the job is the
chain's last one only if there are no gaps; the index of open roots tells what
the table's keys tell only if no other row has a key; and a deletion, which is
given ids, removes the chains among these ids only if roots are there. So each
operation's lemma says also what it does to the maps (`Becomes`: one row turns
into another; `OnlyRows`: no others are written; `Gone`), `Shown` gives the job
table as `TransactionalTable` has it, and one lemma per operation maps its step
to the abstract one (`CreateMaps` ... `TickMaps`, collected in `StepMaps`); a
step that changes nothing shown is a stutter. A rejection is `TReject` because
undoing the journal back to a scope's mark restores the tables that the scope
began with, which is what `StoreInv` says of the path.

**PostgreSQL.** The argument is by row locks. `Sound` says of one transaction
what it knows of the committed tables: rows it wrote are locked and, unless it
deletes them, incomplete; the row it creates follows such a row. `Apart` says
that the locks of two transactions do not conflict. Only a commit and the
reaper change the tables, and what they change is locked by nobody else, so
every other transaction stays sound; what a commit writes then keeps chains in
order, because to continue a chain one has to hold its incomplete job.
`SingleBlockerUnblocks` asks more. `Supported` says that a blocked job with one
blocking chain has an incomplete job in that chain; `Outcome` says of each
transaction that its commit will leave it so: the one that adds the blocker
holds the chain's last incomplete job from `addJobsBlockers` to its commit, and
the one that completes this job reads afterwards who waits for the chain. With
two blockers the two readers may miss each other, which is the counterexample of
`unblock`. `ChainsDeletedWhole` does not come from the locks of a deletion, which
cover the rows its snapshot showed and no continuation committed since.
`ChainKept` says of each transaction that if it deletes a root it deletes every
job of that chain, and that if it continues a chain it has the root locked. A
deletion is held to the first by the foreign key of `chain_id` when it executes;
that a continuation commits afterwards is excluded by the lock its own reference
took on the root.

**WorkerLoop.** `Holding` says that a worker that has not crashed runs the
attempt of every lease in its name which no attempt gave up of itself. That gives
`StopAbandonsNothing`, as a worker stops without attempts only. For `NoJobIsForgotten`, `Remembered` says
that a job which is or will be due is published, or some worker looks for it or
has its timer set for it; it is not inductive, since a notification may find the
budget empty, and so it says further that while the budget is empty and no hint
is on its way, none of this rests on a notification.

**ChainAwaiting.** The invariant ties the program counter of every listener to
what is shared. `LocksHeld` says who holds the lock of a shared listener,
`Queued` that each query under way has one listener waiting for it; these hold
under all faults. `Membership` (the callbacks are those who subscribed and have
not left), `Connection` (the handlers are the listeners that run or are about
to; the connection is attached as long as there are handlers or an UNLISTEN is
under way) and `Heard` hold until something fails. `NoCompletionMissed` speaks
of calls that sleep; `Heard` has to speak as well of calls that have read the
open chain and have not gone to sleep yet, and it holds because a call
subscribes before it reads.

**Listing.** `CursorSplits` says that what stayed in the list and was not shown
is behind the cursor, and what was shown is not. It is kept by writers because
a row's position never changes, and by a page because the page is an initial
segment of what is behind the cursor; that the rows of a page are exactly the
first *n* (`First` counts the rows before each) needs `EndsExist` and the facts
about finite sets.

`PagesAgree` takes another invariant, `Rooted`, which does not ask for exact
cursors: the chain of a row is there with its root, only the root has index 0, and a
row that waits is there. With it the loops of the in-process adapter and the
conditions of the statements select the same rows (`SameRows`): one asks for a
job that is its own chain, the other for index 0; one goes through the blocker
map, the other joins it with the jobs. Of these rows a sorted list exists, because
the number of rows before a row is its place (`SortingExists`); what is behind
the cursor is a stretch at its end, which begins where the search stops
(`StartSplits`); and of a stretch the statement's limit takes a stretch again,
the one the slice takes (`StretchFirst`, `SlicesAgree`).

**TransactionHooks.** `Nested` compares the hooks with the writes: every write
made so far has its event, its notification and, if it created a job, its
rollback callback (`Matches`), and that was true at each open savepoint of what
was there then, which is a prefix of what is there now (`Within`). A rollback
cuts both back to the same savepoint, so they match again. The contents of a
savepoint are needed because hooks are objects that go on changing after a
savepoint referred to them; `Marks` says that the user's hook, which may be
replaced meanwhile, never has less in it than the savepoints that refer to it
recorded. With that, a span is open exactly while its write is among the rows
(`Spans`), and each transaction's end closes what is left. `Failures` says that
the writes of a failed call are there only while its error is on its way, and
behind every savepoint; it needs `~Catching`, and the refinement rests on it,
since not every write of a failed call has its effects. There, `UndoneNow`
says that what has been undone is what was created and is no longer among the
writes. Both flags are there because the theorems are false without (section 5).

**The lock.** None of the invariants is inductive: that a drain counts the
readers it grants needs the queue to name each waiter once (`QueueMatches`),
that it may grant at all needs the counters to be exact, and those are exact
after a writer's release only because a writer excludes readers. `LockInv` is
the conjunction.

Every invariant, action property and refinement that the passing runs check is
proved, under the assumptions of the table. Only model-checked is liveness
(`ChainsSettle`, `ExpiredLeasesResolve`, `DueJobsAreTaken`, `ExpiredLeasesEnd`,
`AwaitEnds`, `EveryWaiterServed`), which needs ENABLED.

## 5. Where the documentation and the code part

Two runs end with a counterexample to a statement of the repository, quoted in
PROJECT.json:

- `unblock` (PostgreSQL): two transactions that complete the last two blockers
  of a job concurrently each see, in the snapshot of `unblockJobsSql`, the
  other's blocker incomplete. Nobody unblocks the job and it stays blocked.
- `pages` (PostgreSQL): the cursors of `listJobs` and `listBlockedJobs` carry a
  time that passed through a `Date` and lost its microseconds. Rows of one
  millisecond, such as those of one transaction, are skipped in descending order
  and shown again in ascending order.

The following were met too. The models have them; the named constant or
definition shows them, though no run is kept for each.

In `Queuert`:

- With `EscapingErrors = TRUE`, `RunningIsRecoverable` fails: an atomic handler
  that throws another job's `JobNotFoundError` commits its own acquisition
  without reschedule or lease, and the job stays `running` for ever.
- With `StaleBlockers = TRUE`, `NoDanglingBlockers` fails: a blocker deleted
  since its handle was obtained is accepted by the in-process adapter, and the
  new job waits for it for ever. The SQL adapters refuse it with the raw error
  of the foreign key.
- With two slots per worker, `OnlyCurrentAttemptWrites` fails: the slots share
  the worker's id, and after a takeover by another worker and a re-acquisition
  in the second slot the first, lost attempt passes the ownership check again.
  The end of the lost attempt also removes the id of the job its worker still
  runs, and the worker may reap itself.
- The `incomplete` scope of deduplication looks at the root job's status, so a
  chain that has moved on to a continuation no longer deduplicates.
- Cascading deletion follows the blockers of root jobs only, and blockers of
  continuations allow circular waits.

In `TransactionHooks`:

- With `Catching = TRUE`, `FailuresLeaveNoEvents` fails.
  `docs/src/content/docs/advanced/adapters.md:244` says that `createStateJobs`
  and `finishJob` roll the events they buffered back by savepoints of their own
  when they throw. Neither opens one, so a caller that catches the error without
  a savepoint, and commits, fires the events of jobs whose call failed. No run
  has the property, since without such callers nothing is left of the claim.
- With `CommitFailures = TRUE`, `SpansEndOnce` fails: a transaction context
  whose COMMIT fails counts as resolved already and neither flushes nor
  discards, so the spans of the jobs it created stay open.
- A user hook that is set again inside a savepoint outlives the savepoint's
  rollback, with what it has buffered: `restoreSnapshot` registers the captured
  hook again only when the key is free. `LibraryHooksRestored` speaks of the
  library's keys for this reason.
- A job whose call fails after its events were buffered has its span ended
  twice when a savepoint then rolls back, by the call and by the savepoint;
  `SpansEndOnce` speaks of the jobs whose call succeeded.

In `WorkerLoop`:

- A worker that has drained and stopped may leave a lease to expire: that of a
  staged attempt whose error path failed too, or whose error told of another job
  that was lost (`AbandonAttempt`). `StopAbandonsNothing` therefore speaks of the
  leases that no attempt gave up of itself; `ExpiredLeasesEnd` has what becomes
  of the others.

In `PostgresAdapter`:

- A deletion that waits for a job whose transaction adds a continuation locks
  and deletes the rows of its snapshot only. The chain is not torn apart, since
  the foreign key of `chain_id` refuses the deletion (`ChainsDeletedWhole`), but
  the caller of `deleteChains` sees the raw error of PostgreSQL.
- `AddJobsBlockers` reads the jobs that were last in the snapshot again and no
  others: when a blocking chain is continued meanwhile, the job it locked is
  complete, and the waiting job starts early.
- Two concurrent transactions may start a chain of one deduplication key each:
  the index is not unique. (Read in the code; deduplication is not modelled.)
- `has_more` of `acquireJob` is read in the statement's snapshot, where the
  acquired row is still pending. It is true whenever a job was acquired, which
  costs one more query.

In the other models:

- The pool provider (`ChainAwaiting`) keeps a `connectingPromise` that was
  rejected, so every later subscription fails; a LISTEN that fails leaves its
  handler in the map; a connection that is lost is not noticed. Callers fall
  back to polling, which is why `AwaitEnds` holds and the invariants say
  `~faulty`. The timeout of `awaitChain` does not end a subscription that hangs;
  the fairness assumes that the server answers.
- `stop()` does not keep the loop from acquiring while `hasMore`
  (`WorkerLoop`): jobs are taken and drained after it was called. A worker whose
  slots are all busy while jobs are due sleeps for no time at all and turns its
  loop until a slot is free.
- The rollback of a deletion in the in-process adapter gives the job a new
  sequence number, and it loses its place among jobs created at the same time;
  `OrderIsStable` excludes it.
- A batch on SQLite checks deduplication inside the batch without scope and
  excluded chains. Filters with an empty `chainId` or `jobId` array give nothing
  in-process and everything in SQL. A `to` filter in milliseconds on PostgreSQL
  excludes a job created in the microseconds of that very millisecond. (Read in
  the code; not modelled.)

## 6. Not modelled

- Observability and the dashboard read the system and decide nothing. The
  compile-time types, input validation and the backoff function hold no state.
- The Redis and NATS brokers are external. Their providers are thin; the Redis
  budget behaves as the in-process one. NATS counts hints with compare-and-swap
  and drops a hint after five conflicts, which `Faults` with `"publish"` covers
  only in its effect.
- PostgreSQL: schedules, `triggerJobs`, deduplication, savepoints, migrations.
  SQLite: schedules, batches of several jobs, migrations.
- `getChain`, `getJob`, `getJobBlockers` and `close()`: one read, or no state
  that matters afterwards.
- Of the client: several `complete()` calls in one `completeChain` callback,
  `windowMs` and `excludeChainIds`; ids given by the caller that exist already,
  which overwrite another job's row in the in-process adapter.
- Of the attempts: middleware, several user transactions inside one handler, the
  promise-level order of `complete()` and the renewal loop.
- Savepoint handles left out of order or twice.

More than half of the repository's lines are tests, conformance suites,
examples, benchmarks and type definitions, which hold no behaviour of their own;
the models cover the code that keeps state.
