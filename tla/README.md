# A formal model of sqlite4java

sqlite4java is a Java wrapper around SQLite. This directory holds TLA+ models
of the parts of it that have behaviour of their own, the TLC configurations
that check them on small instances, and proofs that TLAPS checks for every
instance. Source paths below are relative to
`src/java/com/almworks/sqlite4java/` unless they start with `native/`.

## The system and its parts

| Part | State | Operations | What is hard | What makes it correct |
|---|---|---|---|---|
| Job queue (`SQLiteQueue.java`) | `myThread`, `myJobs`, the two stop flags, `myCurrentJob`, under one lock | `start`, `stop`, `execute`, `flush`, `join`; the queue thread; reincarnator threads | users, queue thread and reincarnators interleave between the lock's blocks; the thread may die | jobs run one at a time in order, none lost or run twice, a stopped queue ends |
| Job (`SQLiteJob.java`) | `myState`, `myConnection`, `myQueue`, `myResult`, under a lock per job | `execute` by the queue, `cancel`, `get` by anybody | `cancel` acts after its unlock: it interrupts, or finishes the job | done is final, `jobFinished` is called once |
| Connection (`SQLiteConnection.java`, `SQLiteController.java`) | native handle, confinement thread, disposed flag, registries of statements, blobs, arrays, buffers | `open`, `dispose`, `prepare`, `blob`, `createArray`, `exec`, `interrupt` | disposal with objects outstanding, callbacks from objects into the connection, failed opening | every native object is released once, nothing is used after it was released |
| Statement and its cache (`SQLiteStatement.java`, `SQLiteConnection.java`) | handle, controller, row and binding flags, cancel flag; cache by SQL text | `bind`, `step`, `reset`, `dispose`, `cancel` | a cached handle changes owners; `cancel` comes from another thread; all statements share a progress handler | one owner per handle, a cached handle is clean, no leak |
| Streams and buffers (`DirectBuffer.java`, `native/sqlite3_wrap_manual.c`) | use count and pending flag of every buffer, a pool per connection | `allocateBuffer`, `freeBuffer`, bind, release by SQLite | SQLite releases a bound buffer at a time of its own | no buffer is reused while SQLite reads it |
| Blob (`SQLiteBlob.java`) | handle, controller | open, read, write, reopen, dispose | disposal by the connection | as for statements |
| Backup (`SQLiteBackup.java`) | backup handle, two connections | step, dispose | the order in which three objects are disposed | no connection is closed under a backup |
| Long arrays (`SQLiteLongArray.java`, `native/intarray.c`) | registry and cache of arrays by name; a hash map per connection; content, ordering and use count per array; cursors | create, bind, dispose; virtual table scans | removal in open addressing, binary search bounds, rebinding under a scan | a lookup finds what was stored, a scan returns what the constraint selects |
| Profiler, SQL builder, library loading, exceptions, constants | statistics, lists of parts, static settings | | little | values only |

The queue thread owns one connection at a time and passes it to each job. The
only call into a connection that another thread makes on behalf of the queue is
`interrupt()`, from `SQLiteJob.cancel`. Statements, blobs, arrays and backups
call back into their connection through a controller, which the connection
replaces when it disposes them.

## Modules

| Module | What it is |
|---|---|
| `SQLiteJob` | the fields of all jobs, and the critical sections of `SQLiteJob` as operators on them |
| `SQLiteQueue` | extends it: the queue, its thread, the reincarnators and the users, with all properties |
| `JobService` | what queue and jobs promise, without threads: the abstract specification |
| `MCSQLiteQueue` | the instance for TLC |
| `SQLiteQueue_proofs` | the theorems about `SQLiteQueue` that hold for all users |
| `JobService_proofs` | extends it: the order of the jobs, `flush`, `join`, the theorem that the queue implements `JobService`, and then the theorems about users that never interrupt a running job |
| `SQLiteStatement` | the fields of all statements of a connection, what SQLite keeps behind a handle, the progress handler, and the parts of their methods as operators |
| `SQLiteConnection` | extends it: opening, confinement, the registry and the cache of statements, execution, cancellation and disposal, with all properties |
| `StatementPool` | what a connection promises about compiled handles: the abstract specification |
| `MCSQLiteConnection` | the instance for TLC |
| `SQLiteConnection_proofs` | the theorems about `SQLiteConnection` |
| `StatementPool_proofs` | extends it: the theorem that the connection implements `StatementPool` |
| `BindBuffers` | bind streams, the pool of direct buffers and the bytes in native memory that Java, the wrapper and SQLite share |
| `MCBindBuffers` | the instance for TLC |
| `BindBuffers_proofs` | the theorems about `BindBuffers` |
| `IntArrayMap` | the hash table in which `native/intarray.c` finds an array by name |
| `IntArrayMap_proofs` | the theorems about `IntArrayMap` |
| `IntArrayScan` | a scan of the virtual table of an array: plan, bounds, binary search, rows |
| `IntArrayScan_proofs` | the theorems about `IntArrayScan` |
| `LongArrays` | the life of arrays, their tables and the cursors on them: `SQLiteLongArray`, its registry and cache, and SQLite's virtual tables in transactions, savepoints and schema changes |
| `LongArrays_proofs` | the theorems about `LongArrays` |
| `MCIntArrayMap`, `MCIntArrayScan`, `MCLongArrays` | the instances for TLC |

### How the queue model corresponds to the code

A step is one `synchronized` block, with what the thread does until the next,
or one call into SQLite. The variables are the fields of the two classes
(`thread` is `myThread`, and so on; see the comments of the declarations), the
place and the local variables of the queue thread (`qpc`, `qjob`, `dropped`),
the place of each user (`call`), and the part of SQLite the queue depends on:
whether a statement runs, has been interrupted, and whose transaction is open.
The names of the queue thread's places are those of the methods: `loop` and
`wait` are the two halves of the loop in `queueFunction`, `start` to
`callbacks` are `SQLiteJob.execute`, `after` is `afterExecute`, `rollback` and
`rollbackSql` are `rollback()`, `dispose` to `dropFinish` are `threadStopped`.

* Every wait of the code is a timed wait in a loop that tests its condition
  again, so a lost notification delays a thread and never blocks it. The model
  has no notifications: a waiting thread goes on when its condition holds.
* A connection is named by the number of the thread that opened it, so that a
  canceller can hold one that has been closed and replaced.
* `sqlite3_interrupt` stops the statement that is running and has no effect
  when none is. What an SQL statement does to transactions is open: it may
  begin, end or keep one.
* `job()` runs any number of statements and calls `get()` of other jobs in any
  order: after each it is in `body` again. It ends with a value, an error, a
  `ThreadDeath` or, when a statement is interrupted and it does not catch that,
  an `SQLiteInterruptedException`. It leaves no statement active when it ends.
* `finishJob(null)` of a job that never ran is one step: its first block finds
  the job cancelled and changes nothing.

### How the connection model corresponds to the code

`statement[s]` has the fields of the `s`-th `SQLiteStatement` that was created
(`sql`, `handle`, `controller` and the flags; `running` is "myProgressHandler is
not null"), `native[h]` what SQLite knows of the handle that was compiled for
the `h`-th statement. `registry` is `myStatements`, `cache` is
`myStatementCache`, `handler`, `progressMemory` and `cancelFlag` are the only
`ProgressHandler` of a connection, the 16 bytes that SQLite allocated for it and
the flag in them. `call[t]` is the place and the local variables of thread `t`.

| Code | Actions |
|---|---|
| `open0` | `Open`, then `OpenSucceeds` or `OpenFails` (a connection that failed to open stays confined, and may be opened again by its thread) |
| `prepare` | `Prepare` (first block), `Compile` or `CompileFails` and `Throw`, `Instantiate` (second block) |
| `bind...`, `reset`, `clearBindings` | `Configure`: their fields are used by one thread only |
| `step`, `loadInts`, `loadLongs` | `StartStep` (the handler is reset), `RunStep` or `RefuseStep` (block of `prepareStep`), `StepReturns` (SQLite, and the block of `finalizeStep`), `EndStep` |
| `exec` | `Exec`, `ExecReturns`, `EndExec` |
| `SQLiteStatement.cancel` | `Cancel` (its block), `CancelHandler` (after it) |
| `SQLiteStatement.dispose` | `DisposeStatement`, with `CacheStatementHandle` and `FinalizeStatement` as parts; `DisposeStatementElsewhere` when another thread calls it |
| `SQLiteConnection.dispose` | `Dispose`, `FinalizeNextStatement`, `FinalizeNextCached`, `DisposeHandler`, `Close` |

* `dispose()` of the connection is many steps, so that `cancel()` and a second
  `dispose()` of other threads come between them.
* A call by a thread the connection is not confined to ends with an exception
  or a warning before it has any effect. Only the calls that do have an effect
  are actions: `open`, `cancel`, and `dispose` of a statement.
* The guards of a statement's methods are `validate()`, an assertion. With
  `Assertions = FALSE` the model takes it away, and `dispose()` of a statement
  by the wrong thread clears it. Other methods called by a wrong thread without
  assertions are a misuse the code does not answer for, and are left out.
* `sqlite3_step` may end with a row, without, with an error, or, when the flag
  is set, interrupted; it may also run for ever. `sqlite3_prepare_v3` polls the
  progress handler as well (SQLite 3.45).
* The branch of `prepare` that finalizes a handle because "connection disposed
  while preparing" is unreachable: only the thread that prepares may dispose
  (`CallsAreConfined`, `NothingAfterDispose`). The branch of `finalizeStatements` that logs a
  statement without handle is unreachable with assertions (`RegistryIsExact`).

### How the model of streams and buffers corresponds to the code

`memory[b]` is a direct buffer: its size and the two control bytes at its start
(`native/sqlite3_wrap_manual.c`): the count of its users and "pending" release.
`stream[k]` is a `BindStream` that is not disposed of, `bound[s][p]` the buffer
that SQLite has as value of a parameter; `myBuffers` and `myBuffersTotalSize`
are the pool of the connection.

| Code | Actions |
|---|---|
| `bindStream` | `BindStream`, with `Reuse` or `Allocate` for `allocateBuffer` |
| `BindStream.write` beyond the buffer | `Write`, `WriteFails` |
| `BindStream.close` and `wrapper_bind_buffer` | `Close`: `Bound`, or refused by SQLite: `TooBig`, `NotBound` |
| `prepareStep`, which closes what is open | `PrepareStep`, `CloseUnclosed` for each stream, then `Step` or `StepCancelled` |
| the other `bind...` methods | `BindValue` |
| `reset`, `clearBindings` | `Reset`, `ClearBindings` |
| disposal of a statement and of the connection | `CacheHandle`, `FinalizeStatement`, `Dispose`, `FinalizeBuffers` |

* `freeBuffer`, `wrapper_free` and `bind_release` are functions on one buffer
  (`FreeBuffer`, `WrapperFree`, `BindRelease`); an action composes them in the
  order of the calls. SQLite calls `bind_release` when it drops a value, and
  also when it refuses one.
* All of it runs on the thread the connection is confined to, so an action is a
  whole call; `prepareStep` is split because every stream in it may fail alone.
* Contents of buffers are left out: what matters is who may write one.

### How the models of long arrays correspond to the code

**`IntArrayMap`.** `hashtable`, `size`, `rehashSize` and `count` are the fields
of `intarray_map`. A step is one call of the map; `rehash()` is one step per cell,
since it may fail before the first, and since a name may be put twice. `Probe`
is the walk, `Keys` and `Filled` the turns before it stops at a cell without
key, or at an empty one: the three loops of the code differ in just this. The
key of a freed array is dangling memory, and comparing with it may go either
way: the parameter `reads`. SQL names equal up to case are one name here.

**`IntArrayScan`.** `Prepare` is `intarrayBestIndex`, `Filter` is `intarrayOpen`
and `intarrayFilter`, with one operator per C function: `C2opbits`,
`ConstrainCursor` for `intarrayConstrainCursor`, `Boundary` for
`intarrayBoundary`, `NextMatch` for `intarrayNextMatch`. `Search` is one turn of
`intarray_bsearch`, `NextRow` is `intarrayNext`, `Bind` rebinds the array
between scans of one plan, which is what the compiled statement keeps. Values
are integers between `SMALLEST` and `LARGEST`; a float is given by its double,
so that halves exist; the cut of a row number to `int` (`ToInt`), the wrap of
`max - min + 1` (`Wrap64`), and the undefined conversion of 2^63 (`Cast` yields
either end) are kept. `Holds` is the reference: what a comparison means in SQL.

**`LongArrays`.** `place[a]` is where the handle of an array is: at a user, in the
cache, nowhere. `conn`, `trans`, `pending` and the statements refer to objects
of type `VTable`; `Settle` is the unlocking at the end of a step of SQLite, which
calls `xDisconnect` for those without a reference. `connectCount` and
`commitState` are the fields by which `sqlite3_intarray_bind` decides whether the
table is missing.

| Code | Actions |
|---|---|
| `createArray` | `ReuseArray`, `CreateArray` |
| `SQLiteLongArray.bind` | `BindRows`, `BindNothing` |
| `SQLiteLongArray.dispose` | `DisposeInUse`, `DisposeCached`, `DisposeUncached`, `DropFails` |
| SQL | `DropTable`, `Begin`, `Commit`, `Rollback`, `Savepoint`, `RollbackTo`, `Prepare`, `StepStatement`, `ResetStatement`, `FinalizeStatement`, `ForeignSchemaChange` (another connection changes the file) |
| `SQLiteConnection.dispose` | `FinalizeStatements`, `FinalizeArrays`, `Close` |

It takes for granted that the hash table finds every array by its name, which is
the subject of `IntArrayMap`, and leaves contents to `IntArrayScan`.

## The runs

Two users (one of which makes the blocking calls) and two jobs are enough for
every pair of racing operations on one job, and for an operation on one job to
hit another. `MaxDeaths` bounds how often the thread dies; two deaths let a
reincarnated thread die again.

| Run | Question |
|---|---|
| `queue_memory` | An in-memory queue, one death. Assertions of the code, each job finished once, what `flush` and `join` rely on, `DoneIsFinal`, and liveness: `flush` returns unless the thread died and left a current job, a stopped queue ends. |
| `queue_file` | A queue over a file, two deaths, jobs that wait for jobs. Ownership of the connection, no job overtaken, no second thread and no restart, and that the queue implements `JobService`. |
| `queue_gentle` | A queue over a file, two deaths, users that never interrupt and stop only gracefully: what the comments say of cancelled jobs, results and transactions then holds; queued jobs survive the death of the thread, and every job is finished but those of a queue that is stopped while it has no thread. |
| `queue_v_StopSettlesJobs` | Refutation, see below. |
| `connection_cache` | Three statements over two SQL texts, each prepared with or without the cache, and a second thread; assertions on. One owner per handle, none lost, clean cache, exact registry, clean close, and that the connection implements `StatementPool`. |
| `connection_cancel` | Two statements of one SQL text, both threads cancel them, assertions off. Confinement, nothing happens after `dispose`, the freed flag is not written; liveness of `cancel` and `dispose`. |
| `connection_v_InterruptHitsItsTarget` | Refutation, see below. |
| `bind_buffers` | Two statements with two parameters, two streams, four buffers of two sizes. A value never changes under a parameter, use counts are exact, memory is freed by its last user, a cached handle has no values. |
| `array_map` | Five arrays, two of one name and two more that share its cell, in a table of three cells that grows to four and six. An array is found until it is destroyed, the table never fills up, an entry outlives its array only in known cases. |
| `array_scan` | Arrays of up to five values at both ends of a 5-bit integer, with every flag and every pair of constraints. Every row that satisfies them is returned and no other, but for the known deviations. |
| `array_scan_v_ShortArraysAreSearched` | Refutation, see below. |
| `long_arrays` | Two arrays, one name, two statements, four table objects. A table belongs to the array of its name, cursors read an array that stays as it is, a freed array leaves nothing behind. |

Symmetry (of jobs, buffers, streams, arrays, table objects) is used where no
liveness is checked. The inductive invariants of the proofs were checked with TLC on
the same instances before they were proved.

Three statements are what the cache needs for its worst case: two users of one
SQL open at once and a third that gets the handle which was cached first, with
another SQL beside it. Two suffice for a cancellation to hit the other one.
`Cancellers` bounds who calls `cancel()`: nobody in `connection_cache`, which
keeps that run small; every thread in `connection_cancel`. A connection
may stop for good after `dispose`, and a scan or a map when nobody uses it, so
deadlock is checked for the queue only.

**Buffers.** Two sizes and a pool that can hold two of four buffers make
every branch of `allocateBuffer` possible: reuse, the choice of the smallest,
allocation for the pool and beside it. Two streams and two parameters of each of
two statements are what a mix-up needs.

**The map.** The code starts with 17 cells and grows at two thirds; three cells
are the fewest with which removed cells, collisions and wrapped walks are met
both before and after growth.

**Scans.** The binary search is used above one element instead of seven, so that
a search takes several turns in arrays that TLC can enumerate; five bits for
`sqlite3_int64` and four for `int` put both ends, and the values between the two
widths, within reach. The initial states and the parameters of the actions
enumerate the inputs.

**Long arrays.** One name for two arrays forces them to compete for it, also with
the name `nextArrayName` makes. Four table objects suffice: one may be connected,
two held by expired statements, one by the transaction.

**Fairness of the connection.** A thread inside a call goes on (`Continue`):
no step of a call waits for another thread except for a lock held over a few
assignments. The virtual machine of SQLite is not obliged to return
(`Finish`), except that it polls the progress handler and returns
when the flag is set. Nobody is obliged to call anything.

**Fairness of the queue.** The queue thread, the reincarnators and users inside a call take
their steps eventually: threads are scheduled, and every wait is timed.
Weak fairness of the queue thread includes that each SQL statement ends. A job
may run any number of them, so that it would satisfy weak fairness without ever
ending: strong fairness of `BodyEnds` says that `job()`, the users' code, is
finite. The runs with liveness have `JobsWait = FALSE`, because a job that waits
for one behind it does block for ever. Nobody is obliged to call anything, and abnormal ends of the thread
(`ThreadFails`) are never obliged to happen.

## Where the code and its comments disagree

Three are runs that TLC refutes:

* **Jobs that nobody settles** (`StopSettlesJobs`). `stop()` of a queue that
  has no thread, because it was never started or because its thread died and
  the reincarnator sleeps, leaves queued jobs pending for ever. It is the one
  exception that `EveryJobFinishes` makes.
* **A cancellation hits another statement** (`InterruptHitsItsTarget`).
  `SQLiteStatement.cancel` is documented to have effect "only during execution
  of the step() method", but raises the flag of the connection's progress
  handler after it has left the statement's lock. What the connection runs next, another
  `step()`, an `exec()` or a `prepare()`, is interrupted instead.
* **Short ordered arrays ignore lower bounds** (`ShortArraysAreSearched`). In an
  array bound as ordered, only the binary search looks at a lower bound, and it
  is left out for up to seven elements: `WHERE value >= x` returns the smaller
  values too, and SQLite does not check them again.

Others limit what the other properties can say:

* A stale interrupt cancels the wrong job. `SQLiteJob.cancel` interrupts after it
  has released the job's lock (`SQLiteJob.java:234`, `261`). If the job ends in
  between, the interrupt hits the next one, which is reported as cancelled, or
  the `ROLLBACK` after it; that exception is swallowed and the next job runs
  inside the old transaction (`SQLiteQueue.java:503`, `512`). Hence
  `CancelledAsReported` and `NoLeakedTransaction` are about users that do not
  interrupt (`queue_gentle`, `GentleInvariance`).
* `threadStopped` does not clear `myCurrentJob` (`SQLiteQueue.java:348`), so that
  after an abnormal end of the thread of an in-memory queue `flush()` never
  returns, although nothing is queued. `FlushReturns` makes this one exception.
* Confinement of `SQLiteStatement.dispose` is an `assert`
  (`SQLiteStatement.java:189`). Without it the wrong thread clears the statement
  while the controller refuses to release the handle: it is neither cached nor
  finalized, and `sqlite3_close` answers `SQLITE_BUSY`. `HandleNotLost` is
  therefore checked and proved with assertions on.
* "If statement is executed before the stream is closed, the value will not be
  set" (`SQLiteStatement.java:838`, `855`, `874`, `907`): `prepareStep` closes
  open streams, and so does bind them; if SQLite refuses the value there, this is
  only logged, and the statement runs with NULL or the old value.
* "if dropped afterwards, it will be recreated on the next call to
  sqlite3_intarray_bind" (`native/intarray.h:46`): not while an older table object
  of the array is alive, say after a statement over it was compiled, another
  connection changed the schema, and `DROP TABLE`. Hence
  `TableAfterBindUnlessOutlived`.
* The entry of a destroyed array may stay in the hash table, because
  `intarrayMapRemove` stops at a removed cell although "collision checking must
  continue" there (`native/intarray.c:45`), or because the table could not grow
  after the entry was put (`FreedWithItsEntry`). `ArrayFound` holds for hashes
  this never happened to.
* Scans deviate from the meaning of their constraints in four more cases, the
  operator `Deviations`: a row number beyond `int`, strict bounds at the extreme
  integers, the float 2^63, and blobs.

Seen while modelling long arrays: arrays that are not disposed of before their
connection are in no registry and never freed; `dispose()` while a cursor is open
loses the handle and keeps the name; a table object cut off by a schema reset
is left dangling when its array is freed (the exception in `FreedLeavesNothing`);
a `DROP` that is rolled back leaves a table without array; the copy that
`intarray_bind` made leaks when the array is in use; the Java cache of arrays
distinguishes names by case and SQLite does not.

Seen while modelling buffers: `clearBindings()` while the statement runs releases
buffers that the virtual machine may still read; a stream written to by the wrong
thread is disposed of while `freeBuffer` refuses that thread, so its buffer is
lost; `bindNull` does not set `myHasBindings`, which `CachedIsUnbound` shows to be
harmless; the doubling in `allocateBuffer` does not end for 2^30 bytes or more.

Seen while modelling the connection: `hasRow()` stays true when a step
fails after a row, although its comment speaks of the last step
(`SQLiteStatement.java:350`); `cancel()` of an idle statement makes its next
step throw, which `ProgressHandlerTests.testCancel` expects and the comment at
`SQLiteStatement.java:320` denies; `dispose()` of a connection whose opening
failed leaves it confined for good.

Seen while modelling the queue: a job cancelled while it runs may
end as `ERROR` (`isCancelled()` then turns false) and passes its value to
`jobFinished` if it returns one (both hold when nobody interrupts a running
job: `queue_gentle`); `interrupt()` uses the native handle after the lock that
guards it was released (`InterruptHandle`, `InterruptNative`), so `dispose()`
may close it in between; no property says that it is still open;
`join()` in the moment between `myThread = null` and the cancellation of the
dropped jobs returns early; `get()` of a queued job, called by a running job,
blocks the database thread, because only a running job knows its queue;
`stop(true)` followed by `stop(false)` does not cancel the current job.

## What is proved

All proofs are checked for every value of the constants, under the named
assumptions of the modules: `NoJob` is not a job (`JobsAssumption`), `NoSQL` is
not an SQL text (`StatementAssumption`), `NoThread` is not a thread and the
others have their types (`QueueAssumption`, `ConnectionAssumption`,
`BindBuffersAssumption`), there are finitely many table objects and
the values that stand for "none" are no others (`LongArraysAssumption`,
`MapAssumption`; the latter also says that a table starts with two cells or more,
17 in the code), and of `ScanAssumption`: contents keep the promises the
user makes by `ordered` and `unique`, integers fit 64 bits, and no double lies
between 2^63 - 1 and 2^63.

### The queue

`SQLiteQueue_proofs` holds for any set of jobs and of users, any number of
deaths, and both kinds of database.

The properties are not inductive: that a job is finished once, say, depends on
who may finish it. `IndInv` adds, for every place of every thread, which jobs
are in its hands: the job of the queue thread is running or was cancelled by
somebody who leaves the rest to the thread (`RunningOwned`); a job cancelled
while pending belongs to one canceller, or to the stopping thread, and never ran
(`CancelledOwned`, `PendingUntouched`); `myThread` is null exactly when no thread
runs the queue (`ThreadIdentity`), and the connection is open where it is used
(`ConnectionOwned`). `UserJobStep` reduces all steps of the users to the three
things they can do to a job, `QuietStep` all steps of the queue thread that
touch no job, and each conjunct of the invariant is then one lemma with one step
per remaining action.

| Theorem | Statement |
|---|---|
| `Invariance` | `Spec => []IndInv` |
| `TypeCorrect`, `AssertionsHold`, `JobsFinishOnce`, `ConnectionHasOneJob` | the type invariant, the code's assertions, each job run and finished at most once, one job on the live connection |
| `NeverRestarted`, `DoneStaysDone` | the action properties `NoRestart` and `DoneIsFinal` |

`JobService_proofs` adds where every accepted job is. `OrderInv` splits the list
`order` of accepted jobs into three stretches: those the thread has taken, and
then those still queued, or those a stopping thread is dropping
(`StretchesOfOrder`; each job is there once, `SubmittedOnce`). The job in the
hands of the thread is the last one taken (`LatestTaken`), and all before it are
done (`TakenAreDone`). `UserQueueStep` and `OrderKept` say what a step can do to
the stretches.

| Theorem | Statement |
|---|---|
| `OrderInvariance` | `Spec => []OrderInv` |
| `JobsRunInOrder` | `FirstComeFirstServed` |
| `FlushIsComplete` | `FlushMeansDone` |
| `StoppedIsComplete` | `StoppedMeansDone`, for a queue that is not reincarnated; over a file `stop()` may come while the reincarnator sleeps, see `StopSettlesJobs` |
| `ServiceImplemented` | `Spec => ImplementsService`: every step is a step of `JobService` or changes nothing it sees |

The second part of `JobService_proofs` assumes that users call `cancel(false)` and `stop(true)`
only (`GentleUsers`). Then a cancelled job is one that was cancelled while pending,
so that the state of a job tells how it ended (`StateTells`), nothing interrupts a
`ROLLBACK`, and an open transaction belongs to a job that succeeded or to the one
the thread still has to finish or to roll back (`TransactionOwned`).

| Theorem | Statement |
|---|---|
| `GentleInvariance` | `Spec => []GentleInv` |
| `CancelledIsAsReported`, `TransactionsAreClosed` | `CancelledAsReported`, `NoLeakedTransaction` |

### The connection

`SQLiteConnection_proofs` and `StatementPool_proofs` hold for any SQL texts, any
number of statements and any threads, whoever of them cancels.

That a cached handle is clean depends on what its last user had done with it,
and on who else could still use it. `IndInv` therefore says of every place that
refers to a handle that no other does: the fields of a statement
(`StatementsOwn`), the entries of the cache (`CacheOwns`), the local variable of
a `prepare` between its two blocks (`PrepareOwns`), and that of a step
(`StepOwns`). `FlagsTellUse` is why `cacheStatementHandle` may trust the flags of
the statement: they say of every bound or stepped handle that it is, except
between the return of `sqlite3_step` and `stepResult`. `Lifecycle` ties the
fields of the connection, the database and the places of the threads together,
and `CallsAreConfined` leaves at most one thread in a call, so that nobody is in
the middle of one when a handle is released (`NobodyElse`). What depends on
assertions is one conjunct, `NothingForgotten`. `OwnersKept` carries the
conjuncts on ownership over all steps that leave the handles where they are,
`ReleaseKeeps` the others over disposals; `prepare` has lemmas of its own.

| Theorem | Statement |
|---|---|
| `Invariance` | `Spec => []IndInv` |
| `TypeCorrect`, `HandlesHaveOneUser`, `CachedHandlesAreClean`, `CallsStayConfined`, `FlagIsOwned` | the type invariant and the invariants `HandleNotShared`, `CacheIsClean`, `CallsAreConfined`, `CancelWritesOwnedMemory`, with and without assertions |
| `HandlesAreNeverLost`, `RegistryCorrect`, `CloseSucceeds` | `HandleNotLost`, `RegistryIsExact` and `ClosesCleanly`, with assertions, which the first needs |
| `NothingComesBack` | the action property `NothingAfterDispose` |
| `PoolImplemented` | with assertions, `Spec => ImplementsPool`: every step is a step of `StatementPool` or changes nothing it sees |

The mapping of the last one is by ownership: a handle is lent to the statement
that has it, pooled while it is in the cache or in the hands of `prepare`. The
proof reduces every action to the one handle it moves (`OneMoves`) or to none.

### Streams and buffers

`BindBuffers_proofs` holds for any buffers, streams, statements, parameters, sizes
and any limit of the pool. That counts are exact is not inductive: the wrapper's
own decrement is not guarded, and `freeBuffer` does something else for a buffer of
the pool than for one beside it. `IndInv` says in `CellsTell` what each control
byte may be for a buffer that is filled, read or in the pool; in `StreamsApart`
and `ParamsApart` that nothing is shared; in `StatementsTell` that
`myHasBindings` and `myStepped` tell enough of a statement for
`cacheStatementHandle` to rely on them; in `PhaseTells` what is left when the
connection closes. Every step is reduced to what it does to a set of buffers.

| Theorem | Statement |
|---|---|
| `Invariance` | `Spec => []IndInv` |
| `TypeCorrect` | the type invariant; so the counting byte never wraps |
| `StableValues`, `ExactUseCount`, `OwnedMemory`, `UnboundWhenCached` | the invariants of the run |
| `AllFreed` | when the connection is closed all buffers are freed |

### Scans of long arrays

`IntArrayScan_proofs` holds for arrays of any length and contents, any constraints
and any 64-bit limits. Neither property is inductive: they compare rows returned
with rows wanted, and say nothing of a cursor under way. `ScanInv` relates both to
what the bounds of the cursor let through. `Bounded`: the bounds let through all
rows that satisfy the constraints and, unless the scan deviates, no others; one
lemma per function of `native/intarray.c` follows them from the constraint to the
cursor (`BoundaryAdmits`, `ConstrainNarrows`, `ConstrainedSelects`). `Halved`:
the bracket of the binary search has the first such row between its ends.
`Advanced`: no row the bounds let through was passed over without being returned,
and the row under the cursor is one, unless the scan deviates. `Counted` is why a scan of unique values may
stop when it has seen as many as the bounds have room for: the rows seen so far and
the counter add up to `max - min + 1` (`CountedNext`), so that at zero none is left
(`CountedExhausts`).

| Theorem | Statement |
|---|---|
| `Invariance` | `Spec => []ScanInv` |
| `TypeCorrect` | the type invariant |
| `AllRowsReturned`, `OnlySuchRows` | `NothingMissed`, `OnlyMatchingRows`, with the deviations these name |

### The hash table of arrays

`IntArrayMap_proofs` holds for any names, any arrays, any hash function, however
many collide, and any initial size of the table from two cells on. That an array
is found is not inductive: it depends on every cell of its walk, and on what else
has its name. `IndInv` says of the table that each entry lies where a search
that goes on until an empty cell comes to it (`Reachable`), and that no array has two
entries (`Once`); of the arrays that an owned one has an entry (`Present`) and its
name to itself (`NamesOnce`), unless an array of its hash was freed and left in the
table; that `count` and the two thresholds are in order (`CountTells`, `RoomTells`,
`SizeTells`); and all of this of the half-built copy of `rehash()`, as far as it has
come (`CopyTells`). `KeysComeFirst` is the walk itself: the turns that find keys
come before the cell a put takes. `PutKeeps` and `RemoveKeeps` say once what
writing a key, or the mark of a removed one, does to all of this; `SameIsSelf` why a
comparison of names hits the right array; each action is one lemma over these.
That a removed cell is not made empty is what `Reachable` needs, that a put looks for
the name behind the removed cell it will take is what `NamesOnce` needs, and that a
rehash ignores what a put returns is why `EntryCopied` has to show that it can only
fail for an entry that is there already, or that is disturbed.

| Theorem | Statement |
|---|---|
| `Invariance` | `Spec => []IndInv` |
| `TypeCorrect` | the type invariant; so `count--` never goes below zero |
| `ArraysAreFound`, `RoomEnough` | `ArrayFound`, `RoomIsLeft` |
| `EntriesGoWithArrays` | the action property `FreedWithItsEntry` |

### The life of long arrays

`LongArrays_proofs` holds for any names, arrays, statements and any finite number
of table objects, and for any mix of transactions, a savepoint, schema changes of
other connections and disposals. What is wanted of a table depends on who still
refers to its object, and on what a rollback would bring back. `IndInv` says that
an allocated array has its name to itself (`NamesApart`), that a table the schema
knows is connected to the array of its name (`Connected`), that a statement which
has not expired uses the object the schema uses (`Current`), and that an open
cursor reads an array of the name in its SQL (`CursorsHaveArrays`); that SQLite
forgets no object before it disconnects it (`ObjectsReferenced`), and that
`connectCount` may fall behind the number of an array's objects, never exceed it
(`CountTells`), which is why `bind` notices a missing table. `SavedTells` relates
the tables before the transaction and the savepoint to the flag by which SQLite
decides whether a rollback clears the schema; `NothingOutlives` is what holds until that
happens for the first time. `SettleTells` is about the end of every step, where
objects without a reference are disconnected and the counts follow.

| Theorem | Statement |
|---|---|
| `Invariance` | `Spec => []IndInv` |
| `TypeCorrect` | the type invariant |
| `ConnectedTables`, `SafeCursors`, `NothingIsLeft` | `TableIsItsArrays`, `CursorSafe`, `FreedLeavesNothing` |
| `RowsStay`, `TableAfterBind` | the action properties `RowsStayUnderCursor`, `TableAfterBindUnlessOutlived` |
| `AllGivenBack` | when the connection is closed, every table object was disconnected |

### Only model-checked

Liveness, which is out of the prover's reach: that jobs finish, that queues and
`dispose` end, that a cancelled step stops, that queued jobs survive
reincarnation. Every invariant and every other action property of the passing
runs is a theorem. That `LongArrays` takes for granted what `IntArrayMap` promises
(an array is found by its name) is not proved as a composition of the two.

## What is not modelled

Of the connection: `interrupt()` (in the queue's model instead), settings and
getters, `loadExtension`, reading of columns, and a failure to install the
progress handler (the code then runs without one).

Blobs and backups: their registries follow the pattern of the statements, and
their reads and writes are calls into SQLite without state of their own.

Of long arrays: `CREATE VIRTUAL TABLE ... USING INTARRAY` and `ALTER TABLE ...
RENAME` by the user, arguments that `bind()` refuses, and more than one savepoint.

The profiler, the SQL builder, library loading, exceptions and constants have no
behaviour anything else depends on; the marshalling of `native/` and the
generated interface are conversions without state; SQLite itself is modelled as
far as the library leans on it, from the code that does so.

Of the queue: Errors of the virtual machine (an `OutOfMemoryError` from `thread.start()` after
`myThread` was set), exceptions of the user's callbacks other than those the
code logs and drops, and subclasses that override the queue's hooks.

## Plan

1. Done: queue and jobs, their abstract service, the inductive invariant.
2. Done: connection, statements, cache, execution and cancellation, and the
   pool of handles they implement.
3. Done: the inductive invariant of the connection, as theorems; that its
   steps are steps of `StatementPool`.
4. Done: buffers, bind streams, and their theorems.
5. Done: long arrays: the hash map, the scans, the life of tables and arrays.
6. Done: the order of jobs, `JobService`, and gentle users, as theorems.
7. Backup and blobs, with the connection.
8. Done: the scan of an array, as theorems for arrays of every size.
9. Done: the hash table, for every size and hash function, and the life of
   arrays and tables, as theorems.
10. The hash table as a refinement of the lookup by name that `LongArrays` uses,
    for names that were never disturbed.
