# Verification of godelayq

godelayq is a delayed-job server in Go: jobs with a trigger time or a cron
expression wait in a heap, a loop hands due jobs to worker goroutines, an HTTP
API submits and controls them, and a JSON file keeps them over restarts.  Around
this core are executors that run programs and requests, a reloadable
configuration, registries of profiles and groups, tables of events, streams and
sessions.  This directory holds TLA+ models of these parts, the TLC runs that
check them, and proofs of the main results with TLAPS.  `PROJECT.json` says which
lines of the source each definition stands for.

Paths below are relative to `src/`.

## 1. The system

| Component | State | Hard part | What makes it correct | Module |
|---|---|---|---|---|
| Job scheduler, `core/scheduler.go`, `core/job.go` | heap, store, `cancelMap`, `forcedPause`, `running`, switch | every operation is a sequence of critical sections of three locks; API goroutines, loop, workers and Stop interleave | a job has one owner, finished and cancelled jobs stay so, nothing is forgotten, Stop returns | `Scheduler` |
| Schedule loop and pools, `core/scheduler.go` | `workCh`, `execCh`, three signal channels, `targetWorkers`, `retireRequests` | merged signals, two pools on one loop, resizing against Stop | no lost wake-up, no head-of-line blocking, books that balance, no leaked goroutine | `WorkerPool` |
| Quaternary heap, `core/heap.go` | array, index | removal from the middle, pruned search | order, exact index, earliest allowed entry | `QuaternaryHeap`, `DueQueue` |
| Job store, `core/store.go` | map, dirty flag, file | failed flushes, crash, retention changed at run time | a clean map is on disk; unfinished jobs are never trimmed | `JobStore` |
| Executions, `executor/proc.go`, `proc_unix.go`, `proc_windows.go`, `http.go`, `exit.go` | permits, process group, pipes, contexts | deadline, Cancel, signals, failed writes and the program's own exit in any order | every execution ends, and its verdict is true of it | `Execution` |
| Retries, `core/retry.go` | delay, count, limit | two places double the delay; it wraps; the limit changes | a wait is what was asked for, or the limit | `Retry` |
| Artifacts, `executor/artifact.go`, `artifact_index.go`, `store/sqlite/artifacts.go` | files, index rows, summaries | expiry, orphans and reconciliation against executions, readers and crashes; removals that stop in the middle | index and files agree | `Artifacts` |
| Config watcher, `core/watch.go` | timers with generations, the last report | a timer that has fired against re-arming and Close | every save is looked at, no timer without owner, reports move forward | `ConfigWatcher` |
| Reload chain, `cmd/server/reload.go`, `core/config_reload.go` | applied configuration, settings in force | one applier of several fails, and so may an undo; Stop in between | what runs is one file, or a mix is reported | `ReloadChain` |
| Executor profiles, `core/executor_profile_store.go`, `executor/applier.go`, `registry.go`, `api/handlers_executor_profiles.go` | file, profile table, handler table, configured commands | check, save, apply and roll back without a common lock; hot reload beside | what runs is what a restart would build | `ProfileRegistry`, `ProfileApi` |
| Groups, `core/group_store.go`, `api/handlers_groups.go` | file, tags of jobs | renames and deletes against each other and against jobs that move; a tag is kept in two places | no group is lost, no waiting job keeps a dead tag | `Groups` |
| Event and audit tables, `store/sqlite/batch.go`, `events.go`, `audit.go`; bus, `core/event.go` | queue with marks, counter, table, subscription | failed batches, rounds by several, pruning, closing while events come | rows in order, every gap counted, Close returns | `Batcher`, `EventLog` |
| Streams, `core/websocket.go`, `api/sse.go`, `api/server.go` | subscriptions, clients, pumps | an upgrade against Stop, peers that go or stall | nothing of a client outlives Stop | `ClientStreams` |
| Event history, `api/history.go` | windows per job and of all | eviction, readmission, trimming in place | what is kept is the tail | `EventHistory` |
| Directory loader, `core/load.go` | timers, remembered files | files saved while they are read, timers that have fired | every finished file is loaded at last | `DirectoryLoader` |
| Sessions and login throttle, `core/auth.go`, `api/authstore.go`, `authenticator.go`, `security.go`, `ratelimit.go` | refresh tokens, logged-out tokens, tickets, windows of failures | check and use are two critical sections; tables with limits; sweeps | a spent token stays spent; failures stay below the limit | `Sessions` |

How they interact.  API handlers and the directory loader call the scheduler on
their own goroutines.  The loop pops from the heap under the heap's lock and
sends to a queue; a worker receives, registers a cancel func under the
scheduler's lock, writes snapshots under the store's lock, runs the handler under
no lock, and may call Schedule again.  For an executor job the handler is an
execution under a profile, which leaves artifacts and answers with an error whose
class decides about a retry.  Signals (`newJobCh`, `resumeCh`, `execSlotFreed`,
each of capacity one) wake the loop.  Events go to subscribers without waiting and
are dropped at a full one: the tables, the streams and the history are such
subscribers.  A saved configuration file passes the watcher and the chain, whose
appliers set the scheduler's retry policy, the store's retention, the profiles
and others.  At the end main closes the watcher, the chain, the API server, the
scheduler, and then cleaner, tables, database and store.

## 2. Modules

    Scheduler            life cycle of a job, one action per critical section
      MCScheduler
      SchedulerProofs      type correctness, ownership, and what snapshots say
    WorkerPool           loop, pools, signals, resizing
      MCWorkerPool
      WorkerPoolProofs
    DueQueue             what the heap promises (abstract)
    QuaternaryHeap       the heap; instantiates DueQueue
      MCQuaternaryHeap
      QuaternaryHeapProofs
    JobStore             the JSON file store
      MCJobStore
      JobStoreProofs
    ReloadChain          the appliers and their undo
    ConfigWatcher        the watcher (EXTENDS ReloadChain)
      MCConfigWatcher
      ConfigWatcherProofs
    ProfileRegistry      table, handlers, applier
    ProfileApi           requests for profiles (EXTENDS ProfileRegistry)
    Groups               the registry of groups and the tags of jobs
      MCRegistries         profiles and groups, one of them per behaviour
      RegistryProofs
    Batcher              the batch writer
    EventLog             what feeds and closes it (EXTENDS Batcher)
    ClientStreams        WebSocket and SSE
    EventHistory         the API's memory of events
    DirectoryLoader      jobs from files
    Retry                when a failed job runs again
    Execution            one execution of an executor job
      MCServices           the last six, one of them per behaviour
      ServicesProofs       streams, executions, retries, tables, history
    Artifacts            files and index of executions
    Sessions             tokens, tickets, throttle
      MCConsole            the last two, one of them per behaviour
      ConsoleProofs

An MC module with several parts picks one in its initial state and lets the
others rest, where no fair action of theirs is enabled: those parts share no state in
the code, and one run checks them all without multiplying their states.  Parts that do interact are composed:
ConfigWatcher with ReloadChain, ProfileApi with ProfileRegistry, EventLog with
Batcher.

### Scheduler

A step is one critical section or one channel operation; between two steps
everybody else may move.  `heap` is a bag of tasks, so a job that is pushed
twice is seen; `slot` is the job the loop has popped; `queue` is `workCh`;
`wpc[w]`, `task[w]` follow a worker through `executeJob`: *claimed* (received),
*registered* (`cancelMap`), *handler*, *settle* (`takeForcedPause`, the first
thing of each ending), then *park*, *checkStop*, *record*, or *resave* and
*repush* (Schedule of a retry or of the next round), and *leave* (the deferred
delete).  `cpc[c]`, `req[c]` follow an API goroutine.  `store` is the memory map
and `disk` the file.  `stopCh` is closed exactly when `phase` is not `"up"`;
`running` has the same value, as both change under one lock.

Approximations, each of which allows more than the code or leaves something out
that no property speaks about:

* any entry of the heap may come due at any time; trigger times are WorkerPool's;
* Start with its Restore is one step, since the process starts the scheduler
  before the API listens;
* Pause of a job outside the heap writes nothing in the code and is no step here;
  PauseByHandlerKey and RetagGroup are repeated Pause and SetGroup;
* a job without a handler may fail at any execution (`unregister`);
* a store is present, cron expressions parse, `Attempts`, events and payloads are
  left out; delays are Retry's;
* `heap.Update` and `heap.Remove` of an ID that is in the heap twice take any of
  the entries (the code: the one the index knows).

`cancelled` is a history variable that no action reads.

### WorkerPool

Adds the clock, trigger times, the executor pool and its queue, the signals and
the resizing; leaves out what happens to a job.  A job is pushed once and
executed once.  `time` is the `now` the loop has read, and later the end of its
timer.  `credits` is `retireRequests`.  The loop's computation of a wait is
split where the code splits it (pop, HasDue, Peek, select), so that a push can
fall in between.  One goroutine at a time is inside Schedule.  `Unsuspend` is three
steps, the flag and one signal after the other, and `spc[u]` says where each of its
callers is; Suspend is the one compare-and-swap.

### QuaternaryHeap and DueQueue

The array, the index, `siftUp`, `siftDown` and the traversal as in the code; a
method is a step, because it holds the lock.  `Risen` and `Sunk` are one turn of the
two loops, and a recursive function counts the turns; one more follows the traversal
of eachDue.  `ImplementsDueQueue` says that
every call, step by step, is the same call on the abstract queue with the same
answer, which is more than saying that every step is some step of it.  The
entries of equal time may come in any order in the abstract queue.  The heap
assumes that IDs in it are unique: this is what `SingleOwner` says of the
scheduler.

### JobStore

`tmp` holds what a flush has written to the `.tmp` file; the flush holds the lock
from there to the rename.  Flushes fail at either call; the process ends at any
time, and the file is what the last rename left.  The two atomic stores of
SetHistoryRetention are two steps.  A policy may keep
no finished job, both, or one that is not too old, and SetHistoryRetention may lower
the limit below what is there.  Which of several finished jobs with equal time is
trimmed first (the code: by ID) is left open.  A crash of the operating
system, which may lose a renamed file that was not synced, is not modelled.
`Scheduler` uses this component as the pair `store`, `disk` and a `Flush` that copies
one to the other.

### ConfigWatcher and ReloadChain

The watcher's goroutines are its event loop and one callback per timer that has
fired; `slot` is the timer in the table, `ticking` those that run, `version` counts
the saves.  The chain holds its mutex from `Begin` to the step that answers; every
setter is a step, each may fail if the code lets it, and so may each undo.  A
configuration is a value per key; there is one key for each tier (hot, restart,
refused) and each applier.  What a reload is
to write is the set of keys that differ.  A panic of the chain, which the watcher
turns into a fault, is left out: no setter raises one.

### ProfileRegistry, ProfileApi and Groups

A request is the sequence of calls its handler makes; each call is one step under
its own lock.  A profile is a name and a revision; two spellings of a name are two
names with one lower case form, which is the store's key, while handlers go by the
exact spelling.

Tasks live beside the requests in the steps of the scheduler: the handler is looked up,
the pending snapshot is saved, the task is pushed, popped, executed; Pause takes a task
out of the heap and writes its snapshot afterwards.  In ProfileApi `jobs[j]` has the
status in the snapshot (`snap`) apart from the place of the task (`at`), because a DELETE
counts the one and pauses by the other.  In Groups a job's tag is kept twice, by the job
wherever it is (`tag`) and by its snapshot (`stag`); SetGroup, RetagGroup and
UpdatePending read, replace the heap's entry and write the snapshot in three steps, with
what they have in hand in `desk`.  `groupFile` is what a start would find, after every
write.  `pend`, the tasks or jobs a request has counted and that are to be as it promises,
is a history variable.

### EventLog with Batcher, ClientStreams, EventHistory

Each has its own end of the bus: events are numbers, a delivery into a full
channel is counted as missed.  In Batcher `writer` and `step` follow the round that
holds `writeMu`; a transaction inserts, prunes and commits, or fails.  Pruning by
age is left out.  In ClientStreams a client is its handler, its subscription, its
connection, its entry and its two pumps, and `once` its sync.Once.  EventHistory keeps
the list of windows in the order of the code's linked list; the map beside it, which
finds a job's window, is looking it up in the list.  `seen` is a history variable: the
job of each event since the last Clear.

### DirectoryLoader

A file is absent, half written or finished; timers are threads that fire, read,
schedule and then delete, move or remember the file, as the options say.  Other
writers save at any time.

### Retry and Execution

Retry keeps the fields that decide on the next execution; a Duration has `Width`
bits and wraps, and the factor, a float that may not fit one, then is what the
machine's conversion makes of it: the smallest value or the largest.  Execution is one call of the handler: permit, output files, start,
the two goroutines of os/exec (`at` is the one in Wait, `watch` the one that waits
for the context and calls killTree), the answer and the verdict of executeJob.  The
program may ignore SIGTERM, fork into its group or away from it, and leave its pipes
to what it has forked; a write of its output may fail, which ends the copying of that
stream and is the result of Wait when there is no other error (`unwritten`).  Windows and HTTP are values of `kind`.  What os/exec does is
modelled from its documented behaviour and marked external.

### Artifacts and Sessions

An attempt is its files, its row and its place in the summary; the cleaner works
in the steps of the code, each of which the process may not survive.  `os.RemoveAll` is
the reading of the directory, the removal of one file after the other, and that of the
directory itself, which fails when an attempt has created a file since; it may fail at
any file, too, and leaves what it has not reached.  The startup settles what a crash left.
The history variables name what may be apart and why: `excused` (rows whose files a fault
or a removal took), `raced` and `misread` (files whose row went the wrong way).

In Sessions a token is the number of its session; time is a counter; each method of a
table is one step.  The throttle counts under the name as it was typed (`Name`), and the
authenticator knows accounts (`Account`): `Trimmed` leads from one to the other, and some
names lead to no account.  Failures are numbered, and the throttle holds sets of such
numbers.

## 3. Runs

| Run | Bounds | Question | What it shows |
|---|---|---|---|
| `SchedulerSerial` | 1 job (may repeat, 1 retry), 2 workers, 1 client, queue of 1 | requests against loop, workers and Stop | `SingleOwner`, `SettledIsIdle`, `CancelledPendingIsGone`, `LostToPredecessor` |
| `SchedulerCrash` | 2 jobs, 1 worker, 1 client | crashes, flushes, restarts, suspension, pauses | `TypeOK`, `NoJobForgotten`, `TerminalIsFinal` |
| `SchedulerStop` | 1 job, 1 worker, 1 client | shutdown without overlapping executions, under fairness | `StopReturns` |
| `SchedulerStopHangs` | 1 job, 2 workers | does Stop return? | `StopReturns` is violated |
| `WorkerPoolResize` | 1 default job, 3 goroutine slots, sizes 1 to 3, 2 callers of the switch | resizing, Stop, restart, suspension | `CreditsBalance`, `StoppedMeansGone`, `SwitchHeard` |
| `WorkerPoolServes` | 1 default and 3 executor jobs, 1+1 workers, queues of 1, times 0 and 1 | wake-ups and service, under fairness | `ExecQueueHasRoom`, `SignalsHeard`, `DefaultServed` |
| `QuaternaryHeap` | 6 entries, 2 times | all call sequences | `WellFormed`, `ImplementsDueQueue` |
| `JobStore` | 2 jobs, 3 policies (keep none; both; one, for a tick), 3 times, 2 failures | writes, retention, flushes, Close, process end | `CleanIsDurable`, `OldestGoFirst`, `EventuallyDurable` |
| `ConfigReload` | 7 files, 2 saves | saves, faults, failing appliers and undos, shutdown | `MixIsReported`, `TimersAreOwned`, `SaveIsAnswered`, `NoWriteAfterStop`, `ReportMovesForward` |
| `Registries` | profiles: 2 servers, 1 job, 2 requests, 2 reloads, 1 failed write; groups: 2 clerks, 2 requests, 1 failed write | requests against each other, reloads and jobs | `RestartChangesNothing`, `DeletedIsPinned`, `NoGroupVanishes`, `RetagReachesAll` |
| `Services` | log: capacity 2, 5 events, channel of 1; streams: 2 WebSockets, 1 SSE; history: 3 jobs, 2 kept, 2 per job, 3 in common, 6 events; loader: 1 path, 3 threads; retry: 6 bits, 6 retries, 1 by hand; execution: 2 permits | what listens to the bus, the loader, one execution and its retries | `TableIsExact`, `SubscriptionsAreOwned`, `HistoryIsTail`, `BackoffHolds`, `VerdictIsTrue`, `CloseReturns`, `StopReleasesAll`, `EveryFileIsLoaded`, `HandlerReturns` |
| `Console` | outputs: 1 job with a retry, 2 faults, 1 crash; or 2 jobs of one attempt each, 1 permit, 1 fault, 1 crash; sessions: 2 visitors, 3 names (two of one account, one of none), limits 1 and 2, 3 sessions, 5 logins (1 when tokens or tickets are followed), 4 ticks | outputs of executions; tokens and logins | `IndexIsTrue`, `SpentStaysSpent`, `ThrottleHolds` |

All but `SchedulerStopHangs` pass.

Why the bounds are enough.

* Scheduler: a conflict is between the steps of one job's owners; two workers are
  needed for two executions of one job to overlap, one retry and one repetition for
  each way of being scheduled anew, and the second job of `SchedulerCrash` for one to
  be held back by the guard while the other is restored.  A queue of one makes the
  loop block.  `SchedulerStop` has one worker because with two the property is false, as
  `SchedulerStopHangs` shows; what remains true with two is `LostToPredecessor`.
* Pools: three executor jobs fill worker, queue and loop while the default job comes
  due.  Three goroutine slots let the pool grow while retirements are owed; what
  needs more is covered by `BalanceIsKept`.  Two callers of the switch let the signal of
  one be taken between the flag of the other and its signal.  Executor jobs are no matter
  there: the switch holds both pools.
* Heap: six entries fill a root, four children and a grandchild; the code compares
  times only, and with two of them each comparison has both results.
* Reload: two saves are a reload and one that overtakes or waits for it; the seven
  files differ from the first in each tier and each applier, so that there are
  changes of one applier and of several, and files that do not parse.
* Registries: two requests suffice for each pair of steps to interleave, of which one
  may be the retagging of a single job; a rename there and back is two.  Two reloads are
  needed for a command that comes and goes.
* Services: a batch that failed and fresh records fit in a queue of two and five
  events refill it; two sockets are one that stops early and one that is caught by
  Stop; three jobs with room for two force an eviction and a return; three threads
  are a timer that has fired, the one that replaced it, and the scan.  With 6 bits
  the product wraps, and later the factor itself, within six retries.  An execution needs none: all its
  contenders for permits are in `others`, of which being full or not is what counts.
* Console: two attempts of one job share a directory, so that a removal can stop between
  their files; the second fault falls into what is to settle the first.  Two jobs wait for
  one permit, one crash falls into every step of the cleaner.  Two visitors are in flight
  together, the smallest limits are reached at once, and two names of one account are
  counted and cleared apart; four ticks pass the end of each token and window, of which
  no two are equal.

`Registries`, `Services` and `Console` do not check for deadlocks: there the
bounded requests, events and faults run out, and a client that has gone stays
gone.  The other runs check for them.

## 4. What the models brought to light

With a run:

* `SchedulerStopHangs`: the deferred `delete(s.cancelMap, job.ID)` of an execution
  comes after it has scheduled the next one of the same ID.  If that one has
  registered by then, its entry is deleted, Stop does not cancel it and waits.  With
  one worker (`SchedulerStop`) the next execution cannot register earlier, and Stop
  returns: this is why that run has one.  `LostToPredecessor` says how far it goes: an
  entry is lost to the delete of an earlier execution of the same job and to nothing
  else, and no entry ever leads to another execution than the one it should.

Listed as findings, with the lines that say otherwise, and stated as exceptions of a
property or as properties of Scheduler that no run lists:

* `CancelledStaysOut`: Cancel deletes the snapshot without waiting for the
  execution, which may write it again.
* `MarkHasExecution`: ForcePause finds an execution registered that has already
  looked for its mark.
* `RegroupKeepsStatus`: SetGroup decides by a snapshot it read earlier, and writes
  it back when the job has moved on.
* Two renames of a group, there and back, may lose it (`NoGroupVanishes`); a process
  that ends after DeleteGroup leaves jobs with a dead tag in the jobs' file.
* A reload that comes through after the chain's Stop replaces the watcher's last
  report by an empty one (`ReportMovesForward`).
* A DELETE of a profile whose file cannot be written cannot be repeated
  (`DeletedIsPinned`).
* The n-th retry waits 4^n times the delay submitted, until the product wraps and the
  retry is due at once, whatever the limit (`BackoffHolds`).
* A program that exits with 0 when it is signalled, or just before, is recorded as
  timed out and run again (`VerdictIsTrue`).
* A program that exits with 0 and whose output could not be written is recorded as one
  that cannot be started, for good; the comment there says that it has never run
  (`VerdictIsTrue`).
* A DELETE of a profile passes over a task that has been saved and not yet pushed; the
  task enters the heap unpaused (`DeletedIsPinned`).
* A job that is being paused, resumed, retried or edited just when a retag has it in hand
  keeps the old tag, in its entry, its snapshot or both; the retag may also write an older
  status over a pause (`RetagReachesAll`).
* A removal of outputs that stops in the middle leaves rows of files that are gone, and
  the reconciliation, which asks for directories, does not find them (`IndexIsTrue`).
* A request for the latest output of a running job may mark the row purged that the
  attempt is about to register (`IndexIsTrue`).
* The throttle takes names that differ in the blanks around them for different accounts,
  the authenticator does not: of an account only the limit of the address holds
  (`ThrottleHolds`).

Observations that contradict no line of the repository:

* Scheduler: two Resume requests of one job at once put it into the heap twice;
  `SingleOwner` holds when one client at a time calls, or without Resume and the retry
  by hand (`OneOwnerInOrder`, `OneOwner`).  A
  late write of UpdatePending may call a finished job pending again; `SchedulerCrash`
  leaves `update` out for that reason.  The branch of dispatchExec that puts a job
  back is unreachable (`RoomWhenDispatched`).
* Retry: the next round of a cron job has no delay, a retry no repetition, a retry by
  hand the delay its predecessors left; delays below zero are accepted.
* Execution: a program that exits by itself leaves its children alone, and an
  execution whose deadline passes while such a child holds the output counts as timed
  out and is repeated beside that child.
* Reload: the file is read twice per save and may differ; `core/load.go` lacks the
  watcher's replacement of timers that have fired.
* Profiles: two POSTs of one name may both be answered with 201; a PUT may revert
  another's fields; a change that could not be saved stays in memory and goes live with
  the next Apply; a built-in profile that gave way returns at the next start.
* Groups: a PUT with a stale name brings a renamed group back; an older list retags a
  job that has been moved since.
* Artifacts: marking an output as gone writes back a whole snapshot that may be stale;
  files opened between the removal of a directory and that of its rows lose their row.
* Loader: a file may be loaded by scan and watcher both, its job is then scheduled
  twice; with a crash before it is moved it is loaded again; a file finished between
  the scan and the start of watching waits for its next save.
* Sessions: a refresh that has taken its token before a logout still issues a session;
  logins in flight may exceed the limit by their number, which `ThrottleHolds` allows.

## 5. Fairness

* Scheduler: the Go runtime runs every goroutine that can go on (weak fairness of
  the loop and of each worker).  A handler owes a return only once its context is
  cancelled; the comment in Stop makes the same demand.  For executor jobs this is
  what `HandlerReturns` shows.  Nothing is assumed of clients.
* WorkerPool: loop, workers and clock go on.  Handlers of default jobs return;
  those of executor jobs only after Stop.
* JobStore: the ticker ticks and failures, bounded by `MaxFailures`, end.
* ConfigWatcher and ReloadChain: the event loop, timers, callbacks and the chain go
  on; nothing is assumed of the editor, nor that the process is shut down.
* EventLog: every transaction ends, successful or not, and who waits for `writeMu`
  gets it (strong fairness: a Go mutex in starvation mode is handed to the waiter).
* ClientStreams: handlers and pumps go on, deadlines of reads and writes pass; nothing
  is assumed of the peers.
* DirectoryLoader: events are delivered and timers fire.  Nobody has to write.
* Execution: goroutines go on, timers fire, a request ends once its context is over.
  Nothing is assumed of the program, what it forks, and the other executions.

## 6. Proofs

Every theorem below is proved for all values of the constants; where it needs more
than the specification, its hypothesis is named.  Each safety invariant is a
conjunction of named parts whose inductive closure is proved action by action.

Assumptions.  `ConstantsAssumption`, `PoolAssumption`, `StoreAssumption`,
`HeapAssumption` and those of the other modules say what the code checks or defaults
to: capacities, worker counts and limits are positive where the code makes them so,
times are integers, markers are no identifiers.  TLC evaluates them in every run.

### Scheduler (SchedulerProofs)

* `TypeCorrect`: `TypeOK`.  It is inductive after adding that a worker about to save
  again has a task that is to be rescheduled (`WorkerOK`), what a request carries at
  the steps that use it (`RequestOK`), and that no goroutine is left outside a running
  process (`PhaseOK`).
* `OneOwner`: `SingleOwner` without Resume and the retry by hand (`NoReentry`).  The
  invariant says that what is anywhere has been submitted (`Known`), and of the places
  of a job, pair by pair, that they exclude each other (`Exclusive`).
* `OneOwnerInOrder`, `SettledJobsAreIdle`: `SingleOwner` and `SettledIsIdle` with both
  of them, under `Orderly`: one client at a time, or no re-entry, and neither ForcePause
  nor SetGroup.  What is added is that nobody has a job whose snapshot is settled
  (`SettledInv`), so that who takes one up from its snapshot meets nobody.  Each part
  of the hypothesis is needed: two Resumes at once schedule a job twice, and SetGroup
  and ForcePause write "pending" or "paused" over the snapshot of a job that has moved
  on since they read it.
* `FinishedStaysFinished`: `TerminalIsFinal`, under `Orderly` and without UpdatePending,
  whose write comes after it has left the heap's lock.
* `CancelIsFinal`: `CancelledPendingIsGone`, under `CancelOrderly`: one client, or
  several that neither re-enter jobs nor use UpdatePending.
* `NothingIsForgotten`: `NoJobForgotten` through stops, crashes, restarts, suspension,
  pauses and re-entries by any number of clients, without the operations that end or
  rewrite a job from outside (`Gentle`).  With four of them it does not hold at every
  step, as TLC shows at once: a cancelled job is out of the heap before its snapshot is
  deleted, UpdatePending and SetGroup write snapshots late, and a handler that returns
  `context.Canceled` of its own leaves its snapshot "running" until the next start
  (`innerCancel`).  ForcePause is left out because the proof does not treat it; TLC
  finds no violation with it on one job (section 7).
* `EntriesAreLostToPredecessors`: `LostToPredecessor` for any number of workers, with
  the operations and clients of `OneOwner` or `OneOwnerInOrder`.  Nobody registers over a
  running execution, because they would both own the job (`RegistersAlone`); so the entry
  of a running execution is its own or is gone (`EntryIsOwn`), and only a deferred delete
  of an execution of the same job can take it (`LeaveTakesEntry`).
* `HandlersAreReached`: as long as no two executions of one job overlap (`[]Apart`) every
  running handler can be reached by Cancel and Stop.  The code does not keep them apart;
  the theorem says that the overlap of `SchedulerStopHangs` is the only cause.  No run
  lists its property, `RunningIsCancellable`.

### Pools (WorkerPoolProofs)

* `BalanceIsKept`, `StopLeavesNone`: `CreditsBalance` and `StoppedMeansGone` from
  `PoolInv`, whose core is the cardinality of the set of live goroutines.
* `RoomWhenDispatched`: `ExecQueueHasRoom`; the loop is the only sender, so the queue
  can only shrink between check and send.
* `NoSignalIsLost`: `SignalsHeard`.  `SignalsInv` follows the loop's decision: what it
  has seen since it read the clock, and who has yet to signal what it has not.
* `NoSwitchIsMissed`: `SwitchHeard`, for any number of callers (`SwitchInv`): only a flag
  that is set anew makes it a loop's business, and who sets it owes the signal.

### Heap (QuaternaryHeapProofs)

* `HeapIsWellFormed`: `WellFormed` for heaps of any length.  `HeapInv` says that the
  array is a sequence of distinct entries (`Heaps`), the index says where each is
  (`Indexed`), and parents come first (`Ordered`).  While an entry moves, the array is
  in order but for that entry: `RisesAt`, `SinksAt` and `LooseAt` say so for the two
  loops and the entry that siftRange is given.  `SiftRangeIs` collects what the loops
  do; `EachDueIs` says that the pruned traversal misses no due entry.
* `HeapIsAQueue`, `HeapRefinesDueQueue`: every call is the call of the same name on
  the abstract queue, with the same answer, and so the heap implements `DueQueue`.

The loops and the traversal are recursive functions.  The induction theorems of the
library take an operator as a parameter, which the provers at hand cannot instantiate;
the proofs argue by the least counterexample instead (`LeastNumber`, from the
well-foundedness of the order of the naturals).

### Store (JobStoreProofs)

* `FlushKeepsPromise`: `CleanIsDurable`.  While a flush is between write and rename the
  map is as it was written, because writers need the lock (`FlushInv`).
* `TrimTakesOldest`: `OldestGoFirst`, for any retention and changes of it.

### Reload (ConfigWatcherProofs)

* `WatcherTypes`, `NoStrayTimer`: `TypeOK` and `TimersAreOwned`, from `WatcherInv`.
* `NoSilentMix`: `MixIsReported`.  `ChainInv` says what is applied and what is live in
  the middle of a reload, and in the middle of undoing it.
* `StopIsFinal`, `ReportsAdvance`: the action properties `NoWriteAfterStop` and
  `ReportMovesForward`.

### Profiles and groups (RegistryProofs)

* `ARestartIsIdle`: `RestartChangesNothing`.  `ApiInv` relates table, given-way profiles
  and handlers to the file and the commands between any two steps of an Apply.
* `DeletesPauseFirst`: `DeletedIsPinned`; `CountedWait` says that a task that was counted
  and has not moved since has a pending snapshot, and is in the heap only as long as the
  request has still to come to it.
* `NoGroupIsLost`: `NoGroupVanishes`; every identity has an entry, or the failures and
  overlapping renames that the property names have been met.
* `EveryTagMoves`: `RetagReachesAll`; `PendOnCourse` says of each job a request has
  counted that its two tags agree and are the new one, or still to be reached, but for the
  moment in which the request has the job in hand, and what is in that hand.

### Services (ServicesProofs)

* `VerdictsAreTrue`: `VerdictIsTrue`.  `ExecutionInv` says at each step what the
  contexts, the signals, the failed writes and the program's end may have left in the
  answer.
* `WaitsAreBounded`: `BackoffHolds`, for Durations of any width; it rests on the
  arithmetic of doubling and wrapping (powers of two by least counterexample again).
* `EverySubscriptionIsOwned`: `SubscriptionsAreOwned`, from the life of one client.
* `LogIsExact`: `TableIsExact`.  `BatchInv` says where a record is (row, pruned, round,
  queue or counted) and that the order of appends is kept over all of these.
* `HistoryIsKept`: `HistoryIsTail`.  `ListInv` adds that the windows stand in the order
  of their last events (`NewestFirst`) and that a job without a window has been quiet
  for longer than those with one (`OthersAreOlder`); the count is the cardinality of a
  disjoint union.

### Outputs and sessions (ConsoleProofs)

* `TheIndexIsTrue`: `IndexIsTrue`.  `IndexInv` says at each step of the cleaner what
  files and rows may differ by: what RemoveAll has not read it does not remove, but then
  it fails (`FilesAreIn`), a directory that went took all files along (`RemovedIsEmpty`),
  and the two halves of the property hold in every phase (`FilesHaveRows`,
  `RowsHaveFiles`).
* `TheThrottleHolds`: `ThrottleHolds`, for names as typed and for the address; failures
  and logins in flight together stay within the limit and the number of visitors
  (`RoomForGuests`).
* `TheSpentStaysSpent`: `SpentStaysSpent` from three invariants: `RefreshInv` (a refresh
  token has one successor, or is in the hands of one request), `TicketInv`, and
  `LogoutInv` (what a full table gave up leaves those that are good for longer).

### Only model-checked

Liveness, which the prover does not support: `StopReturns`, `DefaultServed`,
`EventuallyDurable`, `SaveIsAnswered`, `CloseReturns`, `StopReleasesAll`,
`EveryFileIsLoaded`, `HandlerReturns`.  Every safety invariant and every action
property of the passing runs is stated by a theorem; where one has a hypothesis, the
run covers, within its bounds, the operations its configuration lists.

## 7. Plan

Done: all modules of section 2 and the theorems of section 6.

Next:

1. `store` and `disk` of Scheduler and the pair `data`, `file` of JobStore as two
   implementations of one abstract map that is saved now and then.
2. One status per job as its user sees it, implemented by Scheduler under `Orderly`.
3. `NoJobForgotten` with ForcePause, and a weaker form of it with Cancel that allows for
   the moment between heap and store.
4. The three hazards of `PROJECT.json` without a property, once their exceptions can be
   stated as properties of the runs.

## 8. Not modelled

* HTTP routing, request validation, listing, paging, logging, metrics: no state, or
  nothing that interleaves.
* Argument, environment and URL building, the guard of addresses, masking, previews:
  formatting and pure checks of one request (`executor/args.go`, `env.go`,
  `adhoc.go`, most of `http.go`).
* Parsing and defaults of the configuration (`core/config.go`), of job files and of
  cron expressions: pure; a value that is refused or not.
* SQL beyond inserting, pruning and deleting of rows; schema migration.
* Accounts, roles, the machine token, signatures of tokens.
* Flags and wiring in `main.go`; the web console; the examples.

`components` in `PROJECT.json` lists every part with its status.
