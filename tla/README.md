# TLA+ models of the robinhood policy engine

Robinhood watches a large file system (Lustre or POSIX), mirrors its entries in
a database and runs policies on them (purge, archive, migration, removal...).
This directory holds TLA+ models of its concurrent and stateful parts, the TLC
configurations that check them on small instances, and TLAPS proofs for all
values of the constants.  Paths below are relative to the root of the
repository's sources (`src/...`).

## 1. The system and its hard parts

A scan and changelog readers feed the entry processor, a pipeline of stages
whose last ones write to the database.  A policy's trigger thread lists
candidates from the database, puts them into a queue, and workers run the
action on each, through schedulers, and update the database.  The daemon starts
and stops all of that.

| part | source | state | operations | what is hard |
|---|---|---|---|---|
| entry processor | `entry_processor/entry_proc_impl.c` | one list of operations per stage with counters and a mutex, `terminate_flag`, `nb_waiting_threads`, a semaphore of tokens | push, get next, acknowledge, move, unblock, terminate | hand over hand locking, order of operations, lost wake-ups, counters read without their mutex |
| id constraint manager | `entry_processor/entry_proc_tools.c` | two hash tables of operations | register, is first, unregister | operations on one entry must not overtake each other |
| standard pipeline | `entry_processor/std_pipeline.c` | the operation, the database | one function per stage | an operation may skip stages or be dropped anywhere |
| diff pipeline | `entry_processor/diff_pipeline.c` | the same | the same | the same engine, other routes |
| changelog reader | `chglog_reader/chglog_reader.c` | last read, pushed and committed record, a list and a hash of pending records | read, compact, push, commit, acknowledge, restart | acknowledging no record that is not in the database, restart after a crash |
| namespace scan | `fs_scan/*.c` | tree of directory tasks, stack of tasks per depth, counters | start, list a directory, end a task, end the scan, time-outs | last child to finish ends its parent, a wrong end of scan removes live entries |
| policy queue | `common/queue.c` | cyclic array, two semaphores, counters | insert, get, acknowledge | semaphores outside the mutex, unsigned indexes |
| policy run | `policies/policy_run.c` | queue, counters, iterator on the database | fill the queue, workers, limits, time-outs, abort | limits are checked on counters of actions still in flight |
| schedulers | `policies/policy_sched.c`, `modules/common_sched.c`, `modules/sched_ratelimit.c` | token bucket, wait queue and thread per scheduler | push, schedule, flush, reset | entries change hands between threads, a stop races what is still queued |
| triggers | `policies/policy_triggers.c` | per trigger status, thresholds | check, run, wait, stop | a stop at any moment, hysteresis of watermarks |
| policy matching | `policies/policy_matching.c` | none | three-valued evaluation of boolean expressions | missing attributes |
| status managers | `policies/status_manager.c`, `modules/{lhsm,shook,backup,checker,modeguard}.c` | a status per entry | changelog, action and get-status callbacks | events and actions out of order |
| list manager | `list_mgr/*.c` | SQL tables | insert, update, remove, soft remove, mass remove, transactions, retries | retry of half-done transactions, several names per entry |
| daemon | `robinhood/rbh_daemon.c` | module masks, signals | start, signal, reload, stop | order of termination |
| read-write lock, uid/gid cache | `common/RW_Lock.c`, `uidgidcache.c` | readers, waiting writers | P_r, V_r, P_w, V_w, downgrade | condition variables |
| command line tools, parsing of the configuration, logs, reports | the rest | none that is shared | | sequential |

`PROJECT.json` lists every component with its status, and under `hazards` what
is hard to test, at the line where it bites.

## 2. Modules

### The policy queue: `EntryQueue`, `BoundedFifo`, `EntryQueueProofs`, `EntryQueue.cfg`

`EntryQueue` has the cyclic array, its two indexes, the two semaphores and the
two counters that `wait_queue_empty` compares.  An inserter and a worker are a
program counter each: `InsertWait` (sem_wait), `InsertLocked` (the critical
section, with its "queue should not be full!" error), `InsertPost` (sem_post),
and the same for `Queue_Get`, then `Acknowledge`.  `BoundedFifo` is what the
queue promises: a bounded channel that hands out each entry once, in order.
`FifoSpec` is the refinement.

### The entry processor: `EntryPipeline`, `StdPipeline`, `MCPipeline`

`EntryPipeline` is the engine, with the stages and their routes as constants.
A step is what a thread does between two points where it may wait (a stage
mutex, `work_avail_lock`, the token semaphore, the condition).  A mutex that is
kept across such a point is a variable.  A push is `PushToken`, `PushSkip`, `PushInsert`
and `PushSignal`; a worker goes through the scan of the stages (`GetNextOp`), the stage
function, the acknowledgement and the recursive `move_stage_entries` (the
variable `frames` is its stack).  `id_hash` and `name_hash` are what a look-up
in the id constraint manager sees.  `StdPipeline` gives the stages, flags and
thread limits of the standard pipeline and the stages each stage function may
send an operation to.  `MCPipeline` composes the two.

### Changelogs: `ChangelogReader`, `RecordApply`, `MCChangelog`

`ChangelogReader` has the MDT's changelog (external), one reader thread with
`op_queue`, the operations in the pipeline, the callback of the last stage, and
the database.  `RecordApply` says what one operation does to the database: rows
of MAIN with a link count and a version of the attributes, rows of NAMES.  A
crash loses everything but the database and the changelog.  Each record is
merged, cancelled or split as `process_log_rec` does.  The two records of a
rename may be consecutive or not; `FirstHalves` and `HalvesOf` pair them.  The
first commit is always due to be saved (`info.updated`): its last update has
no date.  The pipeline is abstracted to what `EntryPipeline` is checked for: operations on an entry are
applied in order and callbacks are called in order.

### The namespace scan: `TaskStack`, `FsScan`, `MCFsScan`

`TaskStack` is the stack of tasks as operators on a record (one list per depth,
`max_task_depth`, the semaphore).  `FsScan` has the scan threads, the tree of
tasks, the recursive end of tasks, the end of the scan with its final operation
in the pipeline, and the stop request.  A thread that hangs in open stays there
(`Hang`) unless `Robinhood_CheckScanDeadlines` finds it (`RecoverThread`): that
takes a `scan_op_timeout` and a daemon, because `scan_starter` checks the
deadlines once in one-shot mode and until the stop otherwise
(`DeadlinesChecked`).  An update that the database refuses is logged and
acknowledged (`StoreEntry`).  `missed` is what a fault of the current scan kept
from being seen or stored.  `RecordBehind` is a changelog record that is pushed
behind the final operation, which is then not sure to be processed (finding 1).
A time is the number of the scan it falls in.  The pipeline is the
set of the entries that are pushed and not stored yet; the final operation waits
for all of them, which is what a sequential last stage and the order kept by
`EntryPipeline` give.

### Policy runs: `PolicyRun`, `ActionSched`, `MCPolicy`

`PolicyRun` has the trigger thread (`pc` follows check_trigger, run_policy and
fill_workers_queue), the workers and one thread per scheduler (`th`), and
`policy_module_stop`.  `it` is what is left of the list that the database
returned, `fresh` the entries whose md_update is later than the start of the
run, `acks` the acknowledgements by status.  The queue is the one of
`BoundedFifo`, with one step per insertion and removal.  `ActionSched` has the
state of a scheduler and the answers of max_per_run and rate_limit.  A
scheduler's check and its count are two steps, as in the code.  The match is a
nondeterministic answer: `LastEligible` bounds the entries that may match, and an
entry without the attribute that the list is sorted by never does
(AS_MISSING_MD, `HasSortAttr`).  The match that follows the schedulers, or the
only one, refreshes the attributes (post_sched_match at its default).  The match
before the schedulers refreshes them or not according to `pre_sched_refresh`,
part of the setup: FALSE is the default of pre_sched_match, cache_only.

## 3. Runs and what they show

Each property has a comment that states it, next to its definition.  `pass` runs
hold; `violation` runs show a disagreement between the code and what one of its
comments says.

| run | instance | shows |
|---|---|---|
| `entry_queue` | 2 inserters, 2 workers, 2 places, 2 entries, counters modulo 8 | the semaphores account for every place (`PlacesExact`), the two "UNEXPECTED ERROR" branches are dead, submitted minus acknowledged is what is in flight although the counters wrap, the queue refines a bounded FIFO, every entry is served |
| `pipeline_mixed` | 2 workers, 2 feeding threads, 3 programs of operations on common entries and names, 2 tokens, batches of 2, FLUSH or BREAK at any time | no operation is lost or overtaken (`OrderKept`), the counters of a stage are exact when its mutex is free, sequential stages and operations on one entry keep the order of arrival, tokens are conserved, a flush leaves nothing behind |
| `pipeline_flow` | 2 workers, one feeding thread, 3 operations, 2 tokens | every operation that is to be pushed leaves, `EntryProcessor_Terminate` returns |
| `pipeline_gc_stuck` (violation) | the end-of-scan operation with a record behind it | finding 1 |
| `changelog_crash` | one MDT; 6 records (create, write, rename over a file, hard link) with one crash, one stop and one failing request; 5 records with a rename in two of them, one crash and one stop | no record that was saved or cleared is missing from the database, and the database converges to the file system; a rename in two records that a restart tears apart is left out |
| `changelog_modes` | five scenarios (entries that come and go, unknown entries, the root, renames in two records of two kinds of MDT, a rename with another record between its halves), one-shot and daemon, one failing request, one failing database operation | commits do not go back but for the first half of a separated rename, the queue keeps its bound, a one-shot run is complete, every record is processed in the end |
| `changelog_links` (violation) | a file with two names changes and loses one | finding 2 |
| `fs_scan` | 2 threads, 7 scenarios (daemon, a second scan after an aborted one, deep, initial, partial without and with deletion policy, restricted), one fault of any kind: a failing open, getdents, stat, update of an entry or removal of the old ones, a hang, a record behind the final operation, an entry that is removed, a stop (the second scan: getdents and a removal, two faults; the restricted one: open, stat or update) | the tree and the stack of tasks stay sound, a task has one owner, the end comes when all is done, a complete scan drops what was gone, even if the aborted one stores it late, and drops nothing that a fault did not hide |
| `fs_scan_ends` | under fairness, 3 of those one-shot scans, and a daemon's scan with two faults among a hang, a record behind the final operation and a stop | a scan ends whatever fails, except that a hang that nothing looks for or a record behind the final operation may hold it; a stop returns, except that any hang or such a record may hold it |
| `fs_scan_incomplete` (violation) | a getdents error in one of two directories | finding 3 |
| `policy_run` | 3 entries in lists of 2, 2 workers, a queue of 1, rate_limit (1 per period) then max_per_run (1), error rate, request errors, a stop, a first match that refreshes or not | every queued entry is acknowledged exactly once on every path, the limit of the run is kept, no action is run twice, the summary is what was done, the chain of requests loses no eligible entry, a run ends unless a full list of refused entries may be requested again |
| `policy_stop` (violation) | 2 entries, 1 worker, 2 runs | finding 4 |

`PROJECT.json` gives a mutation of the model for each property of each passing
run (operators with a "Fault:" comment): a plausible mistake in the code, which
makes TLC find the property violated.

### Bounds

- Two threads of each kind are the least that races; most of the interleavings
  the code comments worry about are between two.  `EntryQueueProofs` removes that
  bound for the queue.
- Limits (places, tokens, batches, lists, queue of records) are smaller than
  what is pushed, so each is reached and waited for.
- `UIntMod` replaces 2^32.  In `entry_queue` it is small enough for the counters
  to wrap; in the policy runs it is larger than any count and only tells a
  negative difference.
- Each scenario bounds what the environment does: `max` (stops, crashes, failing
  requests, failing database operations) for a changelog, `fault_kinds` and
  `max_faults` for a scan.  One or two of them are combined with every
  interleaving; not every kind is combined with every scenario.
- `MaxRuns` and `MaxTimeouts` bound the runs and the waits that give up (none in
  the checked runs).  `MaxListings` bounds how often an entry is listed, in the
  one case where nothing in the code does (`MayRelist`).
- The scenarios (programs, changelogs, trees, setups) are in the MC modules.
  They are the smallest in which the merge, the cut of a list, the rename, the
  skipped stage or the depth limit happens.  They are not all scenarios: section
  6 names some in which a property fails.

`CHECK_DEADLOCK FALSE` is set where the modelled threads may end (termination,
one-shot, the end of the scans that are asked for).  `entry_queue` checks
deadlock.

### Fairness

Weak fairness per thread: each is a POSIX thread that runs when it can, system
calls and actions return, except the open of a thread that hangs.  The deadlines
of the scan are checked as `scan_starter` does, until the stop.  The pipeline
serves the operations of the scan, the final one only if no record is behind it.
`entry_queue` does not require inserters to insert.
`ChangelogReader` asks for strong fairness of `PushOp` only, because the tokens
of the pipeline may come and go; the pipeline gives them back fairly
(`pipeline_flow`).  `PolicyRun` also has time pass (`PeriodEnds`).  No fairness
is asked of crashes, stops, errors or new records, except that the MDT writes
the second half of a rename.

## 4. Proofs

`EntryQueueProofs` proves, for any finite number of inserters and workers, any
set of entries, any number of places and any counter width larger than what can
be in flight:

- `TypeCorrect`: `Spec => []TypeOK`, by one step per action.  `NextIndex` says
  that the modulo keeps an index inside the array.
- `SemaphoresExact`: `Spec => [](PlacesExact /\ NoUnexpectedError)`.

`NoUnexpectedError` alone is not inductive: that an inserter finds room follows
from the number of threads that have passed a semaphore and not yet entered the
critical section.  The inductive invariant `IInv` adds the two accounts
(`FreePlaces`: free + claimed + filled + emptied but not posted = places;
`FilledPlaces`: announced + claimed by a worker + written but not posted =
filled).  `MoveOne` says that one thread's move changes two cardinalities by
one; `InserterMoves` and `GetterMoves` instantiate it; `CountChanges` gives the
effect of an index on the number of entries; `HoldersFindRoom` derives that a
thread inside finds the array neither full nor empty.

Only model-checked: everything else, and all liveness and the refinement
`FifoSpec`.  Liveness under fairness and induction over data are out of reach
of the prover that is used.

## 5. Findings

1. `entry_proc_impl.c:704`: the end-of-scan operation has no id.  When it comes
   to the constrained stage with a record behind it, nothing moves any more,
   while `std_pipeline.c:1902` says that its callback must be called "in any
   case, to unblock the scan".
2. `std_pipeline.c:1531`: a record that reads the attributes stores a link count
   that may already count a later UNLINK; that UNLINK then removes an entry that
   still has a name.  `std_pipeline.c:1515` says the values of the file system
   are not wanted "if we're not doing a scan".
3. `fs_scan.c:1115`: an error in the middle of a directory neither disables the
   removals nor makes the scan incomplete, so live entries are dropped;
   `fs_scan.c:736` and `:337` say they must not be.
4. `policy_run.c:1897`: `run_policy` clears `aborted`, so a stop requested since
   the last check (`policy_triggers.c:1465`) is lost and `policy_module_wait`
   never returns; `policy_triggers.c:1993` says it is seen by all components.

## 6. Limits that were met and have no run

Each was reached with TLC by changing the constant or the scenario that is
named, or read in the code where it says so.

Queue
- `queue.c:36`: the number of queued entries in the statistics is wrong once
  `last_index` is lower than `first_index`, unless array_size divides 2^32
  (reached with a property on that number; it is only displayed, and compared
  with 0 in `wait_queue_empty`).

Pipeline
- One worker (`Workers = {w1}`) makes `TerminateReturns` fail: the flag is
  broadcast without the lock (`entry_proc_impl.c:1213`), so a worker about to
  sleep misses it.
- An UNLINK without id may run while an earlier operation is in an upper stage
  (`entry_proc_impl.c:712`, against the comment at 707).

Changelogs
- `StackFlag = BOOLEAN` (insert_flags is not initialised, `chglog_reader.c:1097`)
  breaks `Converged`.
- CREATE, CLOSE and UNLINK of a file received again after a crash cancel each
  other (`chglog_reader.c:845`); the entry stays in the database (`Converged`
  fails on such a changelog with one crash).
- In a rename in two records, the fake UNLINK acknowledges the number of the
  RENAME (`chglog_reader.c:964`), which is still queued, and a restart from there
  reads the EXT alone and drops it.  `NoRecordLost` fails without its exceptions
  `FirstHalves` and `Torn`; `Converged` leaves the same case out.
- When other records come between the RENAME and the EXT, the RENAME waits and
  is committed after them, so last_commit goes back: `CommitForward` fails
  without its exception `Displaced`.  The comment at `chglog_reader.c:1195` admits
  the race.
- A database error is acknowledged as a success (`std_pipeline.c:1707`);
  properties exclude it with `DbFailed`.
- `last_push` is read from the record after it was handed over
  (`chglog_reader.c:674`): a batch may be cleared later.
- Reopening starts from `last_read`, which is 0 after a restart
  (`chglog_reader.c:1274`): old records are received again.

Scan
- `PresentKept` also fails with the faults "stat", "update", "stop" and, in a
  daemon with a scan_op_timeout, "hang" (`WideScenarios` with that fault kind).
  `ScannedKept` says that nothing else makes it fail: it leaves out `missed`.
- A thread that hangs in a one-shot scan (`fs_scan_main.c:42`), or without
  scan_op_timeout (`fs_scan.c:1999`), keeps the scan from ending; any hang keeps a
  stop from returning, as the deadlines are not checked after it.  `ScanEnds` and
  `StopReturns` have these as exceptions, and a record behind the final operation
  (finding 1).
- Not modelled: exit_on_timeout, which ends the process instead of recovering the
  thread.
- Not modelled: the window in which `current_task` points to a parent that may
  be freed (`fs_scan.c:559`), and a thread cancelled inside getdents that goes on
  with a freed task (`fs_scan.c:2031`).

Policy run
- `MaxTimeouts = 1`: the callers of `wait_queue_empty` ignore ETIME, so an action
  may be run twice; and with two runs, late acknowledgements make the number in
  flight wrap, so `check_queue_limit` never returns (`policy_run.c:774`).
- `MaxRuns = 2` with two schedulers: the entry that stops a run is acknowledged
  (`policy_run.c:2847`) before the schedulers are flushed (2859), and the flush
  may end the schedulers of the next run.
- `RunEnds` does not hold without its exception `MayRelist`.  A refused entry
  keeps its md_update when it is refused before the schedulers and pre_sched_match
  is cache_only, the default (`policy_run_cfg.c:79`), when its status manager
  refuses it, or when the action updates nothing (PA_NONE).  If as many such
  entries as a list has places have the sort value of the last one, the same list
  is requested for ever.  The checked setups have the first cause only (`refresh` FALSE
  in `MCSetups`); the constants `status_refusals` and `AfterActions` have the others.
- A request that fails returns without `update_pass_stats` (`policy_run.c:1686`);
  `SummaryExact` excludes it.
- AS_NOT_SCHEDULED is listed as skipped (`run_policies.h:45`) but is not counted
  as skipped (`policy_run.c:578`).
- max_per_run and rate_limit compare, then count: concurrent threads may exceed
  the limit.

## 7. What is not modelled

See the components with status `not_modelled` or `partly` in `PROJECT.json`.  In
short: SQL generation and the schema, reports and command line tools, parsing of
the configuration, logs, the copytool and Lustre utilities (sequential or pure
I/O); allocation failures; volumes, single-file and deleted-entry policy runs;
the attributes that policies add to entries.  Composition is by abstraction: the
scan, the changelog reader and the policy run each have the neighbour's checked
behaviour (pipeline, queue) instead of its module.

## 8. Plan

1. Database layer: transactions, retry of a failed or half-done request
   (`lmgr_delayed_retry`), soft removal; refine the abstract rows of
   `RecordApply`.
2. Triggers: thresholds and watermarks, which targets are run; the daemon's
   order of start and stop, composed with the modules' stops.
3. Read-write lock and the uid/gid cache, with a proof of mutual exclusion.
4. Status managers: the Lustre/HSM and backup status machines driven by records
   and actions.
5. Policy matching as pure operators: three-valued evaluation against a
   reference, and the conversion of a rule to a filter against the evaluation.
6. Diff pipeline routes on `EntryPipeline`.
7. Proofs: `InFlightExact` of `EntryQueue` and the refinement of `BoundedFifo`;
   `StackExact` of the scan's stack; `InFlightExact` of `PolicyRun`; `TokensExact`
   of the pipeline; lemmas on `TaskStack` and `ActionSched`.
