# A TLA+ model of ArchiveBox's crawl queue

ArchiveBox keeps no scheduler state in memory. A `Crawl` and its `Snapshot`s are database rows
with a `status` and a `retry_at`, and everything that moves them - one elected runner, the asyncio
tasks of a crawl, event projectors, web requests, admin actions, CLI commands - does so by single
conditional `UPDATE` statements on those two columns. There are no transactions around a decision,
so a command may fall between what was read and what is written anywhere. The election of the
runner, the deletion and migration of files, plugin requests and schedules are built the same way:
rows and files, written one at a time, by processes that may die. This directory models these
protocols, checks them with TLC, and proves their safety with TLAPS.

Paths below are relative to `archivebox/` unless they begin with `docs/`.

## Inventory

| Component | State | Operations | Interacts through |
|---|---|---|---|
| Durable queue, `workers/models.py` | one row: `status`, `retry_at`; loaded copies | `safe_update`, `claim_for_worker`, `claim_processing_lock`, `update_and_requeue`, `pause`, `resume` | the row; every other component uses it |
| Lifecycle lock, `crawls/locks.py` | per-process registry, RLock, depth, users, an open file's flock | enter, re-enter, leave | the file system, `fork` |
| Scheduler, `services/runner.py` (`run_pending_crawls`, `run_due_crawl`, `run_due_snapshot`) | none between rows; a pass over ordered queries | pick, follow the parent, maintain, claim, start, wait, seal, clean up | rows; starts a `CrawlRunner` |
| Crawl execution, `services/runner.py` (`CrawlRunner`) | selected ids, tasks, abort flags, the crawl's last loaded copy | load, setup, start, enqueue, heartbeat, watch, cleanup, complete, finalize | rows, events, hook processes |
| Projectors, `services/crawl_service.py`, `services/snapshot_service.py` | the retry_at an attempt owns, `was_sealed` | handlers of the crawl's and snapshots' events, `renew_lease` | events in, rows out |
| User commands, `crawls/models.py`, `core/models.py`, `crawls/admin.py`, `api/` | a loaded copy | pause, resume, cancel, admin Pause/Resume/Seal, snapshot pause/resume/cancel, re-extract, upload | rows only |
| Recovery, `core/recovery_util.py` | none | `recover_orchestrator_state` at start and every 30 s when idle | rows, `Process` rows |
| Runner gate, `core/takeover_util.py`, `machine/models.py` | `Process` rows: status, role, pid, start time, container | stand by, clean up stale rows, list live runners, give way or stop the others, be promoted | rows, signals, the operating system's pids |
| Plugin requests, `core/models.py`, `services/` | `config["RETRY_PLUGINS"]`, the attempt's plugins | merge, choose, run, consume, requeue | the snapshot's row |
| Retention and deletion, `base_models/models.py`, `core/models.py` | `delete_at`, status `deleting`, files | ask, sweep, kill writers, remove files, delete the row | rows, hook processes, file system |
| Filesystem migration, `core/models.py` | files, `fs_version` | copy, verify, convert, remove, persist | file system |
| Crawl schedules, `crawls/models.py`, `services/runner.py` | enabled, template; no date of the last run | create, disable, run by hand, find due, dispatch | crawls, which retention deletes |
| Admission, `services/resource_admission.py` | memory baseline, observed cost | slots for new captures | CPU and memory limits |
| Discovery and limits, `crawls/models.py` | rows of new snapshots | deduplicate, cap, create | projector |
| Binaries, results, tags, search, personas, config, plugins, web, API, CLI, supervisord | their own rows or none | projections, presentation, configuration | read the rows above |

What is hard here:

* **Stale copies.** Every decision is a `SELECT` and a later `UPDATE`. `retry_at` is at once due
  time, lease and version, so a value that repeats breaks all three.
* **Two owners.** A lease may run out while its owner's hooks run; a runner may die and its hooks
  go on; the next runner repairs the queue by looking at leases.
* **Commands against work.** Pause, resume and cancel write a crawl and its snapshots in several
  statements while tasks complete and discover new rows.
* **Invisible rows.** A row with `retry_at` NULL or at `RETRY_AT_MAX` is not picked; unfinished
  work in it is lost without an error.
* **Names that are used again.** A pid names a process only until it dies, and a container has
  pids of its own; the gate judges rows by pid and start time.
* **Work in two places.** Files and rows change one after the other: what a deletion or a
  migration finds is what an earlier attempt, or another process, left there.
* **State read off other state.** A schedule knows when it ran by its youngest crawl, which
  retention may delete.
* **Forks and threads** around one file lock.

What makes each component correct: of the queue, that a lease has one holder and no stale copy
wins; of the lock, mutual exclusion and that nobody is locked out; of the crawl system, that no
work is forgotten, lost or done twice at once, that the user's decisions stand, that the statuses
follow the documented diagrams, and that cancelled, paused and running crawls come to the rest
they should; of the gate, that one runner works and somebody is elected; of plugin requests, that
none is dropped before it has run; of deletion, that it stands, ends and leaves nothing; of
migration, that no output is lost; of schedules, that they run once each time.

`PROJECT.json` lists every component, the hazards at their lines, and for each definition the
lines it models.

## Modules

| Module | Models |
|---|---|
| `WorkQueue` | the queue protocol on one row, with clock, leases and loaded copies |
| `LeaseRegister` | what that protocol promises: an atomic lease with a status |
| `LifecycleLock` | the re-entrant lock across threads, processes, forks and crashes |
| `CrawlRows` | the rows of one crawl and its snapshots, and the statements on them |
| `CrawlCommands` | what users do, a step per statement |
| `CrawlScheduler` | one runner's passes over the queue |
| `CrawlExecution` | one `CrawlRunner`, its tasks and projectors |
| `CrawlSystem` | all four together, with deaths, recovery, time and fairness; the properties |
| `LifecycleDiagram` | the two state diagrams of `docs/ArchiveBox-Architecture-Diagrams.md`, and the one arrow the code has besides |
| `RunnerGate` | the election of the one runner that `CrawlSystem` takes for granted |
| `RunnerTurns` | what the gate promises: runners take turns, each once and from nobody, and give way to newer ones only |
| `PluginRuns` | requests for single plugins against the attempts that run them |
| `SnapshotDeletion` | retention, requested deletion, and what runs beside them |
| `FsMigration` | the move of a snapshot's files to the current layout |
| `CrawlSchedules` | a schedule, the daemon that dispatches it, the retention of its crawls |
| `WorkQueue_proofs`, `LifecycleLock_proofs`, `CrawlSystem_proofs`, `RunnerGate_proofs`, `PluginRuns_proofs`, `SnapshotDeletion_proofs`, `FsMigration_proofs`, `CrawlSchedules_proofs` | inductive invariants and theorems |
| `MCWorkQueue`, `MCLifecycleLock`, `MCCrawlSystem`, `MCRunnerGate`, `MCPluginRuns`, `MCSnapshotDeletion`, `MCFsMigration`, `MCCrawlSchedules` | instances for TLC |

The crawl modules extend one another in the order `CrawlRows`, `CrawlScheduler`, `CrawlExecution`,
and `CrawlRows`, `CrawlCommands`; `CrawlSystem` extends both ends. The five last components stand
apart: each has a few actions of its own in place of the rest of the system. An operator whose
comment begins with "Faulty" is a plausible mistake in the code, used only to show that a property
notices it.

### The queue (`WorkQueue`)

`row` is the database row, `mem[p]` the copy process `p` loaded. `Load` is a query or
`refresh_from_db`; each other action is one `UPDATE` with its filter: `ClaimForWorker` compares
`retry_at` and needs it to be due, `UpdateAndRequeue` compares `retry_at`, `Pause` and `Resume`
compare the status, and `MarkDeleting`, which only Snapshots have, compares nothing
(`core/models.py:695`, `core/admin_snapshots.py:1547`). A timestamp is a pair: a tick, which
decides whether it is due, and a number for the microseconds, which makes timestamps of different
statements different. NULL and `RETRY_AT_MAX` are single values. `claimed` is a history variable:
`p` took the lease it still remembers. The constant `Parks` holds the statuses, besides paused,
that rows have at `RETRY_AT_MAX`: deleting for a Snapshot, started for a Crawl (`run_due_crawl`).
So `RETRY_AT_MAX` does not tell one of them from another, and a copy that waits matches any row
that does; the properties except just that. Plain `save()` calls, such as `patch_crawl`'s, are
outside the protocol and not modelled here.

### The lock (`LifecycleLock`)

Each section under `_registry_lock` and each blocking call is an action. A flock belongs to an
open file that a fork shares; `Fork` copies the registry into the child, `Enter` in the child
drops it. `Fail` is an exception from `open` or `flock`. Crawls and binaries use the same lock
under keys of their own; the model has one key.

### The crawl system

`row[r]` is status and retry_at, `due` the rows whose timestamp has passed. Timestamps here are
versions only: `Fresh(r)` is a number that no copy of the row carries. `WorkQueue` justifies that:
a new timestamp differs from every earlier one, and nothing but equality and "has it passed" is
asked of it. `RETRY_AT_MAX` stays the single value it is, so the confusion of two rows that both
wait for ever is possible here too. `run` is the runner's program counter with the copy it holds,
`task[s]` a snapshot's task with the retry_at it owns, `hooks` the snapshots with a live hook
process, `cmd` the command under way. `results[s]` says whether s has ArchiveResults of uploads,
of the server's hooks, or of both.

* The `SELECT`s one decision rests on are one step, the `UPDATE` it leads to is another, and
  refreshes are steps where the code has them; a handler is the chain of its `run.at` values.
* `CrawlScheduler!Query` lists the nine queries of a pass in their order; a handler that returns
  True starts a new pass, one that returns False lets later queries go on.
* `CrawlExecution` has the crawl's phases and, per snapshot, payload, event, start, hooks,
  completion, projection of discovered rows, seal, and the crawl's seal by the last task.
  Cancellation comes by `Watch`, by a lost lease, or by a signal.
* `Die` may happen at any step and leaves any subset of the hooks alive; `Restart` runs `Recover`,
  an idle runner does so again. `Repairs` are the statements of `recover_orchestrator_state` in
  their order: queued rows without `retry_at`; the sealed crawl of `ExtensionOnly` snapshots, which
  are sealed and have nothing but uploads, to started, and these to queued
  (`core/recovery_util.py:77-110`); started rows nobody owns.
* An attempt's hooks have results (`Launch`), which a cancelled one withdraws (`HooksStop`), so an
  uploaded-to snapshot may come to be `ExtensionOnly` again.
* `LeaseExpires` lets any timestamp pass, but not during a pass in which handlers have done
  nothing: a pass takes milliseconds, a lease a minute.

Assumptions, none of which the properties could rest on silently: one elected runner
(`RunnerGate`), which holds the lifecycle lock; no memory deferral and no crawl limit; valid URLs;
no pending `RETRY_PLUGINS` (`PluginRuns` has them); hooks raise nothing but cancellation; a
cancelled task's hooks end with it; an attempt launches some hook; uploads come under the browser
extension's hook name; the first batch of a run is one snapshot of least depth; the
rows a snapshot discovers are created in one step; `selected_plugins` is what `load_run_state`
sets it to; one user command at a time.

### The runner gate (`RunnerGate`)

One action is one row write or one scan of the rows in `enter_single_runner_gate` and `Process`:
`CreateRow` and `Enter` are `Process.current` and `mark_running`, `Cleanup` is
`cleanup_stale_running`, `List` `live_runner_processes`, `Decide` the comparison of start times,
`Promote` the last write. A daemon first stands by (`StandBy`). Runners are numbered by their
start. `seen[r]` are the rows as r's last scan found them, which `kill_tree` goes by: `KillLook`
compares pid and start time, once; `KillTerm`, `KillPoll` and `KillHard` then know the process by
its bare pid, whoever has it at that moment; `Bury` saves the whole row as it was scanned, so that
what was written to it in between, a promotion say, is undone. `owner` is the operating system:
who has a pid now, a runner, a `Stranger`, or nobody; a free pid may be given away at any step.
`ns` is the pid namespace, which `Restart`, a new container, replaces, so that old rows name pids
that mean something else. `old` are the processes started more than `PID_REUSE_WINDOW` ago;
`AgesAt` says in which stages one may get that old. Two variables are history: `worked`, who has
been let in, and `strayed`, whose victim's pid has been given away since `KillLook`.

Assumed: SIGKILL acts at once; `proc.children` raises if the pid has changed hands before it is
called; all processes are of one user, so a signal is not refused; the server is older than its
runners; the scan and the write of a cleanup are one step. `RunnerTurns` is the abstract side, over
what each runner is doing (`TurnOf`): absent, waiting, working, done or dead.

### Plugin requests (`PluginRuns`)

`schedule_plugin_run` is `Ask`, then rounds of `AskRead` and the compare-and-set `AskWrite`. The
runner's attempt is `Pick`, `Claim`, `Choose` (which plugins), `StartAttempt`, `Setup`,
`SnapshotEvent` (which requests it is to consume, and the retry_at it owns), `Hooks`, `Complete`,
and rounds of `ConsumeRead` and `ConsumeWrite`; a sealed row then gets `Maintain` and `Requeue`.
`asked` is a history variable, what was requested and has not run. `LateRequests` lets a request
come between `Choose` and `SnapshotEvent`.

### Deletion (`SnapshotDeletion`)

`AskDelete` makes a row `deleting` at `RETRY_AT_MAX`. The runner's sweep takes the first `Batch` of
expired rows, of any status, and of these the sealed ones (`Due`); runner and deletion worker take
the first `Batch` of the requested ones. Both go through `Mark`, `Kill`, `Remove` and `DeleteRow`,
one statement or file operation each. Beside them the runner picks, claims, captures and completes;
hooks write files, also after their runner died. A user loads a row of any status (`LoadCopy`) and
writes it by `Requeue`, which is `update_and_requeue` and `schedule_plugin_run`, `Pause` or
`Resume`, whatever has become of the row. `late` records rows whose deletion began while they were
captured. `Stuck` are those whose files cannot be removed, `Touched` those users have copies of.

### Migration (`FsMigration`)

A migrator goes through the steps of `migrate_filesystem_to_current_version`: rename, or copy
(`Open` truncates, `Fill` writes, `Verify` compares), `Convert` of the index, `Match` of all
entries, `Remove` of the old tree, `Persist`. What matters of an entry in the new place is whether
it is absent, torn, whole, or some other output. `crew` is who migrates: one, or the runner and
`archivebox update` at once, since the latter holds no lease.

### Schedules (`CrawlSchedules`)

Time is ticks; the expression names each multiple of `Period`. The daemon's pass is `Sweep`,
`Delete`, `Check` (`is_due`), `Dispatch`, `Work`; users `Create`, `Switch`, and run all
(`RunAll`). `LastRun` is `last_run_at`: the youngest crawl with a row, or `modified_at` for a
maintenance schedule. `ran` is a history variable, the real date of the last dispatch.

## Runs

All bounds are in the cfgs. Deadlock is checked in the queue's, the lock's and the crawl system's
runs; the five components below them may stop, when everybody has done what the bounds allow, and
their cfgs say `CHECK_DEADLOCK FALSE`.

| Run | Instance | Shows |
|---|---|---|
| `work_queue` | a Snapshot's row, paused or deleting at `RETRY_AT_MAX`, three processes, five timestamps | `TypeOK`, `VersionFaithful`, `WriterSawStatus`, `LeaseExclusive`, refinement of `LeaseRegister` (`ImplementsLease`) |
| `lock` | two processes, two threads each, one crash, fork or failing call | `TypeOK`, `MutualExclusion`, `HolderKeepsFlock`, `RegistryTracksUsers`, `SomebodyGetsIn` |
| `crawl_commands` | a URL and a discovered one; two of pause, resume, cancel, cancel of a snapshot, upload | `TypeOK`, `UserDecides`, refinement of `LifecycleDiagram` (`FollowsDiagram`), `PauseEnds` |
| `more_commands` | the same; two of admin pause and resume, snapshot pause, resume and cancel, re-extraction, upload | `NeverForgotten`, `SnapshotsEnd` |
| `death` | two URLs captured at once, each run by itself; two of pause, resume; the runner dies once | `NeverForgotten`, `OneAttempt`, `NoWorkLost` |
| `ends` | a URL and a discovered one, each run by itself; one cancel, one death | `WorkEnds`, `CancelEnds` |
| `runners` | three runners, the second a daemon; three pids, one stranger at a time, one death, one new container | `TypeOK`, `OneRunnerWorks`, `WorkerOnRecord`, `SparesStrangers`, `Elects`, refinement of `RunnerTurns` (`TakesTurns`) |
| `migration` | an index, a file and a link, with or without other outputs in the new place; one migrator or two; two deaths | `PersistedLast`, `NothingLost`, `NothingOverwritten`, `Migrates` |
| `deletion` | three expired snapshots, the files of one stuck, copies of another; batches of two, one hook, three timestamps, one death | `GoneClean`, `DeletionStands`, `RequestsEnd`, `RetentionEnds` |
| `plugin_runs` | two plugins, two users, two requests; two rounds of each compare-and-set loop; one death | `RequestsPersist`, `RequestsQueued`, `RequestsRun` |
| `schedules` | an expression every two ticks, six ticks; crawls kept for three, the template for ever; one run by hand, one death | `OncePerSlot`, `Repeats` |
| `found_torn_copy` | the files of `migration`, one migrator, one death; expected to fail | `ResumesNaturally` |

What each property says:

* `VersionFaithful`: a loaded copy that still has the row's `retry_at` still has its status, unless
  both wait at `RETRY_AT_MAX`, in one of the statuses that do.
* `WriterSawStatus`: a status is replaced only by a deletion, by a process that has read it, or by
  one whose copy waits at `RETRY_AT_MAX` as the row does.
* `LeaseExclusive`: no two processes hold the row's lease.
* `MutualExclusion`, `HolderKeepsFlock`, `RegistryTracksUsers`: one thread is inside; it has the
  flock all the while, whatever forked children close; the registry has an entry as long as, and
  no longer than, somebody uses it.
* `SomebodyGetsIn`: waiting threads do not wait on each other for ever. The exception in its
  statement is real: a child forked while its parent waits for the flock inherits the open file,
  and if the parent then gets the lock and dies, the child keeps it as long as it lives without
  using the lock (two faults; the property has the disjunct `LeftToChild` for it).
* `NeverForgotten`: a queued or started row has a `retry_at`.
* `UserDecides`: the runner re-opens no sealed row, except a snapshot that has nothing but uploads,
  in a crawl that is not paused, and the sealed crawl of one; and ends no pause, except to seal the
  snapshots of a cancelled crawl.
* `FollowsDiagram`: no interleaving makes a transition the documented diagrams lack, but for that
  one, which `LifecycleDiagram` has as `ReopenCrawl` and `Reopen`.
* `OneAttempt`: no attempt starts hooks while a dead runner's hooks for that snapshot run.
* `NoWorkLost`: without a cancel a snapshot is sealed only by its own completed attempt.
* `PauseEnds`, `CancelEnds`, `WorkEnds`, `SnapshotsEnd`: what the commands and the runner must
  bring about in the end, including for rows that are discovered meanwhile.
* `OneRunnerWorks`: two runners never work at once. `WorkerOnRecord`: the one at work has a row
  that says so. `SparesStrangers`: nobody is signalled but an older runner that a newer one has
  found alive, or a process that was given its pid after `KillLook`; pids that changed hands before
  that look, however old the scanned row, are left alone. `TakesTurns`: a runner begins when nobody
  works, never in the step in which another's work ends, and works once; who leaves without having
  worked leaves to a newer one. `Elects`: who asks for the gate, or stands by, leads to a runner at
  work, unless it, or one after it, has had its turn, has died by itself, or has been killed with
  nobody after it.
* `NothingLost`: an output leaves one place only for a whole copy in the other, if one process
  migrates. `NothingOverwritten`: another output under the same name stays, whoever migrates.
  `PersistedLast`: a current `fs_version` means nothing is left to do. `Migrates`: it gets there,
  unless something is in the way or two migrate. `ResumesNaturally`: it gets there.
* `GoneClean`: no files without a row, where no capture was under way when deletion began.
  `DeletionStands`: no scheduler, no completion and no copy of a row that ran or was sealed takes a
  deletion back; only a user does whose copy was itself paused or deleting. `RequestsEnd`: a request
  is carried out or taken back, while the stuck rows are fewer than a batch. `RetentionEnds`: a
  sealed snapshot among the first batch of the expired goes or is captured again.
* `RequestsPersist`: a requested plugin stays on the row until it has run. `RequestsQueued`: the
  row stays in the queue as long. `RequestsRun`: it does run.
* `OncePerSlot`: the daemon finds a schedule due once for each time its expression names.
  `Repeats`: and does so for each.

**Bounds.** `WorkQueue`: three processes are two runners and a command; five timestamps are claim,
pause, resume, claim again and a stale write; leases of one tick run out twice. `LifecycleLock`:
two processes with two threads are the least with both kinds of contention, nesting two deep is
re-entrance; one fault is a fork, a crash or a failure anywhere. Crawl runs: one submitted URL
with one discovered snapshot is the smallest crawl in which a child appears after its parent's
decision; two submitted URLs with two slots are the smallest in which siblings overlap. Two
commands are one and what races with it or undoes it; `crawl_commands` also passes with three (a
pause, a resume and one more), but takes five minutes. One death is one hand-over of all rows;
recovery keeps nothing from the one before. `MaxStamp` is 8; six is enough (`StampAssumption`), as
no more than five timestamps of a row are in use at once, so `Fresh` always has a value and the
bound never cuts a behaviour off.

`RunnerGate`: three runners are one at work, one that stops it, and one that starts between any two
of their steps; one of them a daemon adds the standing by. Three pids and the order in which they
are used again let a runner or a stranger get a dead one's pid. One death and one new container are
enough for rows of both kinds. `FsMigration`: a file, the index and a link take the three ways an
entry can take; the second death may hit what the first left. `SnapshotDeletion`: three rows and
batches of two are the least with a batch that has a stuck row in it and a row in no batch; users
have copies of one, in every status, for copies of different rows do not meet; three timestamps are
the first, a capture or request, and another after it. `PluginRuns`: two requests merge, replace
each other or overlap an attempt; two rounds are the first and one that finds the row changed, and
the third and eighth find nothing else. `CrawlSchedules`: six ticks are three times of the
expression; crawls live longer than a period and shorter than two.

**Fairness.** The runner's and its tasks' steps are weakly fair (they are plain code, and timeouts
bound hooks), as are the end of an orphaned hook process and the rest of a command that has begun.
The idle recovery and the passing of a row's timestamp are strongly fair: each becomes possible
again and again, at every idle pass and after every renewal, and the clock and the 30-second
period reach it. Commands, deaths, signals, lease renewals and the cancellation watcher have none,
so no liveness property rests on their happening. The gate: weak fairness of each runner's own
steps, which are plain code and polling loops; none of work coming to an end. Migration: weak
fairness of each migrator, for a snapshot stays due and somebody tries again. Deletion: weak
fairness of the runner, of each deleter inside a deletion, and of hooks' ends; strong fairness of
the runner's sweep, which has its turn every minute whatever is captured, and of
`delete_requested`, which is called again and again but not all the time. Plugin requests: weak
fairness of the runner and of calls under way. Schedules: weak fairness of the daemon's loop. The
ticks of `WorkQueue` and `CrawlSchedules` have none.

### Where the code does not do what it says

`found_torn_copy` is a run of the project: `copy2` fills the destination in place, so a death in
the middle leaves part of a file, which every later attempt takes for a different output it must
not overwrite (`core/models.py:1346`), where the comment at `:1204` says that an interruption
"resumes naturally". `PROJECT.json` quotes the lines. The other cfgs named `Found...` belong to no
run; each checks one property in the module named, finds it violated, and its trace is short.

| Cfg | Module | The trace |
|---|---|---|
| `FoundPausedDeletion` | `MCWorkQueue` | a paused snapshot is loaded and then marked for deletion, which leaves `retry_at` as it was; the copy is written over the mark (`workers/models.py:187`) |
| `FoundParkedPause` | `MCWorkQueue` | a started crawl whose children are all paused waits at `RETRY_AT_MAX`; pausing it leaves `retry_at` as it was, and an older copy is written over the pause |
| `FoundCancelUndone` | `MCCrawlSystem` | a live hook makes the runner requeue snapshot and crawl; the crawl is cancelled before the crawl is read, read sealed, and written back queued |
| `FoundSecondAttempt` | `MCCrawlSystem` | a sibling's hook outlived the last runner; the due snapshot has none, so the crawl is run, and the sibling's hooks are started again |
| `FoundQueuedSealed` | `MCCrawlSystem` | `is_finished` was read; a snapshot is queued for extraction; the crawl is sealed, its new work woken and sealed |
| `FoundCancelPaused` | `MCCrawlSystem` | cancel wakes a paused child, the runner hides it again, then the crawl is sealed: the child stays paused |
| `FoundResumeRace` | `MCCrawlSystem` | the runner has read that the crawl is paused; crawl and children are resumed; it pauses a snapshot, and the crawl waits for it |
| `FoundUploadReopens` | `MCCrawlSystem` | a snapshot is cancelled while its hooks run, and these withdraw their results; something is uploaded to it; the idle recovery writes its sealed crawl started, and then the snapshot queued (`core/recovery_util.py:102`), where the diagrams have `SEALED --> [*]` |
| `FoundReusedPid` | `MCRunnerGate` | the runner to be stopped heeds SIGTERM, another program is given its pid while `kill_tree` polls, and gets the SIGKILL (`machine/models.py:2391`) |
| `FoundDayOldRunner` | `MCRunnerGate` | cleanup marks a runner that has worked for more than a day exited (`machine/models.py:1660`), though it lives, and the next runner does not find it (`core/takeover_util.py:216`) |
| `FoundTakenBack` | `MCSnapshotDeletion` | a request loads a row that is being deleted and, finding the same `retry_at`, makes it queued (`core/models.py:794`, `:757`) |
| `FoundStuckBatch` | `MCSnapshotDeletion` | with batches of one, the row that cannot be removed is each time the first of the requested (`core/models.py:713`), and no other request is carried out |
| `FoundHiddenExpired` | `MCSnapshotDeletion` | with batches of one, a stuck row that is past its date fills the batch before the filter on the status (`base_models/models.py:208`), and no expired snapshot goes |
| `FoundLateRequest` | `MCPluginRuns` | a request comes between an attempt's choice of plugins (`services/runner.py:1656`) and its note of what it is to consume (`services/snapshot_service.py:150`): it is consumed without having run, where `core/models.py:789` says it persists until it has |
| `FoundLostSchedule` | `MCCrawlSchedules` | the template crawl is subject to retention as any crawl is, and takes its schedule along (`crawls/models.py:48`), which `docs/Scheduled-Archiving.md` says the orchestrator watches |

A few more need no cfg of their own. With `Commands = {"admin_pause", "admin_resume"}`
`FoundResumeRace` finds `ResumeReaches` violated otherwise: the admin action Resume
(`crawls/admin.py:898`) wakes the crawl only, while the runner has paused its snapshots after the
admin action Pause. And since that action also takes sealed crawls, `CrawlCommands.cfg` with
`admin_resume` finds `FollowsDiagram` violated: the diagram has `SEALED --> [*]`, and what the
recovery may open is not what the user does. `SafelyRemoved`
in place of `NothingLost` fails in `FsMigration.cfg`: with two migrators a link can be lost.

By reading alone: a PATCH of a snapshot with `status: "sealed"` sets the status of the loaded copy
(`api/v1_core.py:1014-1016`) and then calls `cancel()` (`:1030`), which returns because the copy
is sealed (`core/models.py:959-960`), so nothing is written, although the docstring
(`api/v1_core.py:985`) says that this cancels queued work. `patch_crawl` with `sealed` drops a
`tags_str` sent along, and with `queued` on a sealed crawl it leaves a queued row without
`retry_at`, until the idle recovery repairs it.

The passing runs leave out just the command or the hand-over that their property's finding needs
(`death` has no re-extraction and no crawl isolation, `crawl_commands` no death, `ends` no pause,
`runners` no day of work, `plugin_runs` no late request, `schedules` no retention of the
template), or, where the behaviour belongs to the component, have it and except it in the property
(`work_queue`, `deletion`, the uploads of `crawl_commands`, the pids of `runners`), so that what
else holds is seen.

## What is proved

Each `*_proofs` module has an inductive invariant `IInv` (theorem `Invariance`), a lemma per
action or group of actions that it is kept, and the theorems that follow. All are for every value
of the constants that the named assumptions of the modules and the condition in the table allow.

| Module | Theorems | Condition |
|---|---|---|
| `WorkQueue_proofs` | `TypeCorrect`, `VersionFaithfulAlways`, `LeaseExclusiveAlways`, `WriterSawStatusAlways`, `LeaseRefinement` | `WorkQueue`'s assumptions, among them `Parks \subseteq {Queued, Started, Deleting}` |
| `LifecycleLock_proofs` | `TypeCorrect`, `MutualExclusionAlways`, `HolderKeepsFlockAlways`, `RegistryTracksUsersAlways` | `LifecycleLock`'s assumptions: finitely many threads |
| `CrawlSystem_proofs` | `TypeCorrect`, `NeverForgottenAlways`, `SnapshotsTimed`, `RunnerRespectsUser` | `CrawlSystem`'s assumptions, among them `MaxStamp >= 6` |
| | `UserDecidesAlways`, `FollowsDiagramAlways` | `NothingReopens`: no deaths, no `admin_resume` or `queue_for_extraction` |
| | `FollowsDocumentAlways` | besides no `upload` |
| | `OneAttemptAlways` | `HooksLookedFor`: no crawl isolation, or no deaths |
| | `RunnerSealsFinished` | `NothingAdded`: no `queue_for_extraction`, and one slot or no discoveries |
| | `NoWorkLostAlways`, `SealedCrawlFinished` | `NothingAbandoned`: besides no `cancel`, `snapshot_cancel` or `upload` |
| `RunnerGate_proofs` | `TypeCorrect`, `OneRunnerWorksAlways`, `WorkerOnRecordAlways`, `SparesStrangersAlways` | only standing-by runners grow older than `PID_REUSE_WINDOW` |
| | `TakesTurnsAlways` | besides one daemon at most |
| `PluginRuns_proofs` | `RequestsPersistAlways`, `RequestsQueuedAlways` | no late requests |
| `FsMigration_proofs` | `NothingLostAlways`, `PersistedLastAlways`, `NothingOverwrittenAlways` | the first two are about one migrator at a time, the third about any number |
| `SnapshotDeletion_proofs` | `GoneCleanAlways`, `DeletionStandsAlways` | `SnapshotDeletion`'s assumptions |
| `CrawlSchedules_proofs` | `OncePerSlotAlways` | each row is kept for ever or for a period |

That the conditions on old runners and on late requests are needed show `FoundDayOldRunner` and
`FoundLateRequest`; that two migrators may lose something shows `SafelyRemoved`; and that the
exceptions in the properties themselves are, `FoundParkedPause`, `FoundPausedDeletion`,
`FoundReusedPid` and `FoundTakenBack`. Of two daemons, both a day old, the newer could give way to
the older; supervisord starts one. `CrawlCommands.cfg` satisfies `NothingReopens` and
`NothingAdded`, `CrawlDeath.cfg` the other conditions on `CrawlSystem`, and no part of them is
slack: with a death `FoundCancelUndone` breaks `UserDecides`, `admin_resume` and
`queue_for_extraction` break `FollowsDiagram` by themselves, and an upload breaks `FollowsDocument`
(`FoundUploadReopens`); with a death and crawl isolation `FoundSecondAttempt` breaks `OneAttempt`;
a cancel seals unattempted work because it is asked to, and `FoundQueuedSealed` shows re-extraction
doing so. Two slots and a discovery break `NoWorkLost` too, after four commands, more than a run
from the initial state gets to: a first run of snapshot a finds the crawl paused when it comes to
create what was discovered, and seals a; the crawl is resumed and its other snapshot b paused,
between the choice to run the crawl and the loading of the run, which therefore takes the sealed a;
b is resumed and gets a task of its own, the last to finish; it seals the crawl between the time
a's task reads the crawl and the time it creates the row, and the new snapshot is sealed without an
attempt. TLC finds each half, the first to the idle runner with a sealed and b due, the second from
there.

Why the invariants are what they are:

* `WorkQueue`: a stale copy is harmless only because its timestamp cannot come back. `IInv` adds
  that no copy carries a timestamp not yet written (`IdsWritten`), so a new one differs from all;
  that NULL means sealed and `RETRY_AT_MAX` paused or in `Parks` (`AllWellParked`); that
  timestamps and NULL are versions (`StampFaithful`), from which, with the one before, the
  exception for waiting rows is all that is left; and that no two
  processes have claimed one timestamp (`ClaimsDiffer`). Every action is a `Write`, a claim or a
  read, so `WriteInductive` and `ReadInductive` carry most of the proof, and `WriteRefines` and
  `ReadRefines` the refinement, whose mapping takes the holder as owner.
* `LifecycleLock`: `ProcInv(p)` accounts for one process: users against the threads' frames, depth
  and owner of the thread lock, who has the file open, and whether the registry is its own or
  inherited. `Apart` keeps the processes' open files apart. A step changes one process, so
  `Untouched` settles the others; a fork is the case that needs the registry's pid.
* `CrawlSystem`: `RowsStep` is what any step may do to a row: leave it, or write it with a
  `retry_at` that no copy of it carries, with `RETRY_AT_MAX`, or with NULL and sealed. All
  statements are of that kind but two, cleanup's NULL with the row's own status and
  `finalize_requeue`, which keeps a retry_at; `RunInv` says what the runner knows there: a row
  cleanup finds unchanged is sealed, and the copy that is requeued has a `retry_at`. `FreshIsNew`
  counts the copies.

  What the steps do to the statuses needs more. `KInv` adds what runner, tasks and command know: a
  runnable snapshot is under a timestamp (`SnapsTimed`), a decision or an attempt that still finds
  its `retry_at` on the row also finds the status it decided on, tasks exist only while their run
  waits for them. `EveryStep` then shows that any step is a `RunnerMove` or a `UserMove`, a few
  kinds of transition with the statement that makes each, and `CommandTells` that no command's
  statement can be taken for the runner's. From the moves alone follows `RunnerRespectsUser`: four
  statements can overrule the user, `update_and_requeue`, a seal that follows the crawl's, and the
  recovery's two for what has nothing but uploads, and none besides. `Turns` sorts the steps by who
  takes them and keeps the control flow the next theorems need (`ScheduleFlow`, `PhaseFlow`,
  `TaskFlow`): what has just been read or written when a statement is reached. On it stand four
  small invariants. `Closed`: the first of the four statements is never reached while hooks belong
  to tasks, and at the second the crawl is still sealed; the others are what `ReopenCrawl` and
  `Reopen` stand for. `Launching`: who is in `run.ids` has been looked at, or every hook process is
  a task's. `Finishing`: wherever the crawl is about to be sealed, no snapshot is open and none is
  being created. `Unfollowed`, on top of it where nothing is abandoned: the same of a crawl that is
  sealed, so the runner never has a seal to follow.
* `RunnerGate`: a runner is alive if and only if it has the pid it was started with (`PidsOwned`),
  so a scan takes no living runner of this container for dead. `kill_tree` goes by its scan and by
  bare pids, yet it ends with the victim gone (`VictimGone`): the victim had the pid at the look,
  and whoever has it afterwards is killed or leaves. So only rows of the dead are marked, although
  they are written as they were scanned. A runner at work therefore stays on record
  (`WorkerOnRecord`), and the constraint that `Promote` runs into lets no second one begin
  (`OneWorks`). Runners so old that cleanup takes their rows away anyhow do not get past the gate
  (`OldGiveWay`). That `SparesStrangers` holds is `AllWatched`: from the look on the pid is the
  victim's, or nobody's, or has been given away and is in `strayed`. The refinement needs that one
  gives way to newer ones only: whoever lives is on record or old (`Recorded`), the old are daemons
  and all before them are old (`OldOnes`), so an old daemon that does not find itself finds newer
  ones (`NewerOnly`).
* `PluginRuns`: the invariant follows the attempt: what it will consume it has run, or the row has
  changed since and the compare-and-set fails.
* `FsMigration`: each stage says what is whole by then. A destination that was there is never
  opened.
* `SnapshotDeletion`: a row to be deleted is at `RETRY_AT_MAX`, which no lease has, and no copy but
  one of a row that was paused or to be deleted itself (`Parked`), so every other compare-and-set
  misses it. Kill, remove and row follow in that order for each deleter (`Progress`), and nobody
  writes files of a row that is not captured, whatever users make of the row meanwhile, for a
  capture that meets a deletion is in `late` (`CaptureKnown`).
* `CrawlSchedules`: the last dispatch shows in a row, or is a period ago (`Shows`); `LaterPeriod`
  is the arithmetic.

Every safety property of the runs is a theorem. Model-checked only are the liveness properties
(`SomebodyGetsIn`, `PauseEnds`, `CancelEnds`, `WorkEnds`, `SnapshotsEnd`, `Elects`, `Migrates`,
`RequestsEnd`, `RetentionEnds`, `RequestsRun`, `Repeats`), for liveness under fairness and ENABLED
are out of the prover's reach, as are induction over data and recursive operators; and
`ResumesNaturally`, which fails. The type invariants of the last four modules are part of their
`IInv` and no property of a run.

## Not modelled

* Writes outside the protocol: `patch_crawl`, `patch_snapshot`; the API's deletions, which run
  `run_pending_crawls` in a web request; `process_stdin_records`, which does not go through the
  gate.
* Arithmetic of admission, and crawl limits and deduplication (`CrawlCapacity`): the models take
  `Slots`, and one discovered snapshot.
* In `PluginRuns`: `renew_lease`, and a request on a queued snapshot that has not been captured,
  which then runs those plugins alone.
* In `SnapshotDeletion`: an attempt under way at the deletion that writes files after they were
  removed is in the model, but rows in `late` are excepted from `GoneClean`; users have no copies
  of their own of several rows at once.
* In `RunnerGate`: `runtime_stack_owner`; the children of the victim, which `kill_tree` signals by
  pid as it does the victim; that a daemon which stood by for more than a day finds no runner and
  ends with an error is in the model, as a `Decide` that crashes.
* In `CrawlSchedules`: crawls kept for less than a period, with which a schedule runs more often
  than its expression says.
* In `CrawlSystem`: the requeue, on recovery, of snapshots with an interrupted hook result; an
  attempt that launches no hook at all, after which a snapshot with uploads is re-opened by every
  recovery; results that the API writes under other hook names, which count as the server's; a
  cancellation of a snapshot that misses because the lease was renewed is in the model, but no
  property forbids it.
* In `LifecycleLock`: a child forked while another thread of the parent holds `_registry_lock`.
* The binary queue, results (but for whose they are), tags, search, personas, configuration,
  presentation, API transport, supervisord: they have no part in the lifecycle beyond what the
  constants carry. They are most of the repository's lines; the map covers the protocols, not
  those.

## Plan

1. The remaining commands in `CrawlCommands` (`patch_*`, the CLI's requeue), each run against
   `UserDecides` and `CancelEnds`.
2. `CrawlCapacity` and `ResourceAdmission`: limits under concurrent requests, and the admission
   arithmetic against a reference definition.
3. `BinaryQueue`, as another instance of the queue protocol; results and their projection.
