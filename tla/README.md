# TLA+ models of the AUTO-MAS task scheduler

AUTO-MAS is a desktop program that drives game-automation scripts. Its back end (`src/app`, Python, one
asyncio event loop) keeps scripts, queues and emulators as configuration, runs queues of scripts as tasks,
and tells the Electron front end (`src/frontend`) about it over one WebSocket. This directory holds TLA+
modules of the part that decides what runs when, what may run side by side, how a run is stopped, and what
happens to the machine afterwards.

Paths below are relative to `src/`. `manager.py` alone is `app/core/task_manager/manager.py`, `task.py` is
`app/models/task.py`, `system.py` is `app/services/common/system.py`.

**How to read a step.** The back end has one event loop, so code between two `await`s runs without
interruption. An action of a model is such a piece of code, together with everything it calls that changes
state. Whatever can happen at an `await` (other handlers, a cancellation, a stop by the user) is an
interleaving between two actions.

## 1. Inventory

### Core of the scheduler

| Part | State it keeps | Operations | What is hard | What makes it correct |
|---|---|---|---|---|
| **Script reservations**, `_ScriptTaskReservations`, `manager.py` 152-237 | `_owners`, `_owner_keys`, `_reserved_root_paths` | `try_acquire`, `release` | three tables that must agree; locks are reentrant for one owner; a root conflicts with its parents and children; release is called by the run loop and again by the clean-up | no two tasks ever use overlapping installations or one emulator; a release frees exactly what it should |
| **Task manager**, `_TaskManager`, `manager.py` 1617-2201 | `task_handler`, `task_info`, `_recent_results`, `_is_stopping_all`, `Config.running_cycle_queue_ids` | `add_task`, `clean_task`, `stop_task(uid)`, `stop_task("ALL")`, `get_task_*` | creation awaits in the middle; a stop can arrive at every await; clean-up is an asyncio task of its own | tables are left clean however a task ends; "stop all" leaves nothing behind and returns; a result can always be asked for |
| **Task life cycle**, `Task` and `TaskExecuteBase`, `manager.py` 640-1615 and `task.py` 440-600 | the root task, the inner task, `accomplish`, `is_closing`, `_exit_result` | `execute`, `cancel`, `main_task`, `final_task`, `on_crash` | coroutines cancelled before their first step; shielded finalizer; the after-script of a queue | a finished task is announced and remembered; nothing starts after a stop |
| **Queue runs and cycle runs**, `manager.py` 845-1516, `cycle.py` | the script list with its states, the frozen cycle list, next run times | `_run_queue`, `_run_cycle_task`, `_run_script_list_items`, `next_run_at` | script list frozen while the configuration may change; overrun of periods; scripts of several tasks in parallel with locks | an entry is run in its turn and once for each due time; indices match the configuration |
| **Power operation**, `_SystemHandler`, `system.py` 64-513, with `app/api/dispatch.py` 220-280 | `Config.power_sign`, `power_task`, the lock, the snapshot for the front end | `start_power_task`, `cancel_power_task`, `cancel_pending_power_task`, `_power_task`, `set_power` | replace, cancel and select race for one asyncio task; schedule checked, awaited, checked again | one power operation at a time; one announcement of its end; never under a running task |
| **Update prefetch**, `app/core/script_update.py`, `script_update_queue.py` | the prefetched candidate, the prefetch task | `next`, `check`, `finish` | a candidate fetched ahead may be stale; stop while finishing | only the script that is about to run is updated |
| **Timed start and start-up queue**, `app/core/timer.py`, `manager.py` 2203-2290 | the previous tick, `LastTimedStart` | minute tick, first connection of the front end | skipped or repeated minutes, crash between start and record | each due time starts a queue once |
| **Main WebSocket**, `app/core/ws/` | the current connection, hooks, command tasks by owner | connect, replace, send, dispatch, cancel_owner | an old connection is cleaned up after a new one came | the new connection is never taken down by the old one |

### The parts around it

| Part | Note |
|---|---|
| **Configuration core**, `app/config/core/` | nodes, collections, staged transactions, an execution gate and a save worker with debounce; hard: a cancelled waiter holding a granted gate, lost wake-ups of the worker |
| **Configuration service**, `app/core/config/manager.py` | the singleton all parts read; holds `power_sign` and the running marks, refuses edits of a cycling queue |
| **Native configuration snapshots**, `app/utils/common/io.py` 238-550 | copies of a foreign program's configuration, with marker files and directory swaps; hard: a crash between any two file operations |
| **Replay capture**, `app/services/common/obs_replay.py` | saves OBS replays from threads; hard: publication after closing |
| **Desktop guard**, `app/core/desktop_guard.py` | an attach thread that outlives its caller |
| **Downloads**, `app/utils/common/fluxdown_cli.py`, `app/core/update.py` | an external process whose cancellation may be unconfirmed |
| **MaaFW runtime pool**, `app/task/MaaFW/tools/core/runtime_pool/` | leases with expiry against deletion |
| **Shutdown**, `app/core/lifecycle.py`, `app/core/runtime_tasks.py` | ordered teardown, retry of a failed step, spawn against shutdown |
| **Emulators**, `app/core/emulator_manager/`, `app/utils/common/emulator*` | start, wait, close by external programs |
| **Adapters**, `app/task/<game>/` | one manager per kind of script: prepare, run, watch the log, restore |
| **Notification, community, backup, i18n, telemetry, MCP, taskboard** | services without shared control state with the scheduler |
| **API**, `app/api/`; **schemas**, `app/models/` | routers that call the parts above |
| **Front end**, `frontend/`; **scripts, tests, resources, docs** | another program; not state of the back end |

### How the parts interact

* `add_task` refuses or reserves (`reservations.try_acquire`, the running mark in
  `Config.running_cycle_queue_ids`), enters the tables, awaits the `TASK_CREATED` message, then calls
  `execute` and schedules `clean_task`.
* A run takes scripts up one after the other; for each it acquires, builds the adapter's manager, runs it as a
  child, and releases. `final_task` runs the queue's after-script, sends `TASK_COMPLETED`, keeps the result,
  and may set `Config.power_sign`.
* `clean_task` waits for `accomplish`, removes the task, releases what it still holds and, when it was
  the last, calls `System.start_power_task`, which turns the sign into an asyncio task with a countdown.
* `/stop` calls `stop_task`; `/set/power` and `/cancel/power` call the power handler; the power task itself
  looks at the task table and at the timed starts before it acts.

## 2. Modules

| Module | Models | Run |
|---|---|---|
| `ResourceLocks` | abstract specification: exclusive resources per owner and script | via `ScriptReservations` |
| `ScriptReservations` | `_ScriptTaskReservations` with its three tables; implements `ResourceLocks` | `reservations` |
| `TaskTable` | abstract specification: the table of live tasks and "stop all" | via `TaskManager` |
| `TaskManager` | `_TaskManager`, `Task`, `TaskExecuteBase`; implements `TaskTable` | `task_manager_safety`, `task_manager_live`, `stale_mark_request` |
| `PowerTask` | the power part of `_SystemHandler` and its callers | `power` |
| `CycleRun` | a cycle run: `_run_cycle_task` with the times of `cycle.py` | `cycle_run` |
| `ScriptUpdates` | a queue run over its entries with the update fetched ahead | `script_updates` |
| `MainConnection` | the main WebSocket, its hooks and handlers, the teardown | via `StartupQueue` |
| `StartupQueue` | the connect hook that starts the start-up queues; composes with `MainConnection` | `startup_queue` |
| `TimedStart` | timed starts of queues, with shutdowns and wake-ups between them | `timed_start` |
| `ExecutionGate` | the gate of the configuration manager | via `ConfigStore` |
| `ConfigStore` | transactions, save worker and flush; composes with `ExecutionGate` | `config_store` |
| `NativeConfigSnapshot` | the loan of a script's own configuration, file operation by file operation | `native_config`, `native_torn` |
| `X_proofs` | theorems about `X`; `QueueStarts_proofs` is about `MainConnection`, `StartupQueue` and `TimedStart`, and `ConfigStore_proofs` also about `ExecutionGate` | — |
| `MCX` | the small instance of `X` for TLC | |

In each module the definitions commented `Mutant:` are not part of the specification. Each is a plausible
mistake in one definition; putting it in the place of that definition breaks a property, which shows that the
property depends on the code being the way it is.

### ScriptReservations

| Model | Code |
|---|---|
| `owners`, `owner_keys`, `reserved_root_paths` | `_owners`, `_owner_keys`, `_reserved_root_paths`; an entry of `_owner_keys` that is deleted when it gets empty is the empty set |
| `ResourceKeys` | `_resource_keys`: the script, its installation roots, its emulator instance |
| `Granted`, `Refused` | the two ways through `try_acquire` |
| `Release`, `ReleaseRefused` | the two ways through `release` |
| `reply` | the last answer; it is there so that the abstract specification can speak of refusals |
| `Roots`, `Below` | paths after normalisation, and which lies inside which |

Both methods are synchronous, so a call is one step. Any owner may call either method for any script at any
time with any roots and at most one emulator (`_exclusive_resources`), which includes every order in which
`add_task`, the run loops, `reserve_root` and `clean_task` call them. Path normalisation and the containment
test on strings are not modelled: `Below` is any relation.

### TaskManager

A task is a uid that one accepted call of `add_task` gets. Its `pc` says where it is:

| `pc` | Code |
|---|---|
| `new` | no such task yet |
| `creating` | `add_task` awaits `TASK_CREATED` (`manager.py` 2082-2095) |
| `aborted` | that await was cancelled, `add_task` rolled back (2096-2107) |
| `root`, `inner` | the asyncio task of `_root_coro`, then that of `_execute_task`, is scheduled and has not run (`task.py` 561-574) |
| `main` | `_run_main_task`: the whole run, scripts and all |
| `crash` | `on_crash` sends a notice |
| `final`, `notice`, `script`, `announce`, `power` | `final_task` up to its first decision, announcing the after-script, running it, sending `TASK_COMPLETED`, publishing the power sign |
| `failed` | `final_task` raised, and `on_crash` sends a notice (`task.py` 518-554) |
| `ended`, `lost` | `accomplish` is set, by `_execute_task`, or by the callback of the root task because `_execute_task` never ran |

The other variables are the tables and flags of the code: `task_handler`, `running_cycle`
(`Config.running_cycle_queue_ids`), `reserved` (for a standalone task, the script key of `ScriptReservations`),
`closing` (`is_closing`), `cancelled` (a cancellation asyncio has yet to deliver), `exit` (`_exit_result`),
`results` (`_recent_results`), and `stop_all`, `snapshot`, `cleanups` for the one call of `stop_task("ALL")`
that `_stop_all_lock` lets run. Three variables are history: `announced` (what `TASK_COMPLETED` said), `stop_at`
(when a stop met the task: `creating`, `running`, or `kept`, after its result was kept) and `stopping`.

What is abstracted:

* The run is one phase; `CycleRun` and `ScriptUpdates` take it apart. A run may end at any time, well or with an
  exception; a cycle run never ends by itself. The scripts a *queue* takes up while it runs are not in this model. A
  standalone start refused because a queue run holds the script changes nothing, so it adds no behaviour here.
* `stopped_manually` and `is_closing` are one flag: they differ only in a run aborted by
  `FluxdownCancelUnconfirmed`, which is not modelled. `final_task` may raise at any of its awaits (`FinalRaises`), before
  or after the result is kept.
* The limits of the memory of results (200 entries, a time to live) are not modelled.
* The hand-over from `clean_task` to `start_power_task` is one step here. `PowerTask` models what happens when
  that call has to wait for its lock. A clean-up counts as done when its task has left the table.
* Of the checks in `add_task` that come after the running mark, one is modelled: an account scope the queue does
  not have (`ScopeErrors` says for which queues such a request can be made). It stands for the class.

### PowerTask

Callers are running calls of `start_power_task` ("start"), `cancel_power_task` ("cancel") and `set_power`
("select"), each in one of the states `idle`, `waiting` (for `_power_task_lock`), `ending` (has cancelled the
old power task and waits for it), `publishing` (announces the end of a power task that never ran). The lock is
granted in order of arrival, as `asyncio.Lock` does (`waiters`). A power task goes through `scheduled`,
`counting` (delay and countdown), `draining` (replay and `before_power`), then `cleaning` (closing emulators
before a system operation) or `closing` (closing the front end before the program exits), to `carried`; or it
is withdrawn (`publishing`, `done`). Carrying out a system operation is synchronous, so it is the same step as the
last look at the schedule. The environment is what the handler reads: whether tasks are in the table, whether a
timed start is due, the setting `IfScheduledWakeUp`, and the writers of `power_sign` in the task manager.

A power task that is over may be used again as a fresh one, so two power tasks stand for any number.

### CycleRun

Times are counted in ticks *from now*: `next[e]` is the number of ticks until `NextRunAt`, 0 when it is due, `None`
while it is unset. A week is `Week` days of `DayTicks` ticks, `clock` the tick of the week. `Tick(k)` lets `k` ticks
pass at once, as after a suspend.

| Model | Code (`manager.py` unless named) |
|---|---|
| `order`, `schedule`, `enabled`, `next` | the queue's items and their `Schedule` in the configuration |
| `frozen`, `row`, `current` | the task's `script_list`, `current_index`, and the entry at it |
| `NextFixed`, `NextAtStart`, `NextAfterStart`, `NextAfterFinish`, `ResolveNext` | the functions of `cycle.py` |
| phase `round` → `recording` | collecting the entries, and writing the first times of those that have none |
| `due` | the loop over the entries that were due: `NoLongerDue`, `OutOfPlace`, `Blocked`, `TakesUp` |
| `starting`, `anchoring` | awaiting the write of `LastCycleStartedAt`, then of `NextRunAt` if it counts from the start |
| `run`, `finishing`, `settling` | the script; awaiting the write of `LastCycleFinishedAt`; awaiting that of `NextRunAt` |
| `asleep` | the sleep between rounds |
| `staged` | a change of the queue that has passed `_ensure_cycle_safe` (`config/manager.py`) and waits for its commit |
| `grid` | history: what the schedule asks for, counted independently of `NextRunAt` |

The user reschedules, switches entries off and on, asks for a run at once, and reorders a queue that is not cycling. A
first time computed at the head of a round is written only if the entry still has none (`RecordsFirst`), and a write
at the start of a run that raises makes it a failed run (`StartFails`). `Blocked` (another task has the script or what
it needs) is nondeterministic, and stands for a script that was deleted as well, which differs in the status shown.
One change of structure, reversing the order, stands for all. Awaited writes are shorter than a tick, so no `Tick`
happens during one. A clock set *back* and a crash that loses a time not yet saved are not modelled.

### ScriptUpdates

Four kinds of asyncio tasks: the *owner* (`_run_script_list_items`, variable `at`), the *child* that runs the current
script, the *watcher* of `ScriptUpdateQueue`, and the *download* the watcher makes when the current script has
completed its first task and a grace time is over. `held` is the set of entries whose prefetched files nobody has
discarded; `_pending` the candidate waiting for its entry; `Identity` what the code compares before it hands a candidate
over (the configuration as `edition`, with 0 for an entry that would not run). A stop reaches owner and child together
because both are in one `TaskGroup`; it is delivered when the owner is resumed. `WaitInterrupted` is a stop that reaches
`finish` while it waits for a download; `Finishes` re-raises one that came while it waited for what it had cancelled.
The branch of the code that restarts a script after an update by retry cannot be taken for scripts in a queue
(`app/models/task.py` 125-134, unlike what `docs/testing/scheduled-script-updates.md` describes) and is left out. The
use by a cycle run, and the download's own work, are not modelled.

### MainConnection and StartupQueue

A connection is one call of `serve`, named by the generation it gets. `serving` says where the call is, `hook` and
`handler` the state of the connection's tasks (`cancelling`: cancelled and not ended). A section under
`_connection_lock` contains no `await`, so it is one step. The teardown goes `dispatcher` → `hooks` → `services`, as in
`main.py`. `StartupQueue` extends this with the body of the hook: `at` is its place in `start_startup_queue`, `awaited`
the other hook it waits for, `started` (history) how often each queue was started. Sending, message formats and the
wait for the front end to leave are not modelled. One handler per connection at a time stands for any number.

### TimedStart

`wall` is the local wall clock in ticks of half a minute, and a *slot* the tick of one planned start: a time set with
its days is the set of its slots, and a queue that cycles, or has its times switched off, has none. Two time sets of one
queue at the same minute are one slot.

| Model | Code (`timer.py` unless named) |
|---|---|
| `_last_timed_check`, `_timed_fired`, `LastTimedStart` | the same; the last is of each queue and in the configuration |
| `since` | the time that has really passed since the last check; it is capped where it makes no difference |
| `check`, `todo`, `current` | the locals of `timed_start`: the interval, the queues still to look at, and the slot of the queue being started |
| `CheckBegins`, `LooksAt`, `CheckEnds` | the parts of `timed_start` between its awaits; queues are looked at in any order |
| `Recorded`, `RecordFails` | the end of the two awaits, `add_task` and the update, which are one here |
| `Hits`, `TooLate`, `Due` | `_due_timed_slots` |
| `Pending`, `GoesDown` | `_has_pending_wakeup_schedule` (`system.py` 97-133) and an automatic power operation that it did not cancel |
| `StartsAs`, `WakesUp` | the start of the program, and `is_scheduled_wakeup` |
| `owed`, `answered`, `begun`, `kept` | history: slots that came and nobody has answered; those that were; those started by this run; those started and recorded |

`program` is `closed` after a crash or by the user, who then answers for the slots that pass; it is `down` after an
automatic power operation, from which the system wakes the machine before the next slot (`Lead`). The setting
`IfScheduledWakeUp` is on; the entry of the operating system that wakes the machine is external. Time passes, the
clock is set, and the user acts only while the timer waits. `ClockChanges` is a change of the local time alone, as
summer time or another zone make it; a clock set by hand also moves the UTC clock that `real_elapsed` (295) is taken
from, and is not modelled. Nor is a queue whose settings cannot be read (317-319): it is passed over, and its slots of
that interval are lost. `NothingMissed` is about queues that can be read.

### ExecutionGate and ConfigStore

`ExecutionGate` has `owner`, `depth` and `waiters` of the code, and `act`, which says where an actor is: `waiting`;
`cancelled` (its future is cancelled, it is still in the queue); `granted` and not yet resumed; `returning` (granted,
then cancelled); `inside`; `outside` (left, with something still to do). An actor is an asyncio task or a thread; only
a task can be cancelled. `ConfigStore` adds revisions in memory and on the disk, the save request with its quiet period,
failures with their retries, the worker's loop (`top`, `reading`, `sleeping`, `asking`, `saving`, `ended`), `ring` (a
call of `_save_event.set` that is still to run on the loop) and the rounds of saving. Deadlines are `ahead` or
`passed`. The worker may be cancelled while it sleeps (`WorkerIsCancelled`), while it waits for the gate
(`WorkerGivesUp`) and in a round (`WorkerDies`). A synchronous entry made inside the event loop while another actor has
the gate raises and changes nothing (352-358); it is left out. `stranded` is history: the last request came from a thread
that found no worker, or the worker was cancelled; the code then leaves saving to the next task that enters the gate
(`.agents/skills/mas-data-model/references/config-framework.md` 83). The data, references between objects,
unregistering and export are not modelled.

### NativeConfigSnapshot

The five places on the disk (`live`, `staging`, `backup`, `snap`, `ready`, and `kept` for snapshots of an older
version) hold a content, `Absent`, or `Torn` for half a directory. Deleting and copying a directory take two steps
with `Torn` between them; a rename or writing the marker takes one. `phase` is what the manager of the general adapter
is doing, `step` the next file operation, `source` what is being swapped in. `Crash` may come between any two steps
and loses the memory. `AwayFails`, `SwapInFails`, `SnapshotFails`, `MarkFails`, `SetsAsideFails` and `PrepareFails`
are operations that raise, and `RaisedTo` says which handler of the code runs then; `Faults` says which kinds happen
in an instance. `Removed` takes away what MAS put where the user has nothing; a process may hold files of it, which
stay and are not reported. `own` is history: the configuration that is the user's, `Absent` while he has none, `None`
once the program has given it up (a recovery that decides for what is in place). `mishap` is history too: the last
step that could put something else where the user's configuration is, `unmarked` when a snapshot without its marker is
given back, or `mistaken` when recovery takes the user's configuration for what MAS had put there. It is taken back
when the user or his script writes a new configuration, and when a task finds the user's in place. The contents of the
user, of MAS and of the script may meet: MAS saves the live directory as its own (`ScriptConfig.py` 294-304, and
`AutoProxy.py`), and a user may save what MAS has. Two errors the code swallows are simplified: a deletion of the
snapshot that leaves files (`force_rmtree` ends all the same) and a marker that cannot be deleted (355). Modelled is
folder mode; a script with a single file, and the adapters that are not the general one, are not.

## 3. What the runs check

### Passing runs

| Run | Instance | States | Checks |
|---|---|---|---|
| `reservations` | 2 owners, 2 scripts, 3 roots of which one lies in another, 1 emulator | 32 thousand | tables agree, roots exclusive, implements `ResourceLocks` |
| `task_manager_safety` | 2 tasks, 1 script, 1 queue, 1 cycle queue that may be refused late | 2.1 million, with symmetry | targets used once, nothing leaks, no success after a stop, implements `TaskTable` |
| `task_manager_live` | 2 tasks, 1 queue | 357 thousand | "stop all" and "stop one" take effect |
| `power` | 2 calls, 2 power tasks, an exit and a system operation | 204 thousand | one truthful power task, one announcement, cancel clears, tasks are spared, calls return |
| `cycle_run` | 2 entries, a week of 2 days of 2 ticks, runs of up to 3 ticks, 1 edit | 177 thousand | what is due is what is owed, the right script, nobody starves |
| `script_updates` | 4 entries of 3 scripts, 1 change of the configuration | 177 thousand | downloads stay ahead, candidates accounted for, a stop is final |
| `startup_queue` | 3 connections, 2 queues | 155 thousand | the newest connection stays, tasks die with it, queues started once |
| `timed_start` | 2 queues with 0, 1 or 2 slots, 11 half minutes, a grace of 2 minutes, days of 5, 1 change of the clock, 1 edit, 2 starts of the program | 6.8 million, with symmetry | no slot is missed or started twice |
| `config_store` | a task, a thread, a flush and the worker, 1 root, 3 calls, 3 failures, 1 death | 219 thousand | the gate is never lost, nothing forgotten, saved in the end |
| `native_config` | 2 contents of the user, who may also delete the directory, 2 of MAS, of which 1 is the user's, 3 of the script, of which 1 is MAS's, 2 crashes, 2 failures of any kind, 2 accounts | 1.2 million, with symmetry | but for a mishap, the user's own configuration survives, is never torn, and is given up only for one that is not recognised |

Why these bounds are enough for the cases of interest.

* Reservations: two owners and two scripts make both a conflict and a key shared by two scripts of one owner; three
  roots make equal, nested and unrelated.
* Task manager: two tasks make every race of starts for one target, a task being created while "stop all" runs, and a
  task that is last or not last when it is cleaned up. The live run has no cycle queue and no script: these change what
  a task may do in its run and not how it is stopped, and the safety run has them.
* Power: a call at work in the lock, one queued behind it, and power tasks that replace each other. The safety
  properties were also checked once with three calls (207 thousand states, with symmetry).
* Cycle: a run longer than its interval by half of it, a jump of a whole day, a fixed slot on one of two days (so that
  today's, tomorrow's and next week's all happen), and a schedule without days. Two entries make one wait for the other.
* Updates: the entry after next exists, so a candidate can be for an entry that is not the next one any more; the last
  script is there twice in a row, which is never fetched for itself.
* Connections: three make one that waits for the hook of another that is replaced by a third.
* Timed starts: suspends longer than the grace, a step of the clock forward over a slot and its grace and one back
  behind two slots, the first also over midnight and the second back over it. Two starts are a run, its end, and the
  next run. Nothing is old enough to be forgotten in this instance (`_timed_fired` goes back to the start of
  yesterday); the proofs have clocks of any length (section 4). The run has no deadlock check: behaviours end where
  `Horizon` and the other bounds are used up.
* Configuration: one task, one thread and the flush beside the worker make every kind of hand-over of the gate; three
  calls let a request come while a round is saving and another while the worker ends. `MaxRetries` 1 has a first
  failure, a retry that fails, and the end of retries. Two roots were checked once (1.03 million states).
* Snapshots: two crashes have one during the recovery from the other; two accounts have a native one before or after
  one of MAS; a directory deleted by the user and removals that leave a part take the paths of a task that finds nothing.
  One content is both the user's and MAS's, another both MAS's and the script's, and every operation may fail, the second
  copy (`recopy`) included, which alone breaks `OwnerNeverSeesTorn` in the run `native_torn`.

The properties, in words:

* `TablesInStep`: no key leaks, none is freed under a script that needs it, and the path list that the containment test
  walks misses nothing. `RootsExclusive`: two tasks never have one installation, or one inside the other.
* `CycleQueueGuarded`: the list of scripts a cycle task froze at its creation is protected from edits for as long as
  it may be used. `TargetsExclusive`: two starts of one cycle queue or of one script never both run.
* `ReservationsDie`: no task leaves a script reserved, also one cancelled before its first step.
* `ResultTellsOfStop`: a task that was told to stop is not remembered as a success, also when the stop came between
  the announcement of a success and the keeping of the result; but for a stop during its creation, or after its result
  was kept.
* `NoScriptAfterStop`: the after-script is not started after a stop that came during its announcement.
* `ImplementsTaskTable`: among other things, "stop all" ends with an empty table.
* `StopAllReturnsUnlessSwallowed`, `StopTakesEffect`: stopping works, for every task that was not stopped during its
  creation.
* `OneTruthfulPowerTask`: two power operations never wait side by side, and what the front end is shown is the operation
  that is counting down.
* `WithdrawnOnce`: a power task that ended without its operation is announced exactly once, whoever ended it.
* `CancelClears`: when the user's cancel returns, no older sign and no power task is left.
* `PowerSparesTasks`: with scheduled wake-up on, the system is not shut down under a task or a due timed start.
* `CallsReturn`: no call is stuck on the lock or on the old power task.
* `DueIsOwed`: as long as the stored time comes from the present schedule, an entry is due exactly when its schedule has
  asked for a run it did not get, through overruns, sleep, stops and restarts of the cycle.
* `RunsItsOwnScript`: the row of the frozen list that is run and reported is the entry's own, also when a change that
  was accepted before the start is committed after it.
* `DueIsTakenUp`: an entry that is due is run, or found blocked, or no longer due, in the end, as long as runs end.
* `DownloadsStayAhead`: no download is alive between two scripts, and one that is alive is for a later entry.
* `CandidatesAccountedFor`: fetched files always have somebody who will discard them, and none are left after the run.
* `HaltIsFinal`, `StopEndsRun`: after a stop, or a download whose writer may still be alive, no script begins; a stop
  ends the run.
* `NewestIsCurrent`: a connection that was replaced never takes its successor off. `TasksDieWithOwner`: no hook or
  handler outlives its connection or runs while services are stopped.
* `StartedOnce`, `StartupIsTriggered`: no start-up queue is started twice, and a connection that stays has them
  triggered, whatever happened to the hooks of the ones before.
* `NothingMissed`: a check leaves no slot over that came since the check before, or while the machine was down by the
  program's own doing, unless it is really too late for it; and no automatic shutdown leaves a slot behind that came
  and could still be started. A clock set back since the last check is no promise broken.
* `NoSecondStart`: one run of the program starts no slot twice, also when the clock is set back and shows it again; no
  run repeats what an earlier one recorded, as long as the clock was not changed.
* `GateNeverLost`: a cancelled waiter that had been granted the gate hands it on; the gate is never free while somebody
  waits.
* `NothingForgotten`, `SavedInTheEnd`: what is newer in memory is requested, being written, or recorded as failed; when
  the changes stop it is on the disk, or given up with its retries used, or stranded (see `ConfigStore` above).
* `OwnLostOnlyByMishap`: between any two file operations, the user's configuration is where the next start finds it
  (`OwnSurvives`), and only the two steps that `mishap` names end that. `TornOnlyByMishap`: nothing else leaves half a
  configuration in the directory of a user who has one (`OwnerNeverSeesTorn`). `GivesUpOnlyForUnknown`: only recovery
  gives one up that no mishap has cost, for something in its place that it does not recognise.

### Fairness

Safety properties assume none.

* `TaskManager`: scheduled asyncio tasks take their step, a cancellation requested is delivered, sends return (they have
  a time limit of 5 s in `app/core/ws/manager.py`), and the call of "stop all" goes on when what it waits for has
  happened. Not for a run or an after-script to end by itself, for the user, or for power operations.
* `PowerTask`: calls and power tasks whose next step is ready; the waits in a power task (countdown, closing emulators,
  closing the front end) are bounded by their own timeouts or are cancelled.
* `CycleRun`: the steps of the cycle task, its sleeps included. Not for scripts to end: `DueIsTakenUp` has that as a
  premise.
* `ScriptUpdates`: the steps of owner and watcher; that a child and a fetch end once they are cancelled; that a created
  download takes its first step. Not for a script or a fetch to end by itself.
* `StartupQueue`: the hooks and the steps of `serve`, where a peer that was replaced and closed goes. Not for handlers
  or the teardown.
* `ConfigStore`: time, the loop, and that a transaction ends. Strong fairness for tasks and threads, which must get the
  gate although others enter again and again; its queue is first come, first served.

### Disagreements between the code and its comments

Each is a run that TLC must find violated.

| Run | Comment of the code | What happens |
|---|---|---|
| `stale_mark_request` | `manager.py` 1924: a check is placed before the running mark so that a refusal leaves no stale mark | the account scope is checked after the mark (2027); a request refused there leaves the queue marked, and neither a cycle run nor an edit is accepted until a restart. By a race it also happens to a cycle task stopped before its first step, which never enters the `finally` that takes the mark off (857) |
| `native_torn` | `app/task/general/manager.py` 214: the directory is as it was or completely in place | the snapshot is taken again after a native account (380). A copy that fails half way leaves a part of it while `external_config_snapshot_ready` is still set, and the end of the task swaps the part in |

### Statements that do not hold and have no run

They are kept in the modules, with what breaks them, because a change of the code near them should look at them again.

* `TaskManager!FinishedHasResult` (1550, 1708): a task stopped before its first step leaves no result, nor does
  one whose `final_task` raises before the result is kept.
* `TaskManager!KeptIsAnnounced` (1550): a stop while `TASK_COMPLETED` is being sent changes the result between the
  announcement and the memory.
* `TaskManager!StopAllReturnsAlways` (1919): a task stopped during its creation by `stop_task(uid)` is closing and was
  not cancelled (`cancel` finds no asyncio task yet and records nothing); that call waits for the end of the run, and
  "stop all" skips the task and waits too.
* `PowerTask!ChoiceWaitsForItsTurn` (`api/dispatch.py` 255): a start that queued behind `set_power` reads the sign after
  it was written and makes a power task from it, although the sign was written late to prevent that.
* `NativeConfigSnapshot!SkippedMeansUserEdit` (`io.py` 504): recovery takes a configuration it does not recognise for an
  edit by the user. It is none when the crash fell between the swap and the fingerprint, or when the script wrote its
  own configuration; the original in the snapshot is then deleted.
* `NativeConfigSnapshot!OwnSurvives` and `OwnerNeverSeesTorn` as they stand (`general/manager.py` 200, `io.py` 538),
  with two causes. A second copy that fails leaves a part of a snapshot without a marker, and the restore does not ask
  for the marker (the run `native_torn`). And where the user's configuration equals one of MAS, a crash while the
  snapshot is deleted at the end leaves a part of it with a valid marker: recovery takes what is in place for the
  injected one and swaps the part in.
* `StartupQueue!StartupIsComplete` (`manager.py` 2233): the mark that the start-up queues were started is set before the
  loop that starts them, awaiting each. A connection replaced during the loop has its hook cancelled, the next hook sees
  the mark, and the rest of the queues are not started until the program is.
* `CycleRun!UnscheduledStaysIdle` (`cycle.py` 19): a time stored before the days were taken away is still used.

Other things the models brought up that no property is about: a run-once request, made while the entry runs, is
overwritten by the time written at the end of the run (`QueueManager` in the front end says the next round picks it
up); slots passed while an entry is off, or the cycle stopped, are made up for when it is on again; an entry that
counts from the end and is cut short is run again; the debounce of saving can be put off by transactions without end;
if `swap_in_dir` fails to rename the old directory back, its clean-up deletes it, and only the snapshot is left; a
user who deletes the directory after a crash in `clear_native_config_snapshot` gets the rest of the snapshot swapped
in; and where he never had a configuration, a crash while MAS's is removed, or a file of it that is held, leaves a
part of it that the next task takes for his. `OwnerNeverSeesTorn` does not speak of these two: he has no configuration
there.

About timed starts the model brought up: a clock set back by more than a day shows a slot that is forgotten, and it is
started again (`SteadyClock` in section 4); after the clock was set back, a slot before the recorded `LastTimedStart` does
not hold an automatic shutdown up (`_pending_wakeup_slots` passes over it) and is missed, and after a restart a slot
recorded before the last one can be started again, as only the last is recorded; a crash between a start and its record
starts the slot again after the restart; a slot whose queue was running already stays pending, as it is not recorded,
and cancels automatic shutdowns until its grace is over.

## 4. What is proved

`tlapm` checks the following for every value of the constants that satisfies the `ASSUME`s of the module.

| Theorem | Statement |
|---|---|
| `ScriptReservations_proofs!TypeCorrect`, `RootsAlwaysExclusive`, `TablesStayInStep`, `NeverTakenOver` | the invariants, and that no call takes a resource from the task that has it |
| `ScriptReservations_proofs!LocksImplemented` | the table implements `ResourceLocks` |
| `TaskManager_proofs!TypeCorrect` | type correctness |
| `CycleRunsAreGuarded`, `TargetsAreExclusive`, `NoReservationLeaks`, `ResultsTellOfStops` | the safety invariants |
| `StopsBeforeAfterScript`, `PowerStartsIdle` | no after-script after a stop; the power operation is asked for with an empty table and no "stop all" in progress |
| `TableImplemented` | the task manager implements `TaskTable` |
| `PowerTask_proofs!TypeCorrect`, `OneOperationAsShown`, `WithdrawalAnnouncedOnce` | the invariants, for any number of calls and power tasks |
| `CancelLeavesNothing`, `TasksAreSpared` | the action properties `CancelClears`, `PowerSparesTasks` |
| `QueueStarts_proofs!TypeCorrect`, `NewestStaysCurrent`, `TasksDieInTime`, `QueuesStartedOnce` | the invariants, for any number of connections and start-up queues |
| `QueueStarts_proofs!TimedTypeCorrect`, `NoSlotIsMissed` | the type invariant and `NothingMissed`, for any queues, time sets, suspends and changes of the clock |
| `QueueStarts_proofs!RecordedIsNotRepeated` | no run of the program starts again what an earlier one recorded, as long as the clock was not changed |
| `QueueStarts_proofs!NoSlotStartsTwice` | all of `NoSecondStart`, under `SteadyClock` |
| `ConfigStore_proofs!TypeCorrect`, `GateIsNeverLost`, `NoChangeIsForgotten`, `RoundsExclusive` | the invariants, for any number of tasks, threads and roots |
| `ScriptUpdates_proofs!TypeCorrect`, `DownloadsAreAhead`, `CandidatesAreAccountedFor`, `HaltsAreFinal` | the invariants and the action property `HaltIsFinal`, for any queue |
| `NativeConfigSnapshot_proofs!TypeCorrect`, `ConfigurationSurvives`, `NeverTornForItsOwner`, `GivenUpOnlyForUnknown` | the invariants and the action property `GivesUpOnlyForUnknown`, for any contents, equal or not, and any number of failures and crashes |
| `CycleRun_proofs!NextFixedIsNext`, `NextAfterStartIsNext` | the arithmetic of `cycle.py`: no slot of the week is passed over, also after an overrun |
| `CycleRun_proofs!TypeCorrect`, `DueExactlyWhenOwed`, `RunsInItsRow` | the invariants, for any week, schedules, queue and length of runs |

`NeverTakenOver`, `PowerStartsIdle`, `RoundsExclusive`, the type invariants of the first two modules, of `PowerTask`
and of `StartupQueue` are proved and not checked by a run as well. The inductive invariant of timed starts was checked
by TLC before it was proved, on an instance with days short enough that starts are forgotten.

**Assumptions.** Each is an `ASSUME` of the module, which TLC evaluates on the instance.

* Reservations: `Below` is a relation on `Roots` (it need not be transitive), `Nobody` is not an owner.
* Task manager: the three kinds of targets are disjoint, `None` is neither a task nor a target, and the queues with
  bad scopes are cycle queues.
* Power: exits and operations of the system are different, and "no action" is neither.
* Start-up: `StartupQueues` has a length, which is to say it is a sequence, and there may be a connection.
* Timed start: a minute, a day and what may pass at once are at least a tick; every slot is a full minute before
  `Horizon`.
* Updates: the queue has entries, each with a script.
* Configuration: the actors are finitely many, threads, tasks, the worker and the flush are different actors, and `None`
  is not a failure.
* Cycle run: the entries and the kinds of schedules are finitely many; `None` is not a number; a week has days and a day
  has ticks; intervals are positive and the time of a schedule lies within the day.
* Native configuration: half a directory is nobody's configuration, neither MAS nor a script writes the absent one, and
  `None` is neither a configuration nor a marker.

The theorems on the user's configuration have no further hypothesis: contents may meet, and every operation may fail.
The two causes of section 3 are in the properties themselves, which name the steps that break them.

`NoSlotStartsTwice` has the hypothesis `SteadyClock`: some bound on a single change of the clock, times the number of
changes, stays within a day even with the grace or a minute added. It is needed: `timed_start` forgets what it fired
before yesterday (`_timed_fired`), and `LastTimedStart` has the last slot of a queue only, so in an instance with days
of three ticks whose clock is set back by nine TLC finds a slot started, forgotten, shown again and started again. Two
changes to and from summer time are far within the bound; a user who sets the clock back by days while the program
runs is not.

**Argument for the reservations.** `RootsExclusive` is not inductive: `try_acquire` only compares a new root with the
paths in `_reserved_root_paths`, and looks their owners up in `_owners`. So the invariant needs that the path list
has every taken root (`PathsFollowKeys`) and that the key table names the owner who lists it (`TablesAgree`). Those
two survive `release` only because `release` gives back the keys no other script of the owner lists, and because an
owner's entry for a script always has the script's own key (`ScriptKeyCoversResources`, with `OwnScriptKeyOnly`: an
entry has no other script's key). The refinement is the fact that the code's test, on its tables, agrees with `Free`,
which compares with everything anybody holds.

**Argument for the task manager.** `IInv` strengthens the invariants with: a standalone task that is not over is the
recorded owner of its script (`ScriptOwned`), a task being created is in the table (`CreatingListed`), "stop all" sees
all tasks (`StopAllSeesAll`), and `StopTakesSuccessBack`: a stop that comes before the result is kept leaves no
success to keep, which is what `ResultTellsOfStop` rests on when `CompletedSent` keeps the outcome of that moment.
That a queue stays marked while its cycle task may use its list needs that nobody else takes the mark off, which is so
because only the one task cycling it does (`OneCyclePerQueue`), and that in turn holds because a second start looks at
the mark and sets it in one step. That "stop all" ends with an empty table needs `CreatingListed`: its snapshot is
taken when nothing is being created, and a task created before it was called cannot be missing from it. The proof
sorts all steps into a few kinds (`TableStep`) so that the part about tables is proved for each kind and not for each
action.

**Argument for the power operation.** That one power task is alive at most is the lock's doing: the call that ends the old
task has the lock until the task is gone. The invariant says what the lock protects (`OneHolder`, `AliveIsCurrent`: only
the task on record is alive) and, for the announcements, who will make them: an end that nobody has announced yet is
followed by a call in `ending` (`EndAnnounced`), and what is announced is on record with the task (`AnnouncedSoFar`),
because a task that was cancelled before its first step announces nothing itself. For `CancelClears`, a sign nobody
wrote since the call came is none (`SignWritten`).

**Argument for connection and start-up.** `MainInv` says by `serving` what may be alive: a hook until its connection ends
its hooks, a handler a phase longer, nothing of a connection that has not come (`NotYetThere`). A replaced connection
goes through the same phases as one that ends by itself, so no case of its own is needed. `StartedOnce` needs that one
hook at a time is past the head of its loop (`OneAtWork`), that the mark is set when it starts queues (`MarkInTime`), and
that the queues from `next` on are untouched (`RestUntouched`).

**Argument for timed starts.** That nothing is missed is about two places a slot can be lost: between two intervals,
and in the loop over the queues. `OwedInTime` says where a slot that is owed lies: after the last check, or inside the
interval of the running check with its queue still to be looked at, or, after a slot was waited for through a
shutdown, within the grace of the first check (`OwedIsAhead`). Each interval begins no later than the one before
ended, which is why the code takes the lesser of the last check and the start of the minute (`IntervalStart`).
`FiredIsAnswered` says that what the code passes over as fired already was answered for. Hence what is owed and looked
at is a hit, and a hit is started or too late (`HitOrExcused`), and too late by both clocks, so excused.

That nothing is started twice needs first that what is on record is not ahead of the last check (`RecordedInTime`), as
long as the clock runs forward; the one interval that goes back behind the last check begins at the start of the
minute, and a slot is a full minute, so it cannot lie strictly between (`FullMinute`, `DueIsLater`). Within one run, a
slot begun is in `_timed_fired` until it is forgotten; `ForgottenInTime` says that a forgotten one lies more than a
day back, less what the clock has been set back since, so that a check that reaches it again finds it too late
(`Forgotten`, `OutOfCheck`), and `SteadyClock` is what makes the sum come out.

**Argument for the configuration store.** `GateNeverLost` for any number of actors needs that nobody queues at a free
gate (`GateInv`), and what the helper `RemoveFirst` and the choice of the first waiter leave of the queue
(`RemovesOnlyOne`, `FirstWaiter`). An actor's step changes nothing another one can see but that a waiter may be
granted the gate (`OthersOnlyGranted`); each step of the store is proved from that. `NothingForgotten` is inductive
together with `ChangesAreCalls` (a root was changed no more often than there were calls), `RoundInGate` (a round of
saving has the gate, so that worker and flush never take the same change) and `RetriesLeft` (what is to be tried again
has retries left).

**Argument for the updates.** What makes a download be ahead is that the entries are looked at in order: the lemma about
the next entry that would run gives `TargetAhead`, and a watcher ends with the script it belongs to (`WatcherInTime`,
`DownloadWatched`). That a writer may still be there is passed from the download to the watcher to the owner
(`UnconfirmedPassedOn`), who ends the run; `StopSeen` says that a stop is noticed before the next head of the loop.
`CandidatesAccountedFor` is inductive with these.

**Argument for the native configuration.** What needs no hypothesis is proved first (`TypeInv`): where each phase can
be (`StepOfPhase`), that a swap under way brings in what it was asked to (`SwapInv`), that a snapshot is taken of a
directory that is there and has a marker only of itself (`CopyInv`; without it the type invariant is not inductive,
for a marker might be written of nothing), that a marker of an older version is gone when the accounts begin
(`OldMarkerInv`), and what the flags of the manager say of the disk (`FlagInv`). `Safe` is the invariant proper, and
it holds until a mishap. It has one part for each stretch of the work: what the places hold during recovery, while a
snapshot is made, while MAS's configuration is in place, and while it is given back (`RecoveryInv`, `SnapshotInv`,
`AccountInv`, `EndingInv`, `GiveBackInv`). They say of a place that it is the user's unless he has none or gave it up
(`Mine`), so that a user without a configuration needs no proof of his own. After a second copy that failed, the
manager counts on a snapshot without marker while the user's is in place (`Unmarked`), and the restore that follows is
the mishap. `OwnKept` says where the user's configuration is. It is what is left of the invariant after a crash;
recovery is proved from it, and where it does not suffice, because the user's is equal to MAS's, the step is the other
mishap. The two invariants would allow the program to give a configuration up (`own` is `None` then) as it likes;
`GivenUpOnlyForUnknown` says when it does: with `OwnKept` and `CopyInv` the verdicts "cleared" and "intact" cannot
meet one that is not in place. The proof has a lemma for each file operation and each failure, and where a failure
leads is stated once (`WhereRaised`, `WhereRestored`, `WhereSwapped`).

**Argument for the cycle run.** `DueIsOwed` relates `NextRunAt` to the history kept without it. It is not inductive:
that a stored time that is still ahead turns into a run owed at the right tick needs to know what it is. `OnSchedule`
says so: the time of a fixed schedule is the *first* slot from now on, that of an interval completes the interval with
the time since the last slot. `ValuesOnTime` says the same of the times that are computed and not yet written. The
arithmetic is proved apart: `NextFixedIsNext` (the search over 0 .. `Week` days ahead finds a slot, and none lies
before it: with one day fewer it would not), `NextAfterStartIsNext` (the smallest multiple after an overrun), and
`StillOnTime` (ticks take a time nearer and never past its slot unseen, any number of them at once), from facts about
division by a variable that are proved first. An edit takes the history away, since the time stored is then of an
older schedule; `Stores` compares the schedules for that, so an edit during a write does no harm. `RunsItsOwnScript`
is inductive as it stands.

**What the proofs changed in the models.** The constants' assumptions above were added; in `ExecutionGate`,
`NativeConfigSnapshot` and `CycleRun` a helper was written without the operators the prover cannot use (`SelectSeq`,
`CASE` over Booleans). In `TimedStart` the days of the instance were no longer than its grace and shorter than a
change of its clock, so that the run said little about what is forgotten; the attempt to prove `NoSecondStart` showed
that, and gave `SteadyClock` and longer days. In `NativeConfigSnapshot` the theorems used to assume that the user
keeps the directory; doing without showed that the removal of MAS's configuration was one step that cannot fail, and
that a copy of half a directory never came to an end. Both were corrected, and `OwnerNeverSeesTorn` now speaks of a
user who has a configuration. They also used to assume that no content of the user's equals one of MAS and that the
second copy does not fail; doing without found which steps are to blame, and gave `mishap`. `GivesUpOnlyForUnknown`
was added because nothing said when one is given up.

**Only model-checked.** All liveness (`StopTakesEffect`,
`StopAllReturnsUnlessSwallowed`, `CallsReturn`, `DueIsTakenUp`, `StopEndsRun`, `StartupIsTriggered`, `SavedInTheEnd`):
fairness and `ENABLED` are outside what the prover handles, as is induction over data.

## 5. What is not modelled, and the plan

Every safety property that a run checks is a theorem. Models to come next, where the hazards in `PROJECT.json` without
a property name them: `ShutdownCoordinator` with `RuntimeTasks`, `DesktopGuard`, the leases of the runtime pool,
`ObsReplay`, the cancellation of downloads, and the composition of `ScriptReservations` with a queue run.

Not planned: the front end (another program), the adapters' image recognition and log parsing (data, not control), API
routers and schemas (they forward), notification channels, telemetry, translations and resources (no state that the
scheduler reads). Most of the repository's lines are of these kinds.
