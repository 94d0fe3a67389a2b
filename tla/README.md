# A verification project for the skill-seeker dashboard

TLA+ models of the parts of the backend where several coroutines, processes or
clients work on the same state, the TLC runs that check them, and TLAPS proofs
of what matters most. Paths below are relative to `src/backend/app/` unless they
start with `src/`. `PROJECT.json` lists every component, run, mutant, hazard,
finding and theorem, and the source lines each definition stands for.

## 1. The system

The dashboard is a FastAPI backend (about 96 000 lines of Python in `app/`) with
a React frontend. It has five subsystems that share few lines of code: *skill*,
*progress*, *storage*, *file* and *platform*. `main.py` wires the skill
subsystem; the other four are packages with managers, routes and tests of their
own. The wiring is not complete. By a static look at the imports:
`app/progress/__init__.py`, `app/platform/__init__.py` and others import names that
do not exist; `main.py` refers to WebSocket handlers that are not there;
`api/routes/skill_routes.py:62` builds `SkillVersionManager` and `SkillEditor`
without the `workspace_path` they require; `file/models` needs a `Base` that
`core/database.py` does not define, which takes the file manager, editor, versions,
batches and transfers with it; and five modules have syntax errors
(`file/tasks/cleanup_tasks.py`, `api/routes/skill_routes.py`,
`platform/schemas/websocket_messages.py`, `progress/enhanced_connection_pool.py`,
`skill/utils/templates.py`). Each model is therefore of its component as a module
taken alone, driven through its public methods, the way its tests drive it, and
the components chosen are those whose own code can run.

Nearly everything runs on one asyncio event loop. That decides what can
interleave: a coroutine gives way only where it really suspends (a socket, Redis,
a thread, a sleep, a lock somebody else holds, an `await` of a caller-supplied
handler that may do any of these). Awaiting a coroutine that does not suspend,
or a free `asyncio.Lock`, does not let anybody else run. The models split
operations exactly at the real suspensions. Redis itself is shared by processes.

### Inventory

Modelled in this project:

| Component | State | Operations | Interacts with | Hard behaviour | What makes it correct |
|---|---|---|---|---|---|
| Redis message queue `progress/redis_message_queue.py` | bodies with a time to live, four sorted sets (pending, priority, processing, dead_letter), all in Redis | publish, consume, acknowledge, handle_message_failure, cleanup_expired_messages | Redis; any number of processes | each operation is several commands; consumers race for the same ids; crashes and failed commands between two commands; expiry | nothing published is lost before it is acknowledged, expired or given up; given up only after max_retries failures |
| Skill version manager `skill/version_manager.py` | commits by version, cached contents, tags, branches, the workspace file, a lock | create_version, tag_version, create_branch, compare_versions, rollback_version, merge_branches, cleanup_old_versions | event manager, skill manager, file system | a non-reentrant lock held across events; events whose type does not exist | the content read for a version is the one committed; cleaning drops the oldest; calls return |
| Skill editor `skill/editor.py` | sessions, open files with their content and unsaved mark, file locks, one auto-save task per session, a lock | create_session, open_file, close_file, update_content, format_file, save_file, auto-save, close_session | workspace, event manager | saves in a thread while typing goes on; cancelled auto-saves | what is shown as saved is on the disk; every edit gets there |
| Skill event manager `skill/event_manager.py` | handlers by type, global handlers, history | publish_event, (un)register, clear, get_event_history, clear_event_history | every manager of the skill subsystem | delivery walks live lists across awaits | every registered handler is called once; the history is bounded and current |
| Skill WebSocket `api/websocket/skill_websocket.py` | connections, user and skill indexes, subscriptions, heartbeats | connect, disconnect, subscribe, unsubscribe, heartbeat, broadcast, the endpoint's loop, monitor_heartbeats | clients, skill manager | clients leave or get stuck during a send; monitor and endpoint both disconnect | indexes agree with the table; a broadcast reaches the healthy; dead clients are forgotten |
| Skill importer `skill/importer.py` | tasks, results and active imports and exports | import_skills, export_skills, the tasks, cancel_*, cleanup_old_results | skill manager, event manager, progress callbacks | results cancelled and cleaned up while their task runs; failures of a file, a manager or a callback | every file is counted once; what is active runs; an end is final; every job ends |
| Multi-level cache `progress/multi_level_cache.py`, `progress/cache_invalidation.py` | a memory per process with its order and uses, entries in Redis | get with promotion, put, delete, clear, warm_cache, cleanup, invalidation | Redis, other processes | promotion against put and delete; failed commands; a lock taken twice | both levels have the last write that met no other; nothing comes back that had gone; stale memories catch up |
| File event manager `file/event_manager.py` | a bounded queue, a worker, handlers, history | publish_event in both modes, start, stop, (un)register, the worker | handlers in coroutines and threads | stop at any suspension; a cancellation `wait_for` drops; handlers that publish | events one after the other; nothing after stop; what is queued is handled |
| Platform monitor `platform/monitor.py`, `platform/registry.py` | status snapshots, alerts, the monitoring loop, loaded adapters | checks by the loop and by clients, start_monitoring, stop_monitoring, resolve_alert, registering and loading adapters | adapters, event handlers, other threads | overlapping checks share a snapshot; a stopped loop ends late | alerts fit the status; one loop at work; alerts catch up |
| Platform deployer `platform/deployer.py` | active and completed deployments, statistics, a semaphore per batch | deploy_skill, deploy_batch, the execution, cancel_deployment, retry_deployment, cleanup | adapters, converter, event handlers | cancellations, executions and retries race without a lock | the books account for every deployment; no double deployment; batches bounded |

Not modelled (yet), with the state and behaviour that would matter:

| Component | State and operations | What is hard, what would make it correct |
|---|---|---|
| Skill manager | rows in the database; create, update, delete, status changes | no suspension between query and commit; events afterwards |
| Skill analytics | usage counters, scores, dependency graph | cycle detection is right |
| Celery tasks, routes, configuration, models, schemas, utilities | calls and data | - |
| Second queue and intelligent cache `progress/message_queue.py` | one sorted set and bodies in Redis, an in-memory cache, batch processors | the limit, the priority order, batches that are lost; FIFO within a priority |
| Progress event bus | handlers, statistics; publish, subscribe | nested timeouts; each handler once |
| Progress manager and tracker | tasks in memory over a database; updates, broadcasts, handlers | a lock held across broadcasts and handlers; memory agrees with the database |
| Resource, connection and database pools | free and acquired resources under thread locks | nested locking; never more than max_size, none in two hands |
| Progress WebSockets, notifications, rules, logs, charts, performance | connections, queues, buffers | as in the skill WebSocket; otherwise rendering and I/O |
| Storage manager, versions, cache, backups | object store plus database records | two stores written one after the other; no object without record |
| File manager, editor, versions, batches, uploads | sessions shared by collaborators; jobs; chunked uploads | version numbers order changes; cancellation against completion |
| Platform converter, validator, managers, adapters | transformations; records | - |
| Frontend, migrations | - | no protocol of its own |

`PROJECT.json` lists the hazards of the modelled parts, with the line where they
bite and the properties that cover them. Three are covered by none: cleanup of the
queue against a retry (section 4), a consumer that dies after its claim and a
publication cut off half way, which the code does not recover from. The notes of
the others say where a property excepts what the code gets wrong. What the survey met in
the other parts, for the modules to come: the length limit is tested on a list
while the messages are in a sorted set (`progress/message_queue.py:153`);
`bzpopmax` serves the lowest priority first (line 203); a batch off the queue is
handed to an executor that does not exist (line 666); a lock is held across
broadcasts (`progress/progress_manager.py:136`, 167); a release tests for its key
outside the lock (`progress/resource_manager.py:317`); a delivery is limited
twice by the same timeout (`progress/event_bus.py:495`); two concurrent
initialisations leak the first pool (`progress/database_pool.py`); cancelling a
batch job changes its status only (`file/batch_processor.py:352`); an upload that is
cancelled while it is being completed is completed (`file/services/upload_service.py:620`); a closed editor session
stays listed (`file/editor.py:395`); an object is stored before its record
(`storage/manager.py:174`); the version limit is tested on a number that cleaning
never lowers (`storage/versioning.py:135`).

## 2. Modules

`X.tla` is a component with its properties, `MCX.tla` its instances for TLC,
`X_proofs.tla` its theorems. A few operators have a variant defined just before
them (`ConsumeClaimCopies` before `ConsumeClaim`): the operator as a plausible
bug would have it. No specification uses them. They are the mutants of
`PROJECT.json`: with the variant in place of the operator, the property named
there fails. A module of theorems may be about two components of
one package: `SkillFiles_proofs` about the importer and the editor, `Platform_proofs`
about the deployer and the monitor. Names that both components would have carry a
prefix in the second (`EditorSpec`, `MonitorTypeOK`).

**RedisQueue** (and the abstract **WorkQueue**). One Redis command is one action:
`PublishBody`, `PublishPending`, `PublishPriority` for the three commands of
`publish`; `ConsumeScan` for the range query, `ConsumeClaim` for the pipeline,
`ConsumeFetch` for each body; `AckRemove`, `AckDelete`, `AckGet`, `AckSet`, and
`FailGet`, `FailRemove`, `FailMove`, `FailSet` for the two ways of
acknowledging; `CleanupScan`, `CleanupDelete`. `pc`, `ids`, `messages`,
`current`, `data` are the local variables of a consumer, lost in
`ConsumerCrash`. `AckRaises` and `PublishFails` are a command that raises.
Bodies expire by the clock `now`; a body is a retry count, a status and an
expiry, its payload left out. `acked` and `failures` are history variables.
WorkQueue says in six states what a queue promises one consumer;
`RedisQueue!ImplementsWorkQueue` maps the sets and the consumers' variables to it.

**SkillVersions**. `versions` is a set of commits, one per version. The lock is
`owner` and the queue `waiters`, as asyncio serves it. A locked call waits
(`Acquire`), and runs in one step, except that `create_version` awaits the handlers
of its event (`Published`). `rollback_version` and `merge_branches` enter the queue
for the lock they hold (`NestedCreate`). `EventManagers` distinguishes the
repository's own event manager, which refuses the keyword arguments of
`create_version`'s event, from the tests' stand-in. File contents are model values;
diffs and exports are left out.

**SkillEditor**. A save has begun (a thread is asked to open the file), is opened
(the file is emptied), written (the content is taken), flushed and marked, with
other coroutines in between; `save[s][k]` holds
the saves of session `s` started by the user, by the auto-save task and by
`close_session`. `own` says whether the file object being saved is still the
open one. Cancelling an auto-save stops its coroutine and not the thread that works
for it: `late` is what such threads may still do (`LeftBehind`: empty the file, or
write the text they were given), and `LateWrite` does it at any later time, or drops
it. A text written over a longer one leaves a mixture (`Written`, `Mixed`).
`overwritten` is a history variable: the files a late thread wrote into since their
last save began.
`crossed` is a history variable: the files whose last save met another one, an
edit that does not cancel it, an opening, the same file open in another session, a
formatting, or was the auto-save of one file cancelled by an edit of another; a save
that meets nothing clears it.
Write errors are not modelled.

**SkillEvents**. `lists` are the lists of handlers, which a delivery (`running`:
list and index) walks while they change; `detached` keeps a list that was
dropped from the table while somebody still walks it. Events are known by their
timestamps; reading the history unfiltered reverses it. `calls` and `watching` are
history variables.

**SkillSocket**. An endpoint is receiving, answering, failing or ended; `peer` is
the client, which may leave or be stuck (up, not reading: a send does not
return). Broadcasts hold the sends that have not begun and those that have not
returned. A tick of the clock is one sleep of the monitor, after which the
monitor is due.

**SkillImport**. A task (`task[j]`) runs until it awaits the skill manager, the
progress callback or the tasks of its files; `cancel` is a CancelledError that
will be thrown at its next suspension. `results`, `active` and `ended` are the
dictionaries and the end of each result, `tally` its counters; `cancelled` and
`cleaned` are history variables that say who interfered.

**LevelCache** (and the abstract **VolatileCache**). L1 changes without a
suspension, a Redis command is executed at one time and answered later, and `task`
is the place of each call in between. Eviction is by the policies of the code
(`order`, the keys of the memory as `move_to_end` leaves them, and `uses`); expiry may come at any time; a process may be cleared, frozen
(`CacheInvalidator` takes a lock it holds) or restarted. `Json` is what a value
becomes in Redis. `lone` and `settled` are history variables. VolatileCache says
what several processes are promised of a cache that may forget:
`ImplementsVolatileCache` maps to it, for each process and key, what that process
may still be told.

**FileEvents**. `queue` is the bounded queue, `worker[i]` the place of each worker
ever started and its event, `calls` the call of each handler for each event, in a
coroutine or a thread. A stop cancels the
worker (`Stop`), which ends when its handlers have, and returns after it (`StopReturns`). A
cancellation that meets an event already taken is dropped, as Python 3.11's
`wait_for` does. `overlapped` is a history variable: a start overtook a stop.

**PlatformMonitor**. `check` is where each check is: probing, in the handlers of
status_change, of the first alert_resolved (`resolving`), of another alert
(`alerting`) or of health_check. `loop` holds the loops ever started, `cancelled_loops`
those told to stop; `health` is the status in each snapshot. A check needs an adapter that is loaded already: `load_adapter`
runs an event loop of its own, which raises inside a coroutine. `failures` counts
as far as the threshold, beyond which it makes no difference. `excused` and
`overtook` are history variables.

**PlatformDeployer**. `run` is where the coroutine that executes a deployment is,
`status` what the object shows; they differ because `cancel_deployment` changes
the books and the status but does not stop the coroutine. `asking` counts the
cancellations that wait for the adapter. `free` is the value of each batch's
semaphore, a variable of its own: `Begin` takes a slot (`TakesSlot`), `Reported` and
`Raise` give it back (`GivesSlotBack`). `deployed`, `cancelled`, `touched` and
`cleaned` are history variables. Adapters and converter return or raise.

## 3. Runs

| Run | Module | Bounds | What it shows |
|---|---|---|---|
| `queue_single` | MCRedisQueue | one consumer, 2 messages (one expires), 2 tries, 4 ticks, no fault | `OneHome`: a message is in one set at a time. `ProcessingIsHeld`: nothing rests unnoticed in processing. `ImplementsWorkQueue`. `EventuallySettled` |
| `queue_race` | MCRedisQueue | 2 consumers, 1 message, 1 fault, 5 ticks | `NotLost` until the first fault although both may take the same message; `DeadLetterEarned` with crashes and failed commands |
| `versions` | MCSkillVersions | 2 callers, 2 versions, 2 commits, 2 branch names, 1 branch | `ContentMatchesCommit`, `CleanupKeepsNewest`, `EveryCallReturns` unless a rollback or merge has blocked the manager |
| `versions_rollback` | MCSkillVersions | violation | a rollback to a known version never returns |
| `editor` | MCSkillEditor | 1 session, 1 file, 2 contents (one refused) and no text, all operations, 2 edits | `CleanIsOnDisk` and `AutoSaveCatchesUp`: what is shown as saved is on the disk, and every edit gets there, however auto-saves are cancelled and fire again; but for a file whose save was crossed, or which the thread of a cancelled auto-save wrote into after its last save began. `UnsavedMarkIsKept` when a file is closed and opened again during a save; `CloseSessionEnds` |
| `events` | MCSkillEvents | 2 publishers, 2 handlers, 3 events, history of 2; symmetric in publishers and in handlers | `CalledOnce`, `HistorySound`, with registration, removal, clearing and queries between the awaits of overlapping deliveries |
| `cache` | MCLevelCache | 2 processes (LRU and no limit), 2 callers, 2 keys, 2 values and one as text, memory of 1 entry | `SettledSticks`, `ImplementsVolatileCache`, `Converges`, and in `TypeOK` that the memory keeps its limit and the order lists every key once |
| `import` | MCSkillImport | 1 import and 1 export, up to 3 files, up to 2 skills | `JobsAreAccounted`, `EndIsFinal`, `EveryJobEnds` under cancellation and cleanup at any suspension |
| `file_events` | MCFileEvents | 2 handlers (one in a thread), queue of 1, 3 events (one inline), 2 starts | `OneAfterTheOther`, `EveryoneGetsOn` |
| `monitor` | MCPlatformMonitor | 1 platform, the loop and 1 client, threshold of 2, 3 starts | `AlertsMatchStatus`, `MonitoredByOne`, `AlertsCatchUp` |
| `socket` | MCSkillSocket | 2 connections of one user, 1 type, 1 skill, 1 broadcast | `IndexesAgree`, `BroadcastReaches`, `FailedIsForgotten`, and in `TypeOK` that no connection in the table is idle for longer than the timeout and a period |
| `deployer` | MCPlatformDeployer | 2 deployments, 1 batch of 1 slot, 1 retry, 2 cancellations at a time | `Accounted`, `SlotsMatchExecutions`: a slot of a batch is taken exactly while an execution of it runs, and comes back once on every way out; `StatsAddUp`, `RetryOnlyFailed`, `EveryExecutionEnds` |

### Bounds, and why they are enough

* Races are between two: two holders of one message, two callers of a lock, the
  endpoint and the monitor, an execution and a cancellation, two cancellations.
  A second message shows that a batch is handled one by one, a second deployment
  that a slot is waited for and that a retry gets a new id.
* `MaxRetries = 2` in the queue lets a message be retried and be given up;
  in the deployer 1 makes the limit reachable with two ids.
* The clocks run long enough for a retry to become due and a body to expire
  (`Horizon`), or for a connection to become stale (`Timeout = 0`, with which two
  ticks are enough). `Epoch` only has to exceed the scores of fresh messages.
* Two deliveries that overlap each other and a client that changes the lists show
  every kind of interference: a publication changes the history in one step.
* `MaxHistorySize = 2` with three events trims once after every order of reading
  and clearing. `MaxStamp = 2` allows a version to be created again or a second
  one to be cleaned away.
* `editor` has one session and one file: two sessions that edit the same file have
  two contents and one disk, for which the code promises nothing, and of two files
  the second only matters through the cancelled auto-save, which is excused. Two
  edits are enough for an auto-save to be cancelled by the second and to write the
  first text, or empty the file, after the second was saved; no text is the second
  text that may be saved.
* A memory of one entry makes every put of a second key evict. `MaxUses` caps the
  use counts of the LFU policy, which the run does not select.
* `MaxQueue = 1` lets a handler find the queue full. `MaxStarts` (2 workers, 3
  loops) lets a start overtake a stop, and a third loop follow the confusion.
* Platforms do not share state, so one is enough; `Threshold = 2` (3 in the code)
  tells a first failure from the one that opens the alert.
* `MaxJobs`, `MaxStarts`, `MaxFiles`, `MaxSkills`, `Inline`, `MaxFaults`, `MaxUpdates`, `MaxEvents`, `MaxStamp`, `MaxBranches`, `MaxCancels`
  and `Horizon` bound a behaviour and correspond to nothing in the code. That
  deployment, connection and session ids are used once is the code's.
* In `socket` only one of the two clients may fail, so that it is visible that
  the other is not affected.

Deadlock checking is off where a behaviour may use up its ids, edits or time:
the queue (time stands still at `Horizon`), the editor and the deployer.
Elsewhere it is on.

The type invariants of SkillVersions, SkillEvents, SkillImport and FileEvents are
proved (section 5) and not run again. So are the theorems of section 5 that no run
names: the lock of the versions, the pending edits of the editor, the sends of a
broadcast, the waiting of the workers of the file events, what is stale in the cache
while nobody writes, and the variants of the queue's batches, of executions, jobs,
stops and `close_session`. They were checked by TLC
on such instances before they were proved.

### Fairness

Only scheduling is assumed to be fair: a coroutine that can go on is run
(`Publish`, `Consume`, `Acknowledge`, `LockedStep`, `SaveStep`, `SendBegins`,
`Monitor`, ...), timers fire (`AutoSaveFires`), and time passes (`Tick`); each by
weak fairness, since the event loop runs its ready callbacks in order. Threads
that write a file answer, and the adapters, the converter and the handlers
return: in `versions` the handlers of an event, in `deployer` those of an
execution, in `monitor` those of a check. In `cache` Redis answers (`Proceeds`)
and the timer of the cleanup fires (`CleanupRound`); in `import` the tasks go on
(`TaskStep`); in `file_events` the worker, the stop that waits for it and the
handlers do (`WorkerStep`, `StopReturns`, `HandlerStep`); in `monitor` checks and
loops do (`CheckStep`, `LoopStep`). Users, clients, callers, cancellations, cleanups and faults owe
nothing. In `socket` a stuck client need not recover and a send to it need not
return. Of the threads of cancelled auto-saves (`LateWrite`) nothing is assumed: they
may write at any time or never. `CloseSessionEnds` and `EventuallySettled` hold however
much is typed or published within the bounds.

## 4. Disagreements with docs, comments and tests

With a run that shows it (`findings` in `PROJECT.json`): `versions_rollback`. The
test of `rollback_version` asserts that it returns True; it waits for ever for the
lock it holds.

Met while modelling, in the models, without a run of their own (see the notes of
the hazards):

* Queue: cleanup deletes a body that a retry has renewed, against the comment at
  `redis_message_queue.py:421`.
* Queue: the branch of `acknowledge` that keeps a completed body runs only when
  somebody re-creates the body between two commands; ids of consumers that died
  stay in processing.
* Versions: tagging and branching change their tables and then raise, because
  the event types they name do not exist; the "latest" version of the statistics
  is the first.
* Editor: text typed during an explicit save is marked saved and is not on the
  disk, against the comment at `skill/editor.py:445`; file locks outlive their session; one auto-save entry per session lets
  an edit of one file cancel the auto-save of another; an auto-save cancelled by
  `close_session` may leave the file empty; two concurrent openings replace each
  other. The thread of a cancelled auto-save (`skill/editor.py:442-443`, cancelled at
  571-572 and 252) may empty the file, or write its old text, after a later save has
  marked it saved: what is shown as saved is then not on the disk until the next edit
  (`overwritten`).
* Events: reading the history unfiltered reverses it, and trimming then drops
  from the wrong end (never the event just published). A handler that stays
  registered is skipped when another is unregistered during the delivery, against
  the docstring at `skill/event_manager.py:798`.
* Importer: a cancelled import stays in `active_imports`; every file of a ZIP or a
  directory fails; a result cleaned up while its import runs makes it end with a
  KeyError.
* Cache: an error of Redis is swallowed, so that a put or delete that never got
  there looks done; an overlapping promotion leaves a memory stale until its next
  cleanup; `cascade_invalidate` takes a lock it holds and stops the process.
* File events: a start during a stop runs two workers, and the stop may never
  return; a handler that publishes into the full queue waits for the worker, which
  waits for it; after a restart the thread pool is shut down and plain functions
  fail; `wait_for` may drop the cancellation of a stop.
* Monitor: alerts are kept under "platform:kind", while `resolve_alert` and
  `acknowledge_alert` ask for the alert's id, which they never find; the Claude and
  Markdown adapters report "status" where the monitor reads "healthy", so that they
  are always degraded; an adapter that is registered again is no longer loaded, and
  its platform keeps its last status for good, since the checks raise; a start
  during a stop is undone by the end of the old loop; a check cut off by a stop
  leaves alerts that do not fit.
* Socket: the monitor forgets a connection without closing it; unsubscribing
  from one type for one skill ends more than that.
* Deployer: a cancelled deployment is carried out all the same; a late
  cancellation marks a success as failed and makes it eligible for a retry;
  `deploy_batch` without `wait_for_all` starts nothing; a malformed request in a
  batch leaves the requests before it running unattended.

## 5. Proofs

TLC checks the instances above; TLAPS proves the following for every value of
the constants, from the named assumption on the constants in each module and
nothing else.

| Theorem | States | Argument |
|---|---|---|
| `RedisQueue_proofs!TypeInvariant` | `Spec => []TypeOK` | inductive as it stands; one step per action |
| `RedisQueue_proofs!GivenUpOnlyWhenEarned` | `Spec => []DeadLetterEarned` | `EarnedInv`: the sets alone are not inductive, because retry counts travel in the local variables of acknowledgements that overwrite each other. The invariant adds that neither a stored count nor a carried one runs ahead of the failures reported (by one, between reading and moving) |
| `RedisQueue_proofs!NothingLost` | `Spec => []NotLost` | until the first fault somebody has every published message: `NoneLost` adds the consumers' local variables, also of several consumers that hold the same message |
| `RedisQueue_proofs!AloneOneHome`, `AloneProcessingIsHeld` | `Alone => (Spec => []OneHome)`, the same for `ProcessingIsHeld` | `Alone` is one consumer and no fault, without which both are false. `AloneInv` follows a message through the consumer's variables |
| `RedisQueue_proofs!AloneImplementsWorkQueue` | `Alone` and `MessageTTL # 0` imply `Spec => ImplementsWorkQueue` | `CountsAgree`: what the body counts is what the consumer reported. With a time to live of 0 Redis refuses the new count, and the refinement is false |
| `RedisQueue_proofs!BatchesStayInHand`, `BatchesAlwaysWorkOff` | `Spec => []BatchInHand`, `Spec => BatchesWorkOff` | also with several consumers, crashes and failing commands, each consumer has what its next command is about, and each command leaves its batch smaller, fewer ids to fetch or fewer commands for the message it works on, in this order. With `ProcessingIsHeld` and `NotLost`, the safety half of `EventuallySettled` |
| `SkillVersions_proofs!TypesHold`, `ContentAlwaysMatches`, `CleanupAlwaysKeepsNewest` | `Spec => []TypeOK`, `Spec => []ContentMatchesCommit`, `Spec => CleanupKeepsNewest` | `IInv`: the set of commits is finite, has one commit per version and one per time stamp; so the newest are well defined and a cached content has one commit to match |
| `SkillVersions_proofs!LockNeverStarves` | `Spec => [](LockInOrder /\ NobodyStarves)` | `LockInOrder`: who holds the lock publishes or waits for itself, each waiting call is in the queue once. `NobodyStarves`: while a call is out, some call can go on, unless one waits for itself; what is left for `EveryCallReturns` is fairness |
| `SkillVersions_proofs!SelfBlockIsForGood` | `Spec => [][BlockedForGood]_vars` | from `LockInOrder`: only the holder's publishing or a free lock lets a call end, and a rollback or merge that queued for its own lock gives neither. The finding of `versions_rollback`, for any callers |
| `SkillEvents_proofs!TypesHold`, `HistoryIsSound` | `Spec => []TypeOK`, `Spec => []HistorySound` | the history is, in the order it was left in by the last query, without duplicates and with the latest event at the end it is trimmed from last |
| `SkillEvents_proofs!EverybodyCalledOnce` | `Spec => CalledOnce` | `DeliveryInv`: what a delivery that has come to entry i has done for those it owes a call, an invariant that appending to, removing from and dropping the list under it keep |
| `SkillFiles_proofs!TypesHold`, `AlwaysAccounted`, `EndsAreFinal` | `Spec => []TypeOK`, `Spec => []JobsAreAccounted`, `Spec => EndIsFinal` | `IInv` = `TypeOK`, `JobsAreAccounted`, `StartedHaveTasks`, `InterferenceIsKnown`, `FilesSoFar`; every action is first shown to be one of a few kinds of move |
| `SkillFiles_proofs!StepsWorkOff` | `Spec => EveryStepWorksOff` | `Work(j)`, the awaits a job may have before it, falls with each of its steps: what is left for `EveryJobEnds` is fairness |
| `SkillFiles_proofs!EditorTypesHold`, `CleanAlwaysOnDisk` | `EditorSpec => []EditorTypeOK`, `EditorSpec => []CleanIsOnDisk` | `EditorInv`. The property says nothing of a file being saved, so it is not inductive: a save whose text was taken before an edit would make it false. For a file that is not `crossed` the invariant adds that its save is the only one, of the only session with the file open, and nobody reads (`SavedAlone`); that what is written is what is shown (`SavedAsShown`); and that what an opening has read is still on the disk (`ReadFromDisk`). A late write may come between any two steps of a save: what the save has made of the disk (`OnDisk`) is claimed only of files that are not `overwritten`, and lost for good with the write that comes too late |
| `SkillFiles_proofs!MarksAreKept` | `EditorSpec => UnsavedMarkIsKept` | only `MarkSaved` clears a mark, and only for the file object the save began with |
| `SkillFiles_proofs!CloseAlwaysWorksOff` | `EditorSpec => CloseWorksOff` | the list that `close_session` made only shrinks, and no save of it begins without dropping a file: the variant behind `CloseSessionEnds` |
| `SkillFiles_proofs!EditsAlwaysPending` | `EditorSpec => []EditsPending` | with auto-save on, a file that is open, modified, not `crossed` and not refused by the syntax check has an auto-save waiting or a save under way (`Pending`). Inductive with `EditorInv`: that the save that ends was of the only opening (`SavedAlone`) is why its end takes the mark with it. The safety half of `AutoSaveCatchesUp` |
| `LevelCache_proofs!SettledHolds` | `Spec => []SettledSticks` | `SInv`: a call that is alone on its key stays alone until another begins, and what it has written so far is what the levels have |
| `LevelCache_proofs!CacheTypesHold` | `Spec => []TypeOK` | the memory and its order have the same keys, each once, and no more than the limit, under every policy that evicts. Lemmas on sequences without repetitions say what removing a place, removing a key and appending do to them |
| `LevelCache_proofs!CacheKeepsPromise` | `Spec => ImplementsVolatileCache` | each step shows as `Forget`, `Put` or `Answer`, since what a process may be told only grows by what is put |
| `LevelCache_proofs!CalmBringsNothingStale` | `Spec => NothingGetsStaler` | while nobody writes and no process is frozen, what a process has of a key that Redis does not have (`Stale`, in its memory and in the answers its reads hold) only gets less, unless the entry expires in Redis: a promotion brings what a read held already, a read what Redis has. The safety half of `Converges` |
| `FileEvents_proofs!TypesHold`, `EventsInTurn` | `Spec => []TypeOK`, `Spec => []OneAfterTheOther` | `Orderly`: unless a start overtook a stop, at most one worker has not ended, and only its event is in hand |
| `FileEvents_proofs!WorkersAlwaysGetOn`, `StopsAlwaysDrawNear` | `Spec => [](~overlapped => WorkerGetsOn)`, `Spec => StopsDrawNear` | `HandingOn` on top of `Orderly`: who waits for room was called by the event in hand (`PuttersWait`), the handlers of a cancelled worker were told (`HandlersTold`), and a worker that somebody stops waits for no event (`StoppedLeave`). Only a handler that puts into the full queue is waited for in vain. The safety half of `EveryoneGetsOn` |
| `SkillSocket_proofs!TypesHold` | `Spec => []TypeOK` | `IInv` with `IdleBounded`: the cap on `idle` needs that a connection in the table is beyond the timeout only while the monitor is due |
| `SkillSocket_proofs!IndexesAlwaysAgree` | `Spec => []IndexesAgree` | the same `IInv`, with `NewIsBlank`: a connection that has not been accepted has no subscriptions yet, so that entering it changes no skill's index |
| `SkillSocket_proofs!BroadcastsStayInOrder` | `Spec => []BroadcastsInOrder` | a target that stays connected and up has the broadcast or will be sent it (`StayersServed`), once (`SentOnce`), since only clients that have left are marked inactive (`InactiveHasLeft`) and no other send or disconnect takes it off the list. The safety half of `BroadcastReaches` |
| `Platform_proofs!TypesHold` | `Spec => []TypeOK` | inductive; that a retry's count stays below the limit is `CanRetry`'s guard |
| `Platform_proofs!AlwaysAccounted` | `Spec => []Accounted` | `IInv`: a cancellation only succeeds for what was asked for |
| `Platform_proofs!RetriesOnlyFailed` | `Spec => RetryOnlyFailed` | `IInv` again, with `Undisturbed`: what nobody tried to cancel is completed only by its own execution, and shows success if the platform carried it out |
| `Platform_proofs!SlotsAlwaysMatch` | `Spec => []SlotsMatchExecutions` | the free slots of a batch and its executions make up its bound: `Begin` takes a slot and adds an execution, `Reported` and `Raise` give the slot back and remove one, and every other step, cancellations included, leaves both; cardinalities of finite sets. So a batch never runs more than its bound at a time |
| `Platform_proofs!StatsAlwaysAddUp` | `Spec => []StatsAddUp` | the counters are cardinalities of the history sets; each step adds an element that was not there |
| `Platform_proofs!ExecutionsAlwaysGoOn` | `Spec => ExecutionsGoOn` | the places of an execution in their order: no step, of the execution, a batch, a retry or a cancellation, sets one back. The variant behind `EveryExecutionEnds` |
| `Platform_proofs!MonitorTypesHold`, `AlertsAlwaysMatch` | `MonitorSpec => []MonitorTypeOK`, `MonitorSpec => []AlertsMatchStatus` | `MonitorInv`, with `AlertsFollow`: the property speaks of platforms whose checks are through, and is not inductive. As soon as no check has yet to look at the alerts they fit the status, but for a degraded alert that a check is about to resolve after its handlers. `LoopsGather`: a loop that was told to stop, or does not gather results, has no check under way |
| `Platform_proofs!AlwaysMonitoredByOne` | `MonitorSpec => []MonitoredByOne` | `LoopsInTurn`: loops are begun one after the other and cancelled ones are over when monitoring goes on, unless a start overtook a stop |

Every invariant and every action property of the runs is stated by one of these
theorems. What they assume of the constants is little more than their types; the
monitor's proofs also need that a client is not one of the loops
(`Clients \cap Loops = {}`), since a check is known by who makes it.

Only model-checked, because the prover cannot express it: the liveness
properties and the fairness they rest on (`EventuallySettled`,
`EveryCallReturns`, `RollbackReturns`, `AutoSaveCatchesUp`, `CloseSessionEnds`,
`BroadcastReaches`, `FailedIsForgotten`, `EveryExecutionEnds`, `Converges`,
`EveryJobEnds`, `EveryoneGetsOn`, `AlertsCatchUp`). For most of them the safety half
of the argument is proved: the state always holds what is needed to go on
(`EveryCallReturns`, `AutoSaveCatchesUp`, `BroadcastReaches`, `EveryoneGetsOn`), or each
step takes its job, execution, batch or closing session nearer to the end
(`EveryJobEnds`, `EveryExecutionEnds`, `EventuallySettled`, `CloseSessionEnds`) or
leaves what is wrong no greater (`Converges`). For
`FailedIsForgotten` it is `IdleBounded`, for `AlertsCatchUp` it is `AlertsMatchStatus`
and `MonitoredByOne`. That fairness turns this into an end is TLC's to check.

## 6. What the models leave out

Payloads, texts, logging, statistics that nobody reads back, and listings.
Write and read errors of the editor's files. The second and later registration
of the same event handler. Python-level failures (out of memory, cancellation of
a coroutine from outside, except where the code itself cancels). The WebSocket
library and Redis are modelled from how the code uses them: a send returns,
raises or hangs; a command is atomic; a pipeline is a transaction. Of the monitor
the history of resolved alerts, of the file events the statistics and the functions
that keep one manager for the process.

Not modelled although it has state: the storage manager and its versions. Their
tables are declared on three separate declarative bases with relationships that name
no foreign key, so that SQLAlchemy refuses to configure the mappers; every query
raises an SQLAlchemyError, which `_get_skill` and `_get_file` turn into "not found",
and no operation reaches its body except with sessions that are mocks. The file
manager, editor, versions, batches and transfers cannot be imported (section 1), and
neither can the progress manager, tracker, log manager, notification manager, rule
engine, visualisation and resource manager, which import names that do not exist.
The HTTP routes, Celery tasks, adapters, validators and converters, about half of
the source, call one operation each or transform data without control.

## 7. Plan

Done: the queue, the skill subsystem's concurrent core with the importer, the
multi-level cache, the file events, the deployer and the monitor, with all their
safety properties proved.

Left, in this order (each with its MC module, runs and, where the property is
inductive, a proof):

1. `EventBus` (progress event bus): delivery under nested timeouts, retries.
2. The second queue (`progress/message_queue.py`) as a variant of RedisQueue with
   one sorted set, and its in-memory cache.
3. `DatabasePool`, `ConnectionPool` (thread locks, concurrent initialisation).
4. Analytics' `detect_cycles` as an algorithm against its definition.
5. When they can be loaded: the file editor's sessions, upload sessions, batch jobs,
   the progress manager, storage with its two stores.

Proofs worth having next come with these modules: that the two pools never hand out
a connection twice or more than their maximum, and that the second queue implements
`WorkQueue` as the first one does.
