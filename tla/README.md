# A TLA+ model of Restream_Plus

Restream_Plus takes one RTMP stream from OBS, republishes it through a local
nginx, and pushes it to several platforms at once, one `ffmpeg` process per
platform endpoint. A FastAPI control plane starts and stops runs, keeps targets
and credentials in SQLite, supervises the `ffmpeg` processes and reports their
health to a browser.

The project models the parts that are hard to test: the supervisor, its workers,
their state machines and reconnect policy, and the requests that race through
them; the stream of status events to the browser; the keys that protect the
credentials, and their rotation; and the access of the administrator. Everything
is asyncio on one event loop, so a task runs without interruption from one `await`
that really yields to the next; the modules take exactly those stretches as their
atomic steps.

Paths below are relative to `src/`.

## 1. Inventory

| Component | State | Operations | Talks to | Hard because |
|---|---|---|---|---|
| Worker state machine `app/domain/worker_state.py` | none (a table) | `transition` | worker | two tasks drive one machine |
| Run state machine `app/domain/run_state.py` | none (a table) | `transition` | supervisor, run API | webhooks move it without the lock |
| Circuit breaker, backoff `app/domain/circuit_breaker.py`, `app/fanout/backoff.py` | deque of failure times, healthy clock | `record_failure`, `record_healthy`, `should_open`, `reset`, `compute_backoff` | worker | lazy eviction, window edges, constants tuned apart |
| FFmpeg worker `app/fanout/ffmpeg_worker.py` | `_state`, `_attempt`, breaker, process, stop and reset flags, event channel | `start`, `stop`, `user_reset`, the lifecycle loop, four pump tasks | process spawner, supervisor | five tasks, a bounded channel, cancellation, signals that may be ignored |
| Supervisor `app/fanout/supervisor.py` | `_run_state`, `_lock`, `_targets`, `_workers`, `_target_to_workers`, `_registered_secrets`, `_current_run_id` | `start_run`, `stop_run`, `enable_target`, `disable_target`, `notify_obs_*`, event pump | workers, database, registry, bus | awaits under the lock, reads before the lock, partial failure |
| Run API `app/api/run.py` | none | START, STOP: check, answer 202, schedule the task | supervisor | the check is stale when the task runs |
| Targets API `app/api/targets.py` | database rows | create, update, delete, set / clear credential | supervisor after the commit, DELETE before it | the call comes some awaits after the commit; DELETE waits for one lock with another in hand |
| RTMP webhooks `app/api/internal_rtmp.py` | none | `on_publish`, `on_publish_done` | supervisor | arrive between any two awaits |
| Credential registry `app/logging_setup.py` | set of secrets | `register`, `unregister` | supervisor, log filter | a set shared by several workers |
| Session history, recovery `app/repositories/sessions_history.py`, `app/db/schema_init.py` | rows with `ended_at` | start, end, recovery at boot | supervisor | failed writes, crashes |
| Event bus `app/fanout/event_bus.py` | bounded deque, drop counter, condition | `put`, `notify`, `drain` | supervisor, broadcaster | drops the oldest; the wake-up is a task of its own |
| WebSocket fan-out and client `app/api/ws.py`, `web/src/lib/ws*.ts` | registry, a bounded queue and an overflow flag per connection; the browser's cache | register, snapshot, broadcast, forward, apply | bus, supervisor, browser | a snapshot racing events, slow and vanished peers |
| Target aggregate, health `app/domain/target.py`, `app/domain/health.py` | last snapshot of each role | `ingest_snapshot`, `ui_state` | supervisor, stream | replaced while workers report |
| Key material `app/auth/key_material.py` | `_state`, derived keys, salt | `unlock`, `verify_passphrase`, `rotate_in_place` | every credential and session | concurrent unlocks |
| Passphrase rotation `app/api/security_api.py` | `.kdf_salt`, `.kdf_salt.new`, `rotation_lock` | rotate | key material, credentials, START | two commits, late writers, crashes |
| Boot `app/main.py`, `app/db/schema_init.py` | schema version, seed rows | bootstrap, seed, recover, serve | database, key material | interrupted first boot |
| Rate limiter `app/auth/rate_limit.py` | failure times per address and per name | `check`, `record_failure` | login | check and record are apart |
| Sessions, login, API tokens `app/auth/sessions.py`, `app/auth/deps.py`, `app/api/auth.py` | rows of users, sessions, tokens; SQLite's write lock | login, rehash, logout, change of the password, revoke | every request | rows read before an await, written after it |
| Re-prompt grants `app/auth/reprompts.py` | grants with scope and time | issue, consume, prune | sensitive requests | single use, expiry |
| Settings, ingest keys `app/api/settings_api.py`, `app/repositories/settings_repo.py` | current and previous key | rotate | webhooks | grace period, a copy taken at boot |
| Progress parser, redaction sink `app/fanout/progress_parser.py`, `app/fanout/redaction.py` | partial lines | feed | pumps | chunk boundaries |

What makes each correct, and where it is stated, is in sections 3 and 4;
`PROJECT.json` lists the hazards line by line.

Not modelled, for good: cryptography and password hashing (library calls; a
ciphertext stands for the keys, a hash for the password, it was made with), URL
composition and `ffmpeg` arguments (string formatting; a URL that is refused is a
member of `BadKeys`), the sampling of host statistics, the extraction of client
addresses, audit rows, wiring and configuration, `.kdf_salt.previous` and its
cleanup (nothing reads its content), and the presentation layer of the web client.
Not modelled yet: section 6.

## 2. Modules

| Module | Models | State and actions |
|---|---|---|
| `WorkerState` | the worker's transition table | `Transition(s, action, verdict)`; its own one-variable specification is the abstract one |
| `RunState` | the run's transition table | likewise |
| `CircuitBreaker` | breaker and backoff | one operator per method, on a record; time is an integer |
| `ReconnectPolicy` | the lifecycle loop's use of both, in real time | `Reject`, `Serve`, `BackOff`, `Retry` |
| `ReconnectPolicyProofs` | theorems about it, and powers of two | |
| `FFmpegWorker` | one worker | one program counter per task, naming the await it is parked at |
| `MCFFmpegWorker` | instances of it | |
| `FFmpegWorkerProofs` | theorems about `FFmpegWorker` | |
| `Supervisor` | supervisor, run and targets API, database rows, registry, webhooks, crash and recovery | one program counter per request |
| `MCSupervisor` | instances of it | symmetry of the requests |
| `SupervisorProofs` | theorems about it with every operation and fault | |
| `SupervisorRunProofs` | ... where no handler enables a target | |
| `SupervisorSerialProofs` | ... where requests come one at a time | |
| `RunFeed` | abstract: what the stream promises a dashboard about the run state | `Connect`, `Move`, `Lose`, `Show`, `Cut`, `Close` |
| `StatusStream` | event bus, broadcaster, `/ws` handler, reducer, target aggregate | one program counter per connection; a frame is a record of the fields it carries |
| `StatusStreamProofs` | theorems about it, what a sequence of frames says in the end, and which run states it holds | |
| `KeyVault` | boot, key material, credential writes, passphrase rotation, START's gate | disk, process and database variables, one record per request |
| `KeyVaultProofs` | theorems about it | |
| `AdminAccess` | limiter, login, sessions, tokens, grants, change of the password | one record per login, one program counter per authenticated request |
| `MCAdminAccess` | its instance | symmetry of logins, requests and addresses |
| `AdminAccessProofs` | theorems about it, and about pruned buckets | |

`FFmpegWorker` instantiates `WorkerState` with its own `state`, and `Supervisor`
instantiates `RunState` with `runState`: the same operator is used to move and to
state the refinement. `ReconnectPolicy` is a second view of the worker: where
`FFmpegWorker` abstracts time (a failure may leave the window at any moment,
sixty seconds of health may have passed at any frame), it keeps time and
abstracts the tasks.

Correspondence, `FFmpegWorker`:

* `lc` is the lifecycle task. `set_*` are the awaits inside `_set_state`: the table
  is asked when a task parks there, `lcNew` and `pumpNew` keep what it granted to the
  lifecycle and to the stdout pump, and the step that leaves the await announces and assigns
  that, whatever the state has become. `crashed` is a lifecycle that ended by the exception
  of `compute_backoff`. `spawn` is the spawner's await, in
  which the child already exists and `_process` is still `None`; `pumps` the
  `TaskGroup`; `wait_reset` and `backoff` the two waits.
* `pump`, `stall` are the tasks of the group, `stopper` a caller inside `stop()`, who
  gets the exception of a crashed lifecycle (`raised`).
* `os`, `sig` are the process as the operating system sees it; `held` is
  `_process is not None`. ffmpeg exits when it pleases; only SIGKILL binds it.
* `pending`, `seen` are the bounded channel and the last snapshot the
  supervisor's pump took (`Drain`).
* `attempt` is bounded by the attempt whose power of two does not fit a float
  (`MaxAttempt`, 1024 in the code); `failures` counts what the breaker's window holds.

Correspondence, `Supervisor`: `queue` is the `asyncio.Lock`, first come, first
served, taken without yielding when free; `pc[k]` is the await of request `k` and
`loc[k]` its locals; `row`, `cred`, `openRows` are the database; `workers` maps a
running worker to its key. `curRun` is `_current_run_id`: `none`, or the id of a row that
is `open`, or of one whose transaction did not commit (`unsaved`).

SQLite's write lock is taken by every authenticated request (`touch_last_seen`) and kept
to its commit. Only DELETE awaits anything but the database in between, the supervisor's
lock, so it alone is seen holding the write lock (`Deleting`); the reads and
writes of any other request up to its commit are one step, which waits for the lock to be free. A write
by anyone else waits too, and fails when the wait exceeds `busy_timeout`, which it
may while the DELETE is waiting for the supervisor (`WriteFails`). No fault has to be
switched on for that. `Faults` switches on failing writes, decryptions,
worker stops, and crashes; `Ops` restricts what users do. `used` is a history
variable: the credential rows some worker has pushed with.

Correspondence, `StatusStream`: `buf`, `dropped` are the bus, `notify` a scheduled
`bus.notify()` task, `drainer` the broadcaster's task; the broadcaster does not
yield between taking a batch and the last `put_nowait`, so `Broadcast` is one step.
A handler is parked in `send` (the peer or the network is slow) or in `get` (its
queue is empty), and `Loop` is what it does from one to the next. `view` is the
browser's cache, to which `Sent` applies the frame as `wsReducer.ts` does.
`base` is a history variable: the drop counter the snapshot carried. `Feed` maps
this onto `RunFeed`: what is ahead of a connection is the frame it is sending, its
queue and the bus.

Correspondence, `KeyVault`: keys are the pair of a passphrase and a salt, salts are
numbered as they are drawn, and `cred`, `session` hold the keys a row was made
with. `saltFile`, `newFile` are the two files; `km` is `KeyMaterial`; `asked` and
`deriving` its lock. A request takes the keys of the process in its dependencies
(`Begin`), waits for SQLite's write lock with its first UPDATE (`Touch`) and
goes on with the keys it took. `Crash` is possible at every step. `pass`, `torn`,
`late`, `retried`, `raced` are history variables that name the windows the
properties except: a rotation that stopped between its commit and its rename, a row
written with keys that had been replaced, a rotation repeated in that state, a START
accepted just before a rotation took its lock.

Correspondence, `AdminAccess`: `byIp`, `byName` are the limiter's buckets; `login[a]`
is the user a login read and the password it verifies, in a thread, before it
writes; `req[x]` is an authenticated request before, and within, its hold of
SQLite's write lock. Time is a clock both the limiter, the sessions and the grants
are measured by, in whole units, on which the rounding up of Retry-After does nothing. An
expired session is deleted for good by the WebSocket upgrade (`ReapExpired`); what
`verify_cookie` deletes is rolled back with the request it refuses. `chosen`, `reverted`, `issued`, `uses` and the flags `raced` are
history.

Operators called `X_...` in front of `X` are seeded bugs: each is a plausible
mistake in the code `X` models, and a property of some run rejects it.

## 3. Runs

| Run | Checks | Instance |
|---|---|---|
| `worker_lifecycle` | type; the breaker is respected; a lifecycle that ends leaves no process; no move is refused; no change goes unannounced; no spawn after `stop()`; refinement of `WorkerState`; `stop()` returns with nobody draining; with the events drained an exit is noticed and Retry works | 3 failures, the third backoff overflows, channel of 2: 75,473 states |
| `worker_orphan` | *violated*: `stop()` leaves no ffmpeg alive without SIGKILL | 2 failures, the second backoff overflows, channel of 1 |
| `reconnect_window` | the deque equals the sliding window at every verdict, whatever rejections, services and jitter came before | 4 failures in 30 units, 7 healthy units, delays 2 to 10, the sixth backoff overflows, both ends of the jitter: 726 states |
| `reconnect_rejected` | *violated*: a target that rejects every push trips the breaker | the shipped constants in units of 200 ms: 89,781 states |
| `supervisor_races` | type; lock discipline; no refused run move; no orphan secret; refinement of `RunState` | 3 requests of 6 kinds on a target with backup: 166,327 states |
| `supervisor_faults` | a run that is on has an open history row, and the id of a row that was never committed goes with the failed start; every call returns; STOPPING ends in OFFLINE and STARTING is left | 2 requests, DELETE among them, every fault: 214,339 states |
| `supervisor_settled` | nothing pushes outside a run; used VK keys are wiped; the worker index is exact; what runs is what is configured | 3 requests that start, stop, create and clear, two targets, a refused key: 66,842 states |
| `supervisor_kept_key` | *violated*: used VK keys are wiped, once another target is deleted during a run | 2 requests on two targets, no fault |
| `supervisor_late_enable` | *violated*: nothing pushes outside a run, once a request enables during one | 3 requests |
| `status_stream` | type; a dashboard converges to the truth; refinement of `RunFeed`; a live run is shown; a connection that overflowed or whose peer has left ends; whoever may have missed an event is cut off | 1 connection, bus of 2, queue of 1, 1 drop: 324,324 states |
| `vault_keys` | type; memory and salt file agree; one key opens all rows; an interrupted rotation is recoverable; a run overlaps a rotation only by one window; ready is for good | 2 passphrases, 2 targets, 1 writer, 2 rotations, 3 salts, 1 crash: 2,094,905 states |
| `admin_access` | type; guesses are bounded; Retry-After suffices; the password is the chosen one and its change ends sessions; a grant serves once | 2 logins from 2 addresses under 2 names, 2 requests, limit 1: 919,600 states |

Bounds. The worker's constants matter only through their boundaries: the
failure that opens the breaker, the attempt that overflows, the event that finds
the channel full, and one on each side of them; `worker_lifecycle` has all of them, and the
theorems hold for every value. Three requests are what the queue of the lock
needs to have a holder and two waiters in either order; every race found takes
two or three. One target suffices for races within a target, two for what
one target's failure does to another. `MaxOpenRows` only stops START from
opening history rows without end when closing fails. In `StatusStream` connections
do not touch each other, so one is enough; a bus of 2 over a queue of 1 keeps the
one relation of the real sizes (10,000 over 256) that matters, that a full bus is
more than a queue holds, and gives a batch that fits, one that does not, and a drop.
`KeyVault` needs two rotations for one to be refused, to follow or to repeat the
other, with a salt for each beside the first; `AdminAccess` two logins past one check,
and a clock that runs over the end of the window, of a grant and of a session.

Fairness. In `FFmpegWorker` the event loop runs every task it can (weak fairness
of the lifecycle, of the pumps' sends and of the timeouts in `stop()`); a sender
parked on the channel is strongly fair because anyio serves waiting senders in
order; the end of output is strongly fair because only finitely much is buffered
behind an exit. The supervisor's pump owes nothing (it awaits the database): the
properties that need it take `WF(Drain)` as a premise. ffmpeg owes nothing but to
die of SIGKILL; users owe nothing. In `Supervisor` every task that can run is
run; an `asyncio.Lock` being a queue, no stronger fairness is needed. Requests,
OBS, faults and crashes are never required. In `StatusStream` the event loop runs
what is due, the two periodic loops tick, and a send ends, because the peer takes
the frame or the server's keepalive gives it up; nobody has to connect or to leave.
`KeyVault` and `AdminAccess` state safety only
and assume no fairness. Deadlock is checked everywhere.

## 4. Proofs

Every safety property and every refinement a run checks is also a theorem: TLC checks it on a small instance, the proof covers every value of the constants.
What a theorem assumes besides the assumptions on the constants is written in its
`ASSUME`, and below.

| Module | Theorems | For every |
|---|---|---|
| `FFmpegWorkerProofs` | the safety properties of `worker_lifecycle`; a lifecycle that ends, by `stop()` or by an overflow, leaves no process (`EndsClean`); FAILED_OPEN is left for STARTING only on an emptied breaker (`ResetNeedsUser`); `WorkerState` is implemented | breaker limit, overflowing attempt, channel size |
| `ReconnectPolicyProofs` | `WindowIsExact` | policy, backoff schedule, rejections and services |
| `SupervisorProofs` | `TypeCorrect`, `LockWorks`, `RunMovesAccepted`, `NoSecretOrphaned`, `SessionsTrackRuns`; a transient state has a task that will leave it (`NoTransientAbandoned`); the index never names a worker that is gone (`NoDanglingIndex`); `RunState` is implemented, up to crashes (`RefinesBetweenCrashes`) and as a whole without them (`RefinesRunStateMachine`) | targets, keys, requests, operations and faults |
| `SupervisorRunProofs` | `NoWorkerOutlivesRun`, `IndexComplete`, `SingleUseKeysWiped`; exactly one row is open during a run (`OneOpenRow`) | targets, keys and requests, under the hypotheses below |
| `SupervisorSerialProofs` | `WorkersAreThoseConfigured` | targets and keys, under the hypotheses below |
| `StatusStreamProofs` | `TypeCorrect`, `TruthIsOnTheWay`; `RunFeed` is implemented (`RefinesFeed`) | clients, roles, capacities and number of drops |
| `KeyVaultProofs` | `TypeCorrect`, `KeysAreThoseOnDisk`, `PassphraseOpensAll`, `TornSaltKept`, `OnlyTheWindow`, `ReadyStays` | passphrases, targets, requests, salts and crashes |
| `AdminAccessProofs` | `TypeCorrect`, `GuessesAreBounded`, `RetryAfterSuffices`, `ChangesTakeHold`, `GrantsServeOnce` | limit, window, life times, passwords, users, requests and finite number of logins |

The assumptions on constants are that limits, windows and capacities are above
zero, that the queue of a connection is shorter than the bus (256 and 10,000), that
`None` is none of the things it is told apart from (`NoneAssumption`), that
logins are finitely many, so that they can be counted, and that a request that sets a
credential is not one that rotates.

None of the invariants is inductive alone; each module has an `IInv` that is.
`InitInv` and `NextInv` show it so, one step or lemma per action. TLC found what was missing
from most of these invariants before they were proved.

**The worker.** The failure count stays within its bound not because
`record_failure` limits it but because a lifecycle that is about to spawn holds fewer
than `max_failures`, which depends on the verdict computed one or two awaits
earlier still being that of the deque, which depends on `user_reset()` being possible
only in FAILED_OPEN. `IInv` says, beside `TypeOK` and two of the properties, in which
states each await of the lifecycle can be (`Where`), what verdict and failure
count say of each other there (`Breaker`), when a process exists, is held and is alive
(`Process`), that what the table granted before an await of `_set_state` is what it would
grant of the state as it is there (`Moves`), that the pumps run at the pump await only and
still find the state they read (`Pumped`), and how far `stop()` is against the flag it set (`Stopping`). The
action properties and the refinement follow step by step: a step that leaves such an await
assigns a move granted earlier, and `Moves` makes it one of the table's now. Its heart is that
no two tasks are ever parked in `_set_state` together, because the pumps run only while the
lifecycle awaits their group.

**The reconnect policy.** The deque is popped at some moments, the window slides all
the time. `IInv` says that the times in the deque increase strictly, so that its length
is a number of failures (`Ordered`), that those within the window are what failed
within it (`WindowHeld`), and that the last verdict was about the deque as it is
(`Judged`). Increasing times need every backoff to last, hence that the
delay is positive, hence that powers of two are: `Pow2Def` shows that the recursive
function `Pow2` exists, by the least number at which it would not.

**The supervisor.** First the lock: what each action does to the queue is to join,
leave, do both or neither, and each keeps `LockDiscipline`, whatever fails. With it a
task inside is alone there, so that what it found when it parked still holds when it
goes on: where `start_run` and `stop_run` are parked the run is in the state they put it
in, the webhooks' moves being refused or harmless there (`RunHeld`); STARTING and
STOPPING have a task that will leave them (`TransientsOwned`); a session belongs to a run
or to the task that gives it up, and there is none before `start_run` has opened it
(`SessionHeld`); index and registry speak of running
workers (`WorkersInv`). The refinement is shown action by action; a crash takes the
run to OFFLINE, which the state machine of the domain layer has no move for, so the
theorem about the whole of `Spec` assumes that there is none.

*Nothing outlives a run* needs the hypothesis that no handler enables a target
(`Ops \cap Enabling = {}`): `supervisor_late_enable` shows what happens otherwise. It
also needs worker stops that do not raise: `stop_run` goes on to OFFLINE after one that
does, and leaves the workers it did not reach. `SingleUseKeysWiped` needs in addition
that writes succeed and that the process does not crash, because the wipe is a write at the
end of a run; and that nobody deletes a target (`"delete" \notin Ops`), because a DELETE
makes that write fail where nothing else does: `supervisor_kept_key`. `OneOpenRow` has the
same two hypotheses about writes and DELETE, and no other. Failing writes, DELETE and
crashes are allowed elsewhere. `RunInv` adds
that no task is on its way to `enable_target` and that nothing runs where
`start_run` has yet to spawn and `stop_run` has drained.

*What runs is what is configured* holds of one request at a time (`Tasks = {k}`): the
races that break it otherwise are in section 5. It leaves out replacing a key
(a running worker keeps the old one), failing calls, and keys whose URL is refused,
after which a target that is configured does not run; crashes are
allowed, and OBS and the state machine go on meanwhile. `TaskInv` says of each
await what holds of the target the request is about, and that it holds of all
others. `supervisor_settled` checks the same property with three requests at a time, of the
kinds for which it holds.

**The status stream.** What a dashboard shows in the end is decided by the last
frame on its way that carries the field. `Says` and `Silent` speak of that for one
sequence, with lemmas for a frame that is appended, taken off and passed from one
sequence to the next; `Ends` for the chain of bus, queue, frame being sent
and view. `IInv` says that the bus never ends in a lie (`Current`) and that the chain of
each live connection ends in the truth, or a drop has happened since its snapshot and
the bus is still full (`Truth`), so that the batch to come is larger than the queue. That is
what `QueueCapacity < BusCapacity` is for.

`RunFeed` sees of the frames on their way only the run states they carry (`RunsOf`). The
refinement takes them apart where the frames are (`Way`: being sent, in the queue, on the
bus), which needs that the run states of two sequences one after the other are those of
the first and then those of the second. Without recursion this is a matter of counting:
a frame's place among the run states is the number of carriers up to it, its `Rank`
(`RunsConcat`). Step by step: a new run state is a `Move`, or with a full bus a `Lose`, in
which the head of the bus goes, whether it carries a run state or not; a broadcast leaves of
what is on the way all of it or, when a queue overflows, a beginning (`Cut`); a frame that
arrives is a `Show` or nothing. That a connection starts with the truth and ends in it,
older events notwithstanding, is `Current` (`AcceptShows`).

**The vault.** A process that does not serve has begun nothing (`NotServing`); its
salt is the one on disk, and there before any credential (`SaltHeld`); who is at
which await holds which lock, and has found the process ready (`LocksHeld`); what a
rotation has staged, read and rewrapped at each await (`RotationHeld`): in
particular, the rows it has yet to do and the rows it will never do, those
written `late`. `ReadyForGood` is an action property and follows action by action.

**Access.** A guess is counted when it fails and tested for when it comes in, so
the bound must count the guesses under way too (`GuessesHeld`), over buckets that are
in the order of time (`BucketsHeld`); the lemmas about `Pruned` say that it
keeps a suffix, that what it drops is out of the window, and that time only shortens
it. A login that no change has overtaken holds the chosen password (`ChosenHeld`), and a
grant that can still be shown has let nothing through (`GrantsHeld`).

Model-checked only: all liveness, fairness and `ENABLED` being outside the prover
(`StopReturns`, `ExitNoticed`, `RetryWorks`, `EveryCallReturns`, `TransientsEnd`,
`LiveIsShown`, `DeadEnds`, `DropCuts`).

## 5. Deviations

Backed by a run and listed as findings: an orphaned ffmpeg after `stop()`, a
breaker that a rejecting target never trips, an enable behind a stop that spawns
into an OFFLINE run, and a single-use key that survives its run because a DELETE kept its
wipe from the database.

Met while modelling, most of them as counterexamples of TLC to a property that had
to be weakened, and not kept as runs. The supervisor and its workers:

* `app/logging_setup.py:102`: the registry is a set without a count. The two workers of
  a target share a key, and the teardown of the first unregisters it while the second runs.
* `app/fanout/supervisor.py:461`: `set_credential` on a running target leaves its workers
  on the old key, because workers that exist are skipped; the docstring at
  `app/api/targets.py:296` says otherwise.
* `app/fanout/ffmpeg_worker.py:335` clears the reset event on entering FAILED_OPEN; a `stop()`
  during the announcement is forgotten and the lifecycle sleeps until cancelled
  (`StopReturns` holds all the same).
* `app/fanout/ffmpeg_worker.py:556`: the stall watcher sends one SIGTERM and ends; an ffmpeg
  that ignores it stays stalled.
* `app/fanout/ffmpeg_worker.py:492`: the attempt counter is zeroed by the first frame of a
  reconnect; ADR-0003 (lines 159 and 268) says after 60 s of health. A platform that takes
  every push for one frame is retried after a second each time, until the breaker opens. The
  reset follows the code in `FrameRunning` and `Serve`, and no property speaks for it.
* `app/fanout/backoff.py:51`: `2 ** attempt` times a float raises `OverflowError` at the
  1025th attempt in a row. The lifecycle ends in RECONNECTING (`crashed`), a Retry click
  does nothing there, and `stop()` raises what the lifecycle raised. Only a frame
  or a Retry click resets the counter, so a platform that rejects every push gets there in
  some 17 hours.
* `app/api/targets.py:259`: DELETE stops the workers before it deletes the row. A START
  cannot come in between, as its first write waits for the DELETE; the enable of a PATCH that
  waits for the supervisor's lock behind the DELETE can, reads the row before the delete
  commits, and leaves a deleted target pushing.
* `app/api/targets.py:207`: a handler tells the supervisor some awaits after its commit. Two
  PATCHes may commit in one order and act in the other; and when its audit write times out
  behind a DELETE a request answers with an error and does not tell it at all.
* `app/db/schema_init.py:363`: recovery closes the rows of a crashed run and keeps its
  single-use VK key.
* `app/fanout/supervisor.py:643`: a failed close leaves its history row open beside the next
  run's until the next boot recovers it; `app/repositories/sessions_history.py:125` says at
  most one row is open at any time.
* `app/fanout/supervisor.py:303`: nothing performs `error_cleared`; ERROR ends with the process.
* `app/fanout/supervisor.py:400`: OBS publishing before START leaves the run ARMED.
* `app/fanout/supervisor.py:232`: shutdown stops a run it sees; a START that is scheduled
  and has not run is not waited for (read in the code, not modelled).

The status stream:

* A drop on the bus means that the next batch is larger than any queue: every dashboard that
  was connected is closed with 1011 and comes back to a snapshot (`DropCuts`). The
  `bus.drop_alert` event reaches only those that missed nothing.
* A revoked session or a changed password does not close its WebSocket.
* `web/src/lib/ws.ts:139`: `onclose` of an old socket, after `disconnect()` and
  `connect()`, nulls the reference to the new one and opens a second (read in the code).
* `web/src/components/HeroCard.tsx:87`: the refetch of the run state after a refused START
  may overwrite a newer event (read in the code).

Keys and boot:

* `app/api/security_api.py:295`: after a crash between the commit and the rename, the
  new salt is in `.kdf_salt.new` only, and a second attempt to rotate overwrites it, or
  unlinks it when it fails (`retried` in `TornIsRecoverable`). No code reads that file at boot.
* `app/api/security_api.py:303`: the note logged when the rename fails says a restart with
  the new passphrase reads the new ciphertexts; the salt on disk is still the old one
  and the handler unlinks the new one. The salts are in that log line.
* `app/api/targets.py:305`: a credential encrypted before a rotation and written after
  it can be opened by no key (`late` in `OneKeyOpensAll`).
* `app/api/run.py:124`: START tests `rotation_lock` and then schedules `start_run`, which
  waits for the control lock: a rotation may begin in between, although
  `app/auth/deps.py:128` says the lock prevents it (`raced` in `OverlapOnlyByWindow`).
* `app/api/auth.py:376`: `/api/unlock` accepts any passphrase; a wrong one gives a process
  that is ready and opens nothing.
* `app/db/schema_init.py:264`: a first boot interrupted before its seed rows makes every later
  boot fail: a version is found, the seed rows are not.

Access:

* `app/api/auth.py:160`: the background rehash, "Idempotent under concurrent logins", stores the
  password of the login even if it has been changed meanwhile (`reverted` in `ChangeTakesHold`).
* `app/auth/sessions.py:405`: whether the commit of a login comes before or after its
  background rehash is the framework's choice (the exit of a dependency). Both orders are
  modelled: where the session row is still uncommitted the rehash waits for its own login's
  write lock and fails (`RehashFails`).
* `app/api/auth.py:271`: a login that read the user before a change of the password keeps the
  session it inserts after it (`raced` in `ChangeTakesHold`); the change and the
  re-prompt verify against the hash read before their wait for the write lock.
* `app/auth/rate_limit.py:142`: when concurrent logins have pushed a bucket over its limit,
  the wait announced ends before a slot is free.
* Grants survive logout and a change of the password until they expire; the limiter keeps a
  key per address for the life of the process.
* `app/api/internal_rtmp.py:98` against `app/repositories/settings_repo.py:93`: the previous
  ingest key is accepted after its grace period (read in the code, not modelled).
* `app/main.py:348`: workers pull the stream of the key read at boot; once OBS publishes under
  a rotated key, the run is LIVE and no worker reads the stream until a restart, where
  `app/main.py:549` speaks of the grace window only (read in the code, not modelled).

## 6. Plan

Done: the worker with its proofs, the reconnect policy, the supervisor with the
requests that drive it, the status stream with its refinement, the key vault, the
administrator's access, and the proofs of their safety properties. Next, in this order:

1. `IngestKeys`: rotation, grace period, the webhooks' key check, and the copy of
   the key that workers were given at boot.
2. The shutdown of the supervisor against scheduled tasks, with the heartbeat.
3. The connection logic of `ws.ts` and the REST side of the client cache.
4. The progress parser and the redaction sink over short chunked inputs.
5. The proofs of their invariants.
