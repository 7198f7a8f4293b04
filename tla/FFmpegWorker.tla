---------------------------- MODULE FFmpegWorker ----------------------------
(***************************************************************************)
(* One FFmpegWorker (app/fanout/ffmpeg_worker.py): the lifecycle task that *)
(* respawns ffmpeg until stopped, the pump tasks it runs around a live     *)
(* process, and the stop() and user_reset() calls that other tasks make.   *)
(*                                                                         *)
(* asyncio is cooperative: a task runs without interruption from one await *)
(* that really yields to the next.  One action is one such stretch, and    *)
(* the program counters name the await a task is parked at:                *)
(*   lc    the lifecycle task          pump   stdout and stderr pumps      *)
(*   stall the stall watcher           stopper  the caller inside stop()   *)
(* _wait_for_exit only waits for the process, so the join of the pump      *)
(* TaskGroup asks for os = "exited" instead of giving it a counter.        *)
(***************************************************************************)
EXTENDS Naturals

CONSTANTS
  MaxFailures,  \* CircuitBreakerPolicy.max_failures
  MaxAttempt,   \* the attempt for which 2 ** attempt is beyond a float: 1024
  ChanCap       \* EVENT_CHANNEL_BUFFER

ASSUME WorkerAssumption ==
  /\ MaxFailures \in Nat \ {0}
  /\ MaxAttempt \in Nat \ {0}
  /\ ChanCap \in Nat \ {0}

VARIABLES
  state,          \* _state
  attempt,        \* _attempt
  failures,       \* failures the breaker holds within its window
  verdict,        \* the local `verdict` of _lifecycle_loop
  stopRequested,  \* _stop_requested
  resetEvent,     \* _user_reset_event
  held,           \* _process is not None
  os,             \* the ffmpeg process as the operating system knows it
  sig,            \* strongest signal it has been sent
  fresh,          \* last progress frame is younger than _stall_timeout
  lc, pump, stall, stopper,
  lcNew, pumpNew, \* new_state in the _set_state the lifecycle, the stdout pump is in
  pending,        \* events buffered in the worker's channel
  seen            \* state in the last snapshot the supervisor's pump took

brk   == <<attempt, failures, verdict>>
flags == <<stopRequested, resetEvent>>
proc  == <<held, os, sig>>
life  == <<lc, lcNew>>
tasks == <<pump, pumpNew, stall, fresh>>
chan  == <<pending, seen>>
vars  == <<state, brk, flags, proc, tasks, life, stopper, chan>>

WS == INSTANCE WorkerState

Streams   == {"stdout", "stderr"}
Finished  == {"done", "crashed", "cancelled"}
PumpsOff  == [p \in Streams |-> "off"]

-----------------------------------------------------------------------------
(* The event channel.  _emit awaits room in a bounded channel; the pump of *)
(* the supervisor takes an event and reads worker.snapshot() in one step.  *)

\* _emit: send one event.
Send ==
  /\ pending < ChanCap
  /\ pending' = pending + 1
  /\ UNCHANGED seen

\* transition(): the result in a set, or "none" where the table refuses.
Verified(s, a, v) ==
  LET to == WS!Transition(s, a, v) IN IF to = {} THEN {"none"} ELSE to

\* Seeded bug: assigns without announcing.
SetState_Silent(new) ==
  /\ UNCHANGED chan
  /\ IF new = "none" THEN UNCHANGED state ELSE state' = new

\* _set_state (and _apply_reconnect_verdict) from its await on.  The table was
\* asked before it: what it granted then is announced and now assigned, whatever
\* the state has become; a refused move is neither.
SetState(new) ==
  IF new = "none" THEN UNCHANGED <<state, chan>> ELSE Send /\ state' = new

-----------------------------------------------------------------------------
(* The lifecycle task.  The operators up to AfterSpawn are the ends of a   *)
(* stretch: they decide at which await the task parks next.                *)

\* The action of the _set_state the lifecycle awaits at pc.
Asks(at) ==
  CASE at = "set_starting"     -> "start"
    [] at = "set_reconnecting" -> "process_exited"
    [] at = "set_failed_open"  -> "reconnect"
    [] at = "set_restarting"   -> "user_reset"
    [] at = "set_stopping"     -> "stop_requested"
    [] at = "set_idle"         -> "stopped"
    [] OTHER                   -> "nothing"

\* The lifecycle parks at `to` in state s, with verdict v; in front of the await
\* of a _set_state it asks the table.
LcTo(to, s, v) == lc' = to /\ lcNew' \in Verified(s, Asks(to), v)

\* Behind the loop, in state s: STOPPING first, then IDLE.
AfterLoop(s) ==
  CASE s = "stopping" -> "set_idle"
    [] s = "idle"     -> "done"
    [] OTHER          -> "set_stopping"

\* Seeded bug: the loop does not test stop_requested.
EnterLoop_Unchecked ==
  /\ LcTo("spawn", state', verdict)
  /\ os' = "live"
  /\ sig' = "none"
  /\ held' = FALSE

\* The `while not stop_requested` test, and the synchronous part of
\* process_spawner.spawn: the child exists before the await yields, unless
\* the spawn itself raises.
EnterLoop ==
  IF stopRequested
  THEN LcTo(AfterLoop(state'), state', verdict) /\ UNCHANGED proc
  ELSE \/ /\ LcTo("spawn", state', verdict)
          /\ os' = "live"
          /\ sig' = "none"
          /\ held' = FALSE
       \/ /\ LcTo("spawn_error", state', verdict)
          /\ UNCHANGED proc

\* _apply_reconnect_verdict in state s, and what follows: FAILED_OPEN, or a backoff
\* with the attempt counted.  compute_backoff raises when 2 ** attempt does not
\* fit a float, and the exception ends the lifecycle task.
Route(s, v) ==
  IF "failed_open" \in Verified(s, "reconnect", v)
  THEN LcTo("set_failed_open", s, v) /\ UNCHANGED attempt
  ELSE IF attempt < MaxAttempt
       THEN LcTo("backoff", s, v) /\ attempt' = attempt + 1
       ELSE LcTo("crashed", s, v) /\ UNCHANGED attempt

\* Seeded bug: `>` for `>=` in should_open.
AfterSpawn_OffByOne ==
  IF stopRequested
  THEN LcTo(AfterLoop(state), state, verdict) /\ UNCHANGED brk
  ELSE /\ failures' = failures + 1
       /\ verdict' = IF failures' > MaxFailures THEN "open" ELSE "closed"
       /\ IF state \in {"starting", "running"}
          THEN LcTo("set_reconnecting", state, verdict') /\ UNCHANGED attempt
          ELSE Route(state, verdict')

\* Behind _run_one_spawn: stop, or record the failure and take the verdict.
AfterSpawn ==
  IF stopRequested
  THEN LcTo(AfterLoop(state), state, verdict) /\ UNCHANGED brk
  ELSE /\ failures' = failures + 1
       /\ verdict' = IF failures' >= MaxFailures THEN "open" ELSE "closed"
       /\ IF state \in {"starting", "running"}
          THEN LcTo("set_reconnecting", state, verdict') /\ UNCHANGED attempt
          ELSE Route(state, verdict')

\* start(): schedule the lifecycle loop.
Start ==
  /\ lc = "none"
  /\ stopRequested' = FALSE
  /\ resetEvent' = FALSE
  /\ LcTo("set_starting", state, verdict)
  /\ UNCHANGED <<state, brk, proc, tasks, stopper, chan>>

LcStarting ==
  /\ lc = "set_starting"
  /\ SetState(lcNew)
  /\ EnterLoop
  /\ UNCHANGED <<brk, flags, tasks, stopper>>

\* The spawn await returns: _process is assigned and the pumps start.
LcSpawned ==
  /\ lc = "spawn"
  /\ held' = TRUE
  /\ fresh' = TRUE
  /\ pump' = [p \in Streams |-> "read"]
  /\ stall' = "sleep"
  /\ LcTo("pumps", state, verdict)
  /\ UNCHANGED <<state, brk, flags, os, sig, pumpNew, stopper, chan>>

\* The spawn raised: the error event is sent and the iteration is a failure.
LcSpawnError ==
  /\ lc = "spawn_error"
  /\ Send
  /\ AfterSpawn
  /\ UNCHANGED <<state, flags, proc, tasks, stopper>>

\* The pump TaskGroup is left when every task in it has ended.
LcPumpsJoined ==
  /\ lc = "pumps"
  /\ os = "exited"
  /\ \A p \in Streams : pump[p] = "done"
  /\ stall = "done"
  /\ LcTo("exited", state, verdict)
  /\ pump' = PumpsOff
  /\ stall' = "off"
  /\ UNCHANGED <<state, brk, flags, proc, pumpNew, fresh, stopper, chan>>

\* Seeded bug: _process is not dropped.
LcExited_KeepsProcess ==
  /\ lc = "exited"
  /\ Send
  /\ AfterSpawn
  /\ os' = "none"
  /\ sig' = "none"
  /\ UNCHANGED <<state, flags, held, tasks, stopper>>

\* The exit event is sent, _process dropped, and the iteration is a failure.
LcExited ==
  /\ lc = "exited"
  /\ Send
  /\ AfterSpawn
  /\ held' = FALSE
  /\ os' = "none"
  /\ sig' = "none"
  /\ UNCHANGED <<state, flags, tasks, stopper>>

LcReconnecting ==
  /\ lc = "set_reconnecting"
  /\ SetState(lcNew)
  /\ Route(state', verdict)
  /\ UNCHANGED <<failures, verdict, flags, proc, tasks, stopper>>

\* Seeded bug: the reset event of the last round is left set.
LcFailedOpen_StaleReset ==
  /\ lc = "set_failed_open"
  /\ SetState(lcNew)
  /\ LcTo("wait_reset", state', verdict)
  /\ UNCHANGED <<brk, flags, proc, tasks, stopper>>

\* FAILED_OPEN is announced and assigned, the reset event cleared, and the
\* task waits for user_reset() or stop().
LcFailedOpen ==
  /\ lc = "set_failed_open"
  /\ SetState(lcNew)
  /\ resetEvent' = FALSE
  /\ LcTo("wait_reset", state', verdict)
  /\ UNCHANGED <<brk, stopRequested, proc, tasks, stopper>>

\* Seeded bug: only stop() gets the lifecycle out of FAILED_OPEN.
LcResetWoken_StopOnly ==
  /\ lc = "wait_reset"
  /\ resetEvent /\ stopRequested
  /\ LcTo(AfterLoop(state), state, verdict)
  /\ UNCHANGED <<state, brk, flags, proc, tasks, stopper, chan>>

LcResetWoken ==
  /\ lc = "wait_reset"
  /\ resetEvent
  /\ LcTo(IF stopRequested THEN AfterLoop(state) ELSE "set_restarting", state, verdict)
  /\ UNCHANGED <<state, brk, flags, proc, tasks, stopper, chan>>

LcRestarting ==
  /\ lc = "set_restarting"
  /\ SetState(lcNew)
  /\ EnterLoop
  /\ UNCHANGED <<brk, flags, tasks, stopper>>

\* The backoff elapses, or stop() cuts it short: either way back to the test.
LcBackoffOver ==
  /\ lc = "backoff"
  /\ UNCHANGED <<state, brk, flags, tasks, stopper, chan>>
  /\ EnterLoop

LcStopping ==
  /\ lc = "set_stopping"
  /\ SetState(lcNew)
  /\ LcTo(IF state' = "stopping" THEN "set_idle" ELSE "done", state', verdict)
  /\ UNCHANGED <<brk, flags, proc, tasks, stopper>>

LcIdle ==
  /\ lc = "set_idle"
  /\ SetState(lcNew)
  /\ LcTo("done", state', verdict)
  /\ UNCHANGED <<brk, flags, proc, tasks, stopper>>

-----------------------------------------------------------------------------
(* The pumps around a live process.                                        *)

Pumping(p, at) == lc = "pumps" /\ pump[p] = at

PumpTo(p, to) ==
  /\ pump' = [pump EXCEPT ![p] = to]
  /\ pumpNew' = IF p = "stdout" THEN "none" ELSE pumpNew

\* The stdout pump parks in the _set_state of RUNNING.
PumpToRunning ==
  /\ pump' = [pump EXCEPT !["stdout"] = "set_running"]
  /\ pumpNew' \in Verified(state, "process_healthy", verdict)

\* CircuitBreaker.record_healthy: 60 s after the first healthy frame the
\* failures are cleared; before that nothing happens.
RecordHealthy == failures' \in {failures, 0}

\* Seeded bug: every frame announces RUNNING.
Frame_Always ==
  /\ Pumping("stdout", "read")
  /\ fresh' = TRUE
  /\ PumpToRunning
  /\ UNCHANGED <<state, brk, flags, proc, stall, life, stopper, chan>>

\* _stdout_pump reads a progress frame (buffered ones may follow the exit).
\* The first frame of a spawn announces RUNNING before it is counted.
Frame ==
  /\ Pumping("stdout", "read")
  /\ fresh' = TRUE
  /\ IF state \in {"starting", "reconnecting"}
     THEN PumpToRunning /\ UNCHANGED failures
     ELSE PumpTo("stdout", "emit") /\ RecordHealthy
  /\ UNCHANGED <<state, attempt, verdict, flags, proc, stall, life, stopper, chan>>

\* A chunk the parser rejects: the error event is sent, the parser replaced.
BadChunk ==
  /\ Pumping("stdout", "read")
  /\ PumpTo("stdout", "emit")
  /\ UNCHANGED <<state, brk, flags, proc, stall, fresh, life, stopper, chan>>

\* The RUNNING announcement goes through; a reconnect also zeroes _attempt.
FrameRunning ==
  /\ Pumping("stdout", "set_running")
  /\ SetState(pumpNew)
  /\ attempt' = IF state = "reconnecting" THEN 0 ELSE attempt
  /\ RecordHealthy
  /\ PumpTo("stdout", "emit")
  /\ UNCHANGED <<verdict, flags, proc, stall, fresh, life, stopper>>

\* The progress (or error) event goes through and the pump reads on.
FrameSent ==
  /\ Pumping("stdout", "emit")
  /\ Send
  /\ PumpTo("stdout", "read")
  /\ UNCHANGED <<state, brk, flags, proc, stall, fresh, life, stopper>>

\* Any other exception: report it, then end this pump while ffmpeg runs on.
PumpFails(p) ==
  /\ Pumping(p, "read")
  /\ PumpTo(p, "emit_fail")
  /\ UNCHANGED <<state, brk, flags, proc, stall, fresh, life, stopper, chan>>

PumpFailSent(p) ==
  /\ Pumping(p, "emit_fail")
  /\ Send
  /\ PumpTo(p, "done")
  /\ UNCHANGED <<state, brk, flags, proc, stall, fresh, life, stopper>>

PumpEof(p) ==
  /\ Pumping(p, "read")
  /\ os = "exited"
  /\ PumpTo(p, "done")
  /\ UNCHANGED <<state, brk, flags, proc, stall, fresh, life, stopper, chan>>

\* Seeded bug: the watcher looks at the frames only, not at the exit.
StallTick_IgnoresExit ==
  /\ lc = "pumps"
  /\ stall = "sleep"
  /\ os = "live" /\ ~fresh /\ stall' = "emit_stalled"
  /\ UNCHANGED <<state, brk, flags, proc, pump, pumpNew, fresh, life, stopper, chan>>

\* _stall_watcher's tick; a tick that finds a fresh process sleeps again.
StallTick ==
  /\ lc = "pumps"
  /\ stall = "sleep"
  /\ \/ os = "exited" /\ stall' = "done"
     \/ os = "live" /\ ~fresh /\ stall' = "emit_stalled"
  /\ UNCHANGED <<state, brk, flags, proc, pump, pumpNew, fresh, life, stopper, chan>>

\* proc.terminate(): SIGTERM, a no-op on a process that is gone.
Terminate == sig' = IF os = "live" /\ sig = "none" THEN "term" ELSE sig

\* The stalled event goes through, SIGTERM is sent, and the watcher ends.
StallTerminate ==
  /\ lc = "pumps"
  /\ stall = "emit_stalled"
  /\ Send
  /\ Terminate
  /\ stall' = "done"
  /\ UNCHANGED <<state, brk, flags, held, os, pump, pumpNew, fresh, life, stopper>>

-----------------------------------------------------------------------------
(* Calls made by other tasks.                                              *)

\* user_reset(): "Retry now".
UserReset ==
  /\ state = "failed_open"
  /\ failures' = 0
  /\ attempt' = 0
  /\ resetEvent' = TRUE
  /\ UNCHANGED <<state, verdict, stopRequested, proc, tasks, life, stopper, chan>>

\* stop() goes on to the lifecycle task, and returns if that has ended.
StopJoin ==
  /\ stopper' = IF lc \in Finished THEN "returned" ELSE "lc_wait"
  /\ resetEvent' = TRUE

\* Seeded bug: stop() moves the state itself, at its call, while another task may
\* await the announcement of the move it was granted before.
StopCall_SetsStopping ==
  /\ stopper = "idle"
  /\ lc # "none"
  /\ stopRequested' = TRUE
  /\ state' = IF WS!Transition(state, "stop_requested", verdict) = {} THEN state ELSE "stopping"
  /\ IF held /\ os = "live"
     THEN stopper' = "term_wait" /\ Terminate /\ UNCHANGED resetEvent
     ELSE StopJoin /\ UNCHANGED sig
  /\ UNCHANGED <<brk, held, os, tasks, life, chan>>

\* stop(), up to its first await: SIGTERM if a process is held and alive.
StopCall ==
  /\ stopper = "idle"
  /\ lc # "none"
  /\ stopRequested' = TRUE
  /\ IF held /\ os = "live"
     THEN stopper' = "term_wait" /\ Terminate /\ UNCHANGED resetEvent
     ELSE StopJoin /\ UNCHANGED sig
  /\ UNCHANGED <<state, brk, held, os, tasks, life, chan>>

\* The process is gone, or the wait behind SIGKILL is given up.
StopProcessOver ==
  /\ \/ stopper = "term_wait" /\ os # "live"
     \/ stopper = "kill_wait"
  /\ StopJoin
  /\ UNCHANGED <<state, brk, stopRequested, proc, tasks, life, chan>>

\* `grace` elapses with the process alive: SIGKILL.
StopKill ==
  /\ stopper = "term_wait"
  /\ os = "live"
  /\ stopper' = "kill_wait"
  /\ sig' = "kill"
  /\ UNCHANGED <<state, brk, flags, held, os, tasks, life, chan>>

\* Seeded bug: only a sleeping lifecycle is cancelled.
StopCancel_BackoffOnly ==
  /\ stopper = "lc_wait"
  /\ lc = "backoff"
  /\ LcTo("cancelled", state, verdict)
  /\ UNCHANGED <<state, brk, flags, proc, tasks, stopper, chan>>

\* The lifecycle task does not end in time: wait_for cancels it and awaits the
\* cancellation.  A cancelled spawn kills its child (asyncio closes the
\* transport); a cancelled pump TaskGroup leaves the process alone.
StopCancel ==
  /\ stopper = "lc_wait"
  /\ lc \notin Finished
  /\ LcTo("cancelled", state, verdict)
  /\ pump' = PumpsOff
  /\ pumpNew' = "none"
  /\ stall' = "off"
  /\ sig' = IF lc = "spawn" THEN "kill" ELSE sig
  /\ UNCHANGED <<state, brk, flags, held, os, fresh, stopper, chan>>

\* The lifecycle task has ended: both ends of the channel are closed and stop()
\* returns; an exception of the task leaves wait_for, and stop() with it.
StopReturn ==
  /\ stopper = "lc_wait"
  /\ lc \in Finished
  /\ stopper' = IF lc = "crashed" THEN "raised" ELSE "returned"
  /\ UNCHANGED <<state, brk, flags, proc, tasks, life, chan>>

\* The supervisor's pump drains one event and ingests a snapshot.
Drain ==
  /\ stopper # "returned"
  /\ pending > 0
  /\ pending' = pending - 1
  /\ seen' = state
  /\ UNCHANGED <<state, brk, flags, proc, tasks, life, stopper>>

-----------------------------------------------------------------------------
(* The environment.                                                        *)

\* ffmpeg ends, on a signal or for reasons of its own.
ProcExit ==
  /\ os = "live"
  /\ os' = "exited"
  /\ UNCHANGED <<state, brk, flags, held, sig, tasks, life, stopper, chan>>

\* _stall_timeout elapses without a progress frame.
Silence ==
  /\ lc = "pumps"
  /\ fresh
  /\ fresh' = FALSE
  /\ UNCHANGED <<state, brk, flags, proc, pump, pumpNew, stall, life, stopper, chan>>

\* CircuitBreaker._evict_old: the oldest failure leaves the window.
Evict ==
  /\ failures > 0
  /\ failures' = failures - 1
  /\ UNCHANGED <<state, attempt, verdict, flags, proc, tasks, life, stopper, chan>>

-----------------------------------------------------------------------------
Init ==
  /\ state = "idle"
  /\ attempt = 0
  /\ failures = 0
  /\ verdict = "closed"
  /\ stopRequested = FALSE
  /\ resetEvent = FALSE
  /\ held = FALSE
  /\ os = "none"
  /\ sig = "none"
  /\ fresh = TRUE
  /\ lc = "none"
  /\ lcNew = "none"
  /\ pump = PumpsOff
  /\ pumpNew = "none"
  /\ stall = "off"
  /\ stopper = "idle"
  /\ pending = 0
  /\ seen = "none"

Lifecycle ==
  \/ LcStarting \/ LcSpawned \/ LcSpawnError \/ LcPumpsJoined \/ LcExited
  \/ LcReconnecting \/ LcFailedOpen \/ LcResetWoken \/ LcRestarting
  \/ LcBackoffOver \/ LcStopping \/ LcIdle

Pumps ==
  \/ Frame \/ BadChunk \/ FrameRunning \/ FrameSent
  \/ \E p \in Streams : PumpFails(p) \/ PumpFailSent(p) \/ PumpEof(p)
  \/ StallTick \/ StallTerminate

Stop == StopCall \/ StopProcessOver \/ StopKill \/ StopCancel \/ StopReturn

Environment == ProcExit \/ Silence \/ Evict

\* A stopped worker is never started again: the supervisor drops it.
Stopped == stopper \in {"returned", "raised"} /\ UNCHANGED vars

Next ==
  \/ Start \/ Lifecycle \/ Pumps \/ UserReset \/ Stop \/ Drain \/ Environment
  \/ Stopped

Spec == Init /\ [][Next]_vars

(* Fairness.  Every task the event loop can run is eventually run, and the *)
(* timeouts of stop() elapse.  A sender parked on the channel is strongly  *)
(* fair: anyio serves waiting senders in order.  PumpEof is strongly fair  *)
(* because only finitely much output is buffered behind an exit.  Of the   *)
(* process only this is assumed: SIGKILL ends it.  The user, and SIGTERM,  *)
(* owe nothing.                                                            *)
Fairness ==
  /\ WF_vars(Lifecycle)
  /\ WF_vars(FrameRunning) /\ WF_vars(FrameSent)
  /\ \A p \in Streams : SF_vars(PumpFailSent(p)) /\ SF_vars(PumpEof(p))
  /\ WF_vars(StallTick) /\ SF_vars(StallTerminate)
  /\ WF_vars(StopProcessOver \/ StopKill \/ StopCancel \/ StopReturn)
  /\ WF_vars(sig = "kill" /\ ProcExit)

FairSpec == Spec /\ Fairness

\* The supervisor's pump may be wedged (it awaits the database), so its fairness
\* is the premise of the properties that need it.
Drained == WF_vars(Drain)

-----------------------------------------------------------------------------
(* Properties.                                                             *)

LcPc ==
  {"none", "set_starting", "spawn", "spawn_error", "pumps", "exited",
   "set_reconnecting", "set_failed_open", "wait_reset", "set_restarting",
   "backoff", "set_stopping", "set_idle", "done", "crashed", "cancelled"}

\* Every variable keeps its type.  The bound on failures is the breaker's own:
\* nothing in record_failure stops the count at max_failures, only the worker
\* parking itself in FAILED_OPEN does.
TypeOK ==
  /\ state \in WS!WorkerStates
  /\ attempt \in 0..MaxAttempt
  /\ failures \in 0..MaxFailures
  /\ verdict \in WS!Verdicts
  /\ stopRequested \in BOOLEAN
  /\ resetEvent \in BOOLEAN
  /\ held \in BOOLEAN
  /\ os \in {"none", "live", "exited"}
  /\ sig \in {"none", "term", "kill"}
  /\ fresh \in BOOLEAN
  /\ lc \in LcPc
  /\ lcNew \in WS!WorkerStates \cup {"none"}
  /\ pump \in [Streams -> {"off", "read", "set_running", "emit", "emit_fail", "done"}]
  /\ pumpNew \in WS!WorkerStates \cup {"none"}
  /\ stall \in {"off", "sleep", "emit_stalled", "done"}
  /\ stopper \in {"idle", "term_wait", "kill_wait", "lc_wait", "returned", "raised"}
  /\ pending \in 0..ChanCap
  /\ seen \in WS!WorkerStates \cup {"none"}

\* The breaker protects the platform: no ffmpeg is spawned while the breaker
\* holds max_failures failures, whatever the user clicked and however late the
\* lifecycle task saw it (_lifecycle_loop, user_reset).
NeverSpawnOpen ==
  lc \in {"spawn", "spawn_error"} => failures < MaxFailures

\* What a task was granted before its await is still granted when the await is
\* over: neither the lifecycle nor the stdout pump, nor stop() nor user_reset(), moves
\* the state between the two halves of a _set_state, and no move is ever refused.
NoRefusedMove ==
  /\ Asks(lc) # "nothing" => lcNew \in WS!Transition(state, Asks(lc), verdict)
  /\ pump["stdout"] = "set_running" =>
       pumpNew \in WS!Transition(state, "process_healthy", verdict)

\* Once the supervisor's pump has drained the channel, its snapshot shows the
\* state the worker is in: no change of state goes unannounced.
NothingUnannounced == pending = 0 /\ seen # "none" => seen = state

\* A lifecycle that ended by itself left no process behind.  It went to IDLE because
\* stop() had been called, or it died of the overflow in compute_backoff, in
\* RECONNECTING, and nobody spawns for this worker any more.
CleanEnd ==
  lc \in {"done", "crashed"} =>
    /\ ~held /\ os = "none"
    /\ IF lc = "done" THEN state = "idle" /\ stopRequested
                      ELSE state = "reconnecting" /\ attempt = MaxAttempt

\* stop()'s first promise, "the lifecycle loop will not respawn".
NoSpawnAfterStop == [][stopRequested /\ lc' = "spawn" => lc = "spawn"]_vars

\* "Reset from failed_open is user-initiated only" (ADR-0003): a worker goes
\* from FAILED_OPEN to STARTING with the breaker and the attempt counter zeroed.
ResetByUserOnly ==
  [][state = "failed_open" /\ state' = "starting" => failures = 0 /\ attempt = 0]_vars

\* The worker implements the state machine of the domain layer, although it
\* assigns after an await what the table granted before it.
RefinesWorkerState == WS!Spec

\* stop() ends, though ffmpeg may ignore SIGTERM and nobody drain the events.
StopReturns == stopper # "idle" ~> stopper \in {"returned", "raised"}

\* The exit of ffmpeg is always noticed while the events are drained: the pump
\* group ends behind it.
ExitNoticed == Drained => (lc = "pumps" /\ os = "exited" ~> lc # "pumps")

\* "Retry now" is never lost, whenever the click falls, while the events are
\* drained.
RetryWorks ==
  Drained =>
    (state = "failed_open" /\ resetEvent ~> state # "failed_open" \/ stopRequested)

\* stop() leaves no ffmpeg behind: what is still alive has been sent SIGKILL.
NoOrphan == stopper = "returned" /\ os = "live" => sig = "kill"
=============================================================================
