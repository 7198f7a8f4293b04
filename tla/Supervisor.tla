----------------------------- MODULE Supervisor -----------------------------
(***************************************************************************)
(* The supervisor (app/fanout/supervisor.py), the REST handlers that drive *)
(* it (app/api/run.py, app/api/targets.py), the database rows they share   *)
(* and the webhooks that report OBS (app/api/internal_rtmp.py).            *)
(*                                                                         *)
(* A task is a request handler or a fire-and-forget run-start / run-stop   *)
(* task.  It runs uninterrupted from one await that yields to the next; pc *)
(* names the await it is parked at.  The supervisor's lock is an           *)
(* asyncio.Lock: first come, first served, and taken without yielding when *)
(* nobody holds or awaits it.  queue holds the task that has the lock, then*)
(* the waiting ones.  A worker is here only the key it pushes with: what   *)
(* happens inside one is FFmpegWorker's matter.                            *)
(*                                                                         *)
(* SQLite has one write lock.  A request takes it when it is authenticated *)
(* (touch_last_seen, touch_last_used) and gives it back at its commit; but *)
(* for DELETE target no request awaits anything but the database between   *)
(* the two, so its reads and writes are one step.                          *)
(***************************************************************************)
EXTENDS Naturals, Sequences, FiniteSets

CONSTANTS
  Targets,     \* target ids
  Backup,      \* YouTube targets with backup_enabled: two workers each
  PerSession,  \* VK targets: their credential is single-use
  Keys,        \* stream keys a user may enter for a target
  BadKeys,     \* keys compose_out_url or CredentialRegistry.register refuses
  Tasks,       \* concurrent requests
  Ops,         \* the operations users perform
  Faults,      \* what may go wrong: a write ("db"), a decryption ("decrypt"),
               \* a worker's stop ("stop"), the whole process ("crash")
  MaxOpenRows  \* bound of the model: no START beyond that many open history rows

NoKey == 0

ASSUME SupervisorAssumption ==
  /\ Backup \subseteq Targets
  /\ PerSession \subseteq Targets
  /\ Targets # {}
  /\ Keys \subseteq Nat \ {NoKey}
  /\ BadKeys \subseteq Keys
  /\ Ops \subseteq {"start", "stop", "patch", "cycle", "set", "clear", "create", "delete"}
  /\ Faults \subseteq {"db", "decrypt", "stop", "crash"}
  /\ MaxOpenRows \in Nat \ {0}

VARIABLES
  runState,    \* _run_state
  queue,       \* _lock: its holder, then its waiters
  pc,          \* where each task is parked
  loc,         \* the locals of each task that live across an await
  row,         \* db: targets; ids are never reused
  cred,        \* db: credentials
  openRows,    \* db: sessions_history rows with ended_at NULL
  targets,     \* _targets
  workers,     \* _workers (and _registered_secrets): the key of each, or NoKey
  t2w,         \* _target_to_workers, flattened to worker ids
  registry,    \* CredentialRegistry
  curRun,      \* _current_run_id: "none", or it names an "open" row, or an "unsaved"
               \* one, whose transaction did not commit
  obs,         \* OBS is publishing to nginx
  used         \* history: targets whose credential row a worker has pushed with

db   == <<row, cred, openRows, used>>
mem  == <<targets, workers, t2w, registry, curRun>>
vars == <<runState, queue, pc, loc, db, mem, obs>>

RS == INSTANCE RunState

WorkerIds ==
  {<<t, "primary">> : t \in Targets} \cup {<<t, "backup">> : t \in Backup}

Active == {"starting", "armed", "live"}

NoWorkers == [w \in WorkerIds |-> NoKey]

\* The locals: t the target of a handler, next and then what follows the audit
\* write and the disable_target call, known and got what a load returned.
NoLocals ==
  [t |-> CHOOSE t \in Targets : TRUE, next |-> "end", then |-> "end",
   known |-> {}, got |-> [t \in Targets |-> NoKey]]

-----------------------------------------------------------------------------
(* Building blocks.                                                        *)

Park(k, to, locals) ==
  /\ pc' = [pc EXCEPT ![k] = to]
  /\ loc' = [loc EXCEPT ![k] = locals]

\* k's next stretch begins at `to`; a task that returns drops its locals.
Goto(k, to) == Park(k, to, IF to = "idle" THEN NoLocals ELSE loc[k])

Exists(t) == row[t] \in {"enabled", "disabled"}

\* k has the lock, at its first stretch under it or later.
Holds(k) == queue # << >> /\ Head(queue) = k

\* The queue with k's request for the lock served or waiting.
Joined(k) == Append(queue, k)

\* k, in DELETE target, awaits the supervisor inside its open transaction.
Waits(k) == pc[k] \in {"disable_wait", "disable_stop"} /\ loc[k].then = "delete"

\* The tasks between whose awaits the database's write lock stays taken.
Deleting(k) == pc[k] \in {"delete_call", "delete_row"} \/ Waits(k)

WriteLockFree == \A k \in Tasks : ~Deleting(k)

\* Seeded bug: a writer waits for the write lock without a limit.
WriteFails_NoTimeout == WriteLockFree /\ "db" \in Faults

\* A write waits for the lock.  It fails when the wait exceeds busy_timeout, which
\* the waits of a DELETE for the supervisor may, or for reasons of its own.
WriteFails == IF WriteLockFree THEN "db" \in Faults ELSE \E k \in Tasks : Waits(k)

\* CredentialRegistry: a set of secrets, without a count of who registered them.
\* register also refuses a short one, which StartSpawned tests by BadKeys.
Registered(secrets) == registry \cup secrets
Unregistered(secrets) == registry \ secrets

\* SessionsHistoryRepository: start inserts a row without ended_at, end sets it in
\* the row of the current run, and does nothing where there is no such row.
StartedRow == openRows + 1
EndedRow == IF curRun = "open" THEN openRows - 1 ELSE openRows

\* _spawn_workers_for_target for the targets in S: a worker for every role that
\* has none, its key registered.  ids is _target_to_workers so far.
Spawn(k, S, ids) ==
  LET new == {w \in WorkerIds : w[1] \in S /\ loc[k].got[w[1]] # NoKey /\ workers[w] = NoKey}
  IN  /\ workers' = [w \in WorkerIds |-> IF w \in new THEN loc[k].got[w[1]] ELSE workers[w]]
      /\ t2w' = ids \cup new
      /\ registry' = Registered({loc[k].got[w[1]] : w \in new})
      /\ used' = used \cup {w[1] : w \in {v \in new : cred[v[1]] = loc[k].got[v[1]]}}

\* Seeded bug: the secret stays registered.
TearDown_KeepsSecret(W) ==
  /\ workers' = [w \in WorkerIds |-> IF w \in W THEN NoKey ELSE workers[w]]
  /\ t2w' = t2w \ W
  /\ UNCHANGED registry

\* Seeded bug: the index keeps the worker.
TearDown_KeepsIndex(W) ==
  /\ workers' = [w \in WorkerIds |-> IF w \in W THEN NoKey ELSE workers[w]]
  /\ registry' = Unregistered({workers[w] : w \in W})
  /\ UNCHANGED t2w

\* worker.stop, _unregister_secret and the pops, for the workers in W.
TearDown(W) ==
  /\ workers' = [w \in WorkerIds |-> IF w \in W THEN NoKey ELSE workers[w]]
  /\ t2w' = t2w \ W
  /\ registry' = Unregistered({workers[w] : w \in W})

Running == {w \in WorkerIds : workers[w] # NoKey}

\* _tear_down_all_workers; a stop that raises leaves every entry behind.
TearDownAll ==
  \/ TearDown(Running)
  \/ "stop" \in Faults /\ Running # {} /\ UNCHANGED <<workers, t2w, registry>>

\* The plaintext keys a load gets for the targets in S: decryption may fail.
Decrypted(S) ==
  {[t \in Targets |-> IF t \in S \ lost THEN cred[t] ELSE NoKey] :
     lost \in IF "decrypt" \in Faults THEN SUBSET S ELSE {{}}}

\* _close_run_session: without a current run it writes nothing; a failed write
\* leaves the row open.
CloseRunSession ==
  /\ curRun' = "none"
  /\ \/ (curRun = "none" \/ WriteLockFree) /\ openRows' = EndedRow
     \/ curRun # "none" /\ WriteFails /\ UNCHANGED openRows

-----------------------------------------------------------------------------
(* POST /api/run/start and start_run().                                    *)

ApiStart(k) ==
  /\ "start" \in Ops
  /\ pc[k] = "idle"
  /\ WriteLockFree
  /\ openRows < MaxOpenRows
  /\ RS!IsLegal(runState, "start_requested")
  /\ Goto(k, "start_call")
  /\ UNCHANGED <<runState, queue, db, mem, obs>>

\* Seeded bug: a refused start keeps the lock.
StartLocked_KeepsLock(k, q) ==
  /\ IF runState = "offline"
     THEN runState' = "starting" /\ Goto(k, "start_open")
     ELSE Goto(k, "idle") /\ UNCHANGED runState
  /\ queue' = q
  /\ UNCHANGED <<db, mem, obs>>

\* The first stretch under the lock: refuse, or go to STARTING.
StartLocked(k, q) ==
  /\ IF runState = "offline"
     THEN /\ runState' = "starting"
          /\ queue' = q
          /\ Goto(k, "start_open")
     ELSE /\ queue' = Tail(q)
          /\ Goto(k, "idle")
          /\ UNCHANGED runState
  /\ UNCHANGED <<db, mem, obs>>

StartCall(k) ==
  /\ pc[k] = "start_call"
  /\ IF queue = << >>
     THEN StartLocked(k, Joined(k))
     ELSE /\ queue' = Joined(k)
          /\ Goto(k, "start_wait")
          /\ UNCHANGED <<runState, db, mem, obs>>

StartWoken(k) == pc[k] = "start_wait" /\ Holds(k) /\ StartLocked(k, queue)

\* _open_run_session sets _current_run_id between the insert and its commit: when
\* the insert fails it stays unset, when the commit fails it names no row.
StartOpened(k) ==
  /\ pc[k] = "start_open"
  /\ \/ /\ WriteLockFree
        /\ curRun' = "open"
        /\ openRows' = StartedRow
        /\ Goto(k, "start_load")
     \/ /\ WriteFails
        /\ curRun' \in {curRun} \cup IF WriteLockFree THEN {"unsaved"} ELSE {}
        /\ Goto(k, "start_undo")
        /\ UNCHANGED openRows
  /\ UNCHANGED <<runState, queue, row, cred, used, targets, workers, t2w, registry, obs>>

\* _load_runnable_targets: the enabled targets and their decrypted keys.
StartLoaded(k) ==
  /\ pc[k] = "start_load"
  /\ \/ LET enabled == {t \in Targets : row[t] = "enabled"}
        IN  \E got \in Decrypted(enabled) :
              Park(k, "start_spawn", [loc[k] EXCEPT !.known = enabled, !.got = got])
     \/ "db" \in Faults /\ Goto(k, "start_undo")
  /\ UNCHANGED <<runState, queue, db, mem, obs>>

\* Every worker is spawned and the run is ARMED, or a key is refused with some
\* of the targets spawned.  Both maps are replaced by the loaded targets'.
StartSpawned(k) ==
  LET bad == {w[1] : w \in {v \in WorkerIds : loc[k].got[v[1]] \in BadKeys /\ workers[v] = NoKey}}
  IN  /\ pc[k] = "start_spawn"
      /\ targets' = loc[k].known
      /\ IF bad = {}
         THEN /\ Spawn(k, loc[k].known, {})
              /\ runState' \in RS!Transition(runState, "workers_spawned")
              /\ Goto(k, "start_audit")
         ELSE /\ \E S \in SUBSET (loc[k].known \ bad) : Spawn(k, S, {})
              /\ Goto(k, "start_undo")
              /\ UNCHANGED runState
      /\ UNCHANGED <<queue, row, cred, openRows, curRun, obs>>

StartAudited(k) ==
  /\ pc[k] = "start_audit"
  /\ \/ WriteLockFree /\ queue' = Tail(queue) /\ Goto(k, "idle")
     \/ WriteFails /\ Goto(k, "start_undo") /\ UNCHANGED queue
  /\ UNCHANGED <<runState, db, mem, obs>>

\* Seeded bug: what was spawned before the failure is left running.
StartUndone_LeavesWorkers(k) ==
  /\ pc[k] = "start_undo"
  /\ runState' \in RS!Transition(runState, "unrecoverable_failed")
  /\ Goto(k, "start_close")
  /\ UNCHANGED <<queue, db, mem, obs>>

\* The handler of every failure: tear down, ERROR, close the session row.
StartUndone(k) ==
  /\ pc[k] = "start_undo"
  /\ TearDownAll
  /\ runState' \in RS!Transition(runState, "unrecoverable_failed")
  /\ Goto(k, "start_close")
  /\ UNCHANGED <<queue, db, targets, curRun, obs>>

\* Seeded bug: a failed start does not close its session.
StartClosed_LeavesSession(k) ==
  /\ pc[k] = "start_close"
  /\ queue' = Tail(queue)
  /\ Goto(k, "idle")
  /\ UNCHANGED <<runState, db, mem, obs>>

StartClosed(k) ==
  /\ pc[k] = "start_close"
  /\ CloseRunSession
  /\ queue' = Tail(queue)
  /\ Goto(k, "idle")
  /\ UNCHANGED <<runState, row, cred, used, targets, workers, t2w, registry, obs>>

-----------------------------------------------------------------------------
(* POST /api/run/stop and stop_run().                                      *)

ApiStop(k) ==
  /\ "stop" \in Ops
  /\ pc[k] = "idle"
  /\ WriteLockFree
  /\ RS!IsLegal(runState, "stop_requested")
  /\ Goto(k, "stop_call")
  /\ UNCHANGED <<runState, queue, db, mem, obs>>

StopLocked(k, q) ==
  /\ IF runState \in {"offline", "stopping", "error"}
     THEN /\ queue' = Tail(q)
          /\ Goto(k, "idle")
          /\ UNCHANGED runState
     ELSE /\ runState' \in RS!Transition(runState, "stop_requested")
          /\ queue' = q
          /\ Goto(k, "stop_drain")
  /\ UNCHANGED <<db, mem, obs>>

StopCall(k) ==
  /\ pc[k] = "stop_call"
  /\ IF queue = << >>
     THEN StopLocked(k, Joined(k))
     ELSE /\ queue' = Joined(k)
          /\ Goto(k, "stop_wait")
          /\ UNCHANGED <<runState, db, mem, obs>>

StopWoken(k) == pc[k] = "stop_wait" /\ Holds(k) /\ StopLocked(k, queue)

\* Seeded bug: a teardown that raises ends stop_run at once.
StopDrained_Raises(k) ==
  /\ pc[k] = "stop_drain"
  /\ \/ TearDown(Running) /\ Goto(k, "stop_wipe") /\ UNCHANGED queue
     \/ /\ "stop" \in Faults
        /\ Goto(k, "idle")
        /\ queue' = Tail(queue)
        /\ UNCHANGED <<workers, t2w, registry>>
  /\ UNCHANGED <<runState, db, targets, curRun, obs>>

StopDrained(k) ==
  /\ pc[k] = "stop_drain"
  /\ TearDownAll
  /\ Goto(k, "stop_wipe")
  /\ UNCHANGED <<runState, queue, db, targets, curRun, obs>>

\* Seeded bug: wipes for the workers that run, but they are drained by now.
StopWiped_OfRunning(k) ==
  LET wiped == {w[1] : w \in Running} \cap PerSession
  IN  /\ pc[k] = "stop_wipe"
      /\ cred' = [t \in Targets |-> IF t \in wiped THEN NoKey ELSE cred[t]]
      /\ used' = used \ wiped
      /\ Goto(k, "stop_close")
      /\ UNCHANGED <<runState, queue, row, openRows, mem, obs>>

\* Seeded bug: the wipe closes the session row as well.
StopWiped_ClosesToo(k) ==
  /\ pc[k] = "stop_wipe"
  /\ openRows' = openRows - 1
  /\ Goto(k, "stop_close")
  /\ UNCHANGED <<runState, queue, row, cred, used, mem, obs>>

\* _wipe_per_session_credentials: of the targets in memory, if there are such;
\* errors suppressed.
StopWiped(k) ==
  LET wiped == targets \cap PerSession
  IN  /\ pc[k] = "stop_wipe"
      /\ \/ /\ wiped = {} \/ WriteLockFree
            /\ cred' = [t \in Targets |-> IF t \in wiped THEN NoKey ELSE cred[t]]
            /\ used' = used \ wiped
         \/ wiped # {} /\ WriteFails /\ UNCHANGED <<cred, used>>
      /\ Goto(k, "stop_close")
      /\ UNCHANGED <<runState, queue, row, openRows, mem, obs>>

\* The session row is closed, then the run is OFFLINE; the audit write follows.
StopClosed(k) ==
  /\ pc[k] = "stop_close"
  /\ CloseRunSession
  /\ runState' \in RS!Transition(runState, "workers_drained")
  /\ Goto(k, "stop_audit")
  /\ UNCHANGED <<queue, row, cred, used, targets, workers, t2w, registry, obs>>

StopAudited(k) ==
  /\ pc[k] = "stop_audit"
  /\ WriteLockFree \/ WriteFails
  /\ queue' = Tail(queue)
  /\ Goto(k, "idle")
  /\ UNCHANGED <<runState, db, mem, obs>>

-----------------------------------------------------------------------------
(* enable_target() and disable_target(), as the handlers call them.  q is  *)
(* the queue without the caller.                                           *)

\* The run state is read first, then the lock is asked for.
EnableTarget(k, q) ==
  IF runState \notin Active
  THEN queue' = q /\ Goto(k, "idle")
  ELSE /\ queue' = Append(q, k)
       /\ Goto(k, IF q = << >> THEN "enable_load" ELSE "enable_wait")

EnableWoken(k) ==
  /\ pc[k] = "enable_wait"
  /\ Holds(k)
  /\ Goto(k, "enable_load")
  /\ UNCHANGED <<runState, queue, db, mem, obs>>

\* _reload_target: the row is gone, or unreadable, or loaded.
EnableLoaded(k) ==
  LET t == loc[k].t
  IN  /\ pc[k] = "enable_load"
      /\ \/ /\ ~Exists(t) \/ "db" \in Faults
            /\ queue' = Tail(queue)
            /\ Goto(k, "idle")
         \/ /\ Exists(t)
            /\ \E got \in Decrypted(IF row[t] = "enabled" THEN {t} ELSE {}) :
                 Park(k, "enable_spawn", [loc[k] EXCEPT !.got = got])
            /\ UNCHANGED queue
      /\ UNCHANGED <<runState, db, mem, obs>>

\* The target is (re)placed in memory and its missing workers are spawned; a
\* refused key fails the request before anything is registered.
EnableSpawned(k) ==
  LET t == loc[k].t
  IN  /\ pc[k] = "enable_spawn"
      /\ targets' = targets \cup {t}
      /\ Spawn(k, IF loc[k].got[t] \in BadKeys THEN {} ELSE {t}, t2w)
      /\ queue' = Tail(queue)
      /\ Goto(k, "idle")
      /\ UNCHANGED <<runState, row, cred, openRows, curRun, obs>>

\* disable_target has returned: what the handler does next.
AfterDisable(k, q) ==
  CASE loc[k].then = "enable" -> EnableTarget(k, q)
    [] loc[k].then = "delete" -> queue' = q /\ Goto(k, "delete_row")
    [] OTHER                  -> queue' = q /\ Goto(k, "idle")

WorkersOf(t) == {w \in t2w : w[1] = t}

DisableLocked(k, q) ==
  IF WorkersOf(loc[k].t) = {}
  THEN AfterDisable(k, Tail(q))
  ELSE queue' = q /\ Goto(k, "disable_stop")

DisableTarget(k) ==
  IF queue = << >>
  THEN DisableLocked(k, Joined(k))
  ELSE queue' = Joined(k) /\ Goto(k, "disable_wait")

DisableWoken(k) ==
  /\ pc[k] = "disable_wait"
  /\ Holds(k)
  /\ DisableLocked(k, queue)
  /\ UNCHANGED <<runState, db, mem, obs>>

\* _tear_down_workers_for_target, one worker after the other.
DisableStopped(k) ==
  /\ pc[k] = "disable_stop"
  /\ \E w \in WorkersOf(loc[k].t) :
       /\ TearDown({w})
       /\ IF WorkersOf(loc[k].t) = {w}
          THEN AfterDisable(k, Tail(queue))
          ELSE UNCHANGED <<queue, pc, loc>>
  /\ UNCHANGED <<runState, db, targets, curRun, obs>>

-----------------------------------------------------------------------------
(* The handlers of app/api/targets.py.  Each commits its row, awaits the   *)
(* audit write and then tells the supervisor.                              *)

\* A request on target t arrives and is authenticated; l is what its handler keeps.
Request(k, op, t, l, to) ==
  /\ op \in Ops
  /\ pc[k] = "idle"
  /\ WriteLockFree
  /\ Park(k, to, [l EXCEPT !.t = t])

\* PATCH: the supervisor is told of a change of `enabled`; a running target is
\* cycled when another field is patched (want is "same").
UpdateTarget(k, t, want) ==
  LET calls == CASE want = "enabled"  /\ row[t] = "disabled" -> <<"enable", "end">>
                 [] want = "disabled" /\ row[t] = "enabled"  -> <<"disable", "end">>
                 [] want = "same"     /\ row[t] = "enabled"  -> <<"disable", "enable">>
                 [] OTHER                                     -> <<"end", "end">>
  IN  /\ Exists(t)
      /\ row' = IF want = "same" THEN row ELSE [row EXCEPT ![t] = want]
      /\ Request(k, IF want = "same" THEN "cycle" ELSE "patch", t,
                 [NoLocals EXCEPT !.next = calls[1], !.then = calls[2]], "audit")
      /\ UNCHANGED <<runState, queue, cred, openRows, used, mem, obs>>

\* PUT credential: the key of the target is replaced.
SetCredential(k, t, key) ==
  /\ Exists(t)
  /\ cred' = [cred EXCEPT ![t] = key]
  /\ used' = used \ {t}
  /\ Request(k, "set", t,
       [NoLocals EXCEPT !.next = IF row[t] = "enabled" THEN "enable" ELSE "end"], "audit")
  /\ UNCHANGED <<runState, queue, row, openRows, mem, obs>>

\* Seeded bug: the supervisor is not told.
ClearCredential_Untold(k, t) ==
  /\ cred[t] # NoKey
  /\ cred' = [cred EXCEPT ![t] = NoKey]
  /\ used' = used \ {t}
  /\ Request(k, "clear", t, NoLocals, "audit")
  /\ UNCHANGED <<runState, queue, row, openRows, mem, obs>>

\* DELETE credential.
ClearCredential(k, t) ==
  /\ cred[t] # NoKey
  /\ cred' = [cred EXCEPT ![t] = NoKey]
  /\ used' = used \ {t}
  /\ Request(k, "clear", t, [NoLocals EXCEPT !.next = "disable"], "audit")
  /\ UNCHANGED <<runState, queue, row, openRows, mem, obs>>

\* POST target.
CreateTarget(k, t, as) ==
  /\ row[t] = "absent"
  /\ row' = [row EXCEPT ![t] = as]
  /\ Request(k, "create", t,
       [NoLocals EXCEPT !.next = IF as = "enabled" THEN "enable" ELSE "end"], "audit")
  /\ UNCHANGED <<runState, queue, cred, openRows, used, mem, obs>>

\* DELETE target: "Stop workers FIRST so the supervisor doesn't race the DB
\* delete", then delete the row, and the credential with it.  The transaction is
\* open, and the write lock taken, all the while.
DeleteTarget(k, t) ==
  /\ Exists(t)
  /\ Request(k, "delete", t, [NoLocals EXCEPT !.then = "delete"], "delete_call")
  /\ UNCHANGED <<runState, queue, db, mem, obs>>

DeleteCall(k) ==
  /\ pc[k] = "delete_call"
  /\ DisableTarget(k)
  /\ UNCHANGED <<runState, db, mem, obs>>

DeleteRow(k) ==
  LET t == loc[k].t
  IN  /\ pc[k] = "delete_row"
      /\ row' = [row EXCEPT ![t] = "deleted"]
      /\ cred' = [cred EXCEPT ![t] = NoKey]
      /\ used' = used \ {t}
      /\ Goto(k, "idle")
      /\ UNCHANGED <<runState, queue, openRows, mem, obs>>

\* The audit row is written and the supervisor is told, or the write fails and
\* the request ends there.
Audited(k) ==
  /\ pc[k] = "audit"
  /\ \/ /\ WriteLockFree
        /\ CASE loc[k].next = "enable"  -> EnableTarget(k, queue)
             [] loc[k].next = "disable" -> DisableTarget(k)
             [] OTHER                   -> UNCHANGED queue /\ Goto(k, "idle")
     \/ WriteFails /\ UNCHANGED queue /\ Goto(k, "idle")
  /\ UNCHANGED <<runState, db, mem, obs>>

-----------------------------------------------------------------------------
(* OBS, through nginx and the webhooks, and the process itself.            *)

\* Seeded bug: LIVE from any state.
ObsPublish_Unchecked ==
  /\ ~obs
  /\ obs' = TRUE
  /\ runState' = "live"
  /\ UNCHANGED <<queue, pc, loc, db, mem>>

\* notify_obs_publish_began and notify_obs_publish_ended: no-ops in another state.
NotifyObsPublishBegan == runState' = IF runState = "armed" THEN "live" ELSE runState
NotifyObsPublishEnded == runState' = IF runState = "live" THEN "armed" ELSE runState

\* on_publish of an unlocked service, with the ingest key of the settings row:
\* OBS, one publisher, may publish whatever the run state.
ObsPublish ==
  /\ ~obs
  /\ obs' = TRUE
  /\ NotifyObsPublishBegan
  /\ UNCHANGED <<queue, pc, loc, db, mem>>

\* Seeded bug: ARMED from any state.
ObsPublishDone_Unchecked ==
  /\ obs
  /\ obs' = FALSE
  /\ runState' = "armed"
  /\ UNCHANGED <<queue, pc, loc, db, mem>>

\* on_publish_done: it looks at neither the key nor the lock of the service.
ObsPublishDone ==
  /\ obs
  /\ obs' = FALSE
  /\ NotifyObsPublishEnded
  /\ UNCHANGED <<queue, pc, loc, db, mem>>

\* The control plane dies and restarts: memory is lost, and
\* _recover_interrupted_sessions closes the open session rows.
Crash ==
  /\ "crash" \in Faults
  /\ runState' = "offline"
  /\ queue' = << >>
  /\ pc' = [k \in Tasks |-> "idle"]
  /\ loc' = [k \in Tasks |-> NoLocals]
  /\ openRows' = 0
  /\ targets' = {}
  /\ workers' = NoWorkers
  /\ t2w' = {}
  /\ registry' = {}
  /\ curRun' = "none"
  /\ UNCHANGED <<row, cred, used, obs>>

-----------------------------------------------------------------------------
\* A fresh process over a database of configured targets.
Init ==
  /\ runState = "offline"
  /\ queue = << >>
  /\ pc = [k \in Tasks |-> "idle"]
  /\ loc = [k \in Tasks |-> NoLocals]
  /\ row \in [Targets -> {"absent", "enabled", "disabled"}]
  /\ cred \in [Targets -> Keys \cup {NoKey}]
  /\ \A t \in Targets : row[t] = "absent" => cred[t] = NoKey
  /\ openRows = 0
  /\ targets = {}
  /\ workers = NoWorkers
  /\ t2w = {}
  /\ registry = {}
  /\ curRun = "none"
  /\ obs \in BOOLEAN
  /\ used = {}

StartRun(k) ==
  \/ StartCall(k) \/ StartWoken(k) \/ StartOpened(k) \/ StartLoaded(k)
  \/ StartSpawned(k) \/ StartAudited(k) \/ StartUndone(k) \/ StartClosed(k)

StopRun(k) ==
  \/ StopCall(k) \/ StopWoken(k) \/ StopDrained(k) \/ StopWiped(k)
  \/ StopClosed(k) \/ StopAudited(k)

TargetControl(k) ==
  \/ EnableWoken(k) \/ EnableLoaded(k) \/ EnableSpawned(k)
  \/ DisableWoken(k) \/ DisableStopped(k)

Handler(k) == DeleteCall(k) \/ DeleteRow(k) \/ Audited(k)

Arrival(k) ==
  \/ ApiStart(k)
  \/ ApiStop(k)
  \/ \E t \in Targets :
       \/ \E want \in {"enabled", "disabled", "same"} : UpdateTarget(k, t, want)
       \/ \E key \in Keys : SetCredential(k, t, key)
       \/ ClearCredential(k, t)
       \/ \E as \in {"enabled", "disabled"} : CreateTarget(k, t, as)
       \/ DeleteTarget(k, t)

\* What a task does once it exists.
Progress(k) == StartRun(k) \/ StopRun(k) \/ TargetControl(k) \/ Handler(k)

Next ==
  \/ \E k \in Tasks : Arrival(k) \/ Progress(k)
  \/ ObsPublish \/ ObsPublishDone
  \/ Crash

Spec == Init /\ [][Next]_vars

\* The event loop runs every task it can; requests, OBS and crashes owe nothing.
FairSpec == Spec /\ \A k \in Tasks : WF_vars(Progress(k))

-----------------------------------------------------------------------------
(* Properties.                                                             *)

\* The awaits under the lock.
Locked ==
  {"start_open", "start_load", "start_spawn", "start_audit", "start_undo",
   "start_close", "stop_drain", "stop_wipe", "stop_close", "stop_audit",
   "enable_load", "enable_spawn", "disable_stop"}

Waiting == {"start_wait", "stop_wait", "enable_wait", "disable_wait"}

Unlocked == {"start_call", "stop_call", "delete_call", "delete_row", "audit"}

Locals ==
  [t : Targets, next : {"end", "enable", "disable"}, then : {"end", "enable", "delete"},
   known : SUBSET Targets, got : [Targets -> Keys \cup {NoKey}]]

\* Every variable keeps its type.
TypeOK ==
  /\ runState \in RS!RunStates
  /\ queue \in Seq(Tasks)
  /\ pc \in [Tasks -> {"idle"} \cup Locked \cup Waiting \cup Unlocked]
  /\ loc \in [Tasks -> Locals]
  /\ row \in [Targets -> {"absent", "enabled", "disabled", "deleted"}]
  /\ cred \in [Targets -> Keys \cup {NoKey}]
  /\ openRows \in Nat
  /\ targets \subseteq Targets
  /\ workers \in [WorkerIds -> Keys \cup {NoKey}]
  /\ t2w \subseteq WorkerIds
  /\ registry \subseteq Keys
  /\ curRun \in {"none", "open", "unsaved"}
  /\ obs \in BOOLEAN
  /\ used \subseteq Targets

Quiet == \A k \in Tasks : pc[k] = "idle"

\* The lock works as the code relies on it: a task inside a critical section of
\* start_run, stop_run, enable_target or disable_target is alone there, on every
\* path out of it (refusal, early return, exception) the lock is passed on, and
\* no waiter is forgotten or served twice.
LockDiscipline ==
  /\ \A k \in Tasks : pc[k] \in Locked => Holds(k)
  /\ \A k \in Tasks : pc[k] \in Locked \cup Waiting <=> \E i \in DOMAIN queue : queue[i] = k
  /\ \A i, j \in DOMAIN queue : queue[i] = queue[j] => i = j

\* No _set_run_state inside start_run or stop_run is ever refused: whatever OBS
\* and the other handlers do while they await, the run is where they left it.
RunMovesLegal ==
  \A k \in Tasks :
    /\ pc[k] \in {"start_open", "start_load", "start_spawn"} => runState = "starting"
    /\ pc[k] \in {"start_audit"} => runState \in {"armed", "live"}
    /\ pc[k] = "start_undo" => RS!IsLegal(runState, "unrecoverable_failed")
    /\ pc[k] \in {"stop_drain", "stop_wipe", "stop_close"} => runState = "stopping"

\* A run owns an open session row: while it is ARMED or LIVE _current_run_id names
\* a row that is open in sessions_history; it names a row that was never committed
\* only until the failed start has been undone, and nothing once nobody is inside
\* the supervisor and the run is over.
SessionTracksRun ==
  /\ curRun = "open" => openRows > 0
  /\ runState \in {"armed", "live"} => curRun = "open"
  /\ curRun = "unsaved" => \E k \in Tasks : pc[k] \in {"start_undo", "start_close"}
  /\ runState \in {"offline", "error"} /\ queue = << >> => curRun = "none"

\* The log redactor keeps no key longer than a worker that pushes with it
\* ("unregister cleanly so the registry doesn't accumulate orphan plaintext").
NoOrphanSecrets == registry \subseteq {workers[w] : w \in Running}

\* _target_to_workers is a faithful index of _workers: every running worker can
\* be found, and stopped, through its target.
IndexMatchesWorkers == t2w = Running

\* No worker runs outside a run: once nobody is inside the supervisor, OFFLINE
\* and ERROR mean that nothing is pushed ("Spawn workers for `target_id` if
\* RunState is active").
NoWorkersOffline == runState \in {"offline", "error"} /\ queue = << >> => Running = {}

\* Once no request is in progress what runs is what is configured: a worker's
\* target exists and is enabled, its key is the stored one, and during a run
\* every enabled target with a credential has all of its workers.
WorkersMatchTargets ==
  Quiet =>
    /\ \A w \in Running : row[w[1]] = "enabled" /\ workers[w] = cred[w[1]]
    /\ runState \in {"armed", "live"} =>
         \A w \in WorkerIds : row[w[1]] = "enabled" /\ cred[w[1]] # NoKey => w \in Running

\* A single-use VK key that a worker has pushed with is gone from the database
\* when the run is over (ADR-0009: "collected at START, wiped at END") and no
\* target is being deleted any more.
SingleUseKeys ==
  runState = "offline" /\ queue = << >> /\ WriteLockFree => used \cap PerSession = {}

\* Outside a crash the supervisor implements the run state machine.
RefinesRunState == RS!Spec

\* Every request and every run task ends: nobody waits for the lock forever.
EveryCallReturns == \A k \in Tasks : pc[k] # "idle" ~> pc[k] = "idle"

\* A run that is being stopped ends, and none hangs in STARTING, whatever fails
\* on the way.
TransientsEnd ==
  /\ runState = "stopping" ~> runState = "offline"
  /\ runState = "starting" ~> runState # "starting"
=============================================================================
