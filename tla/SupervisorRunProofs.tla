------------------------- MODULE SupervisorRunProofs -------------------------
(***************************************************************************)
(* Proofs about what a run leaves behind, where no handler enables a       *)
(* target: there a request decided before the run ended can still spawn    *)
(* workers after it, which the run late_enable shows.  For START, STOP,    *)
(* DELETE target and DELETE credential, in any number and any order, with  *)
(* failing writes, unreadable credentials and crashes, workers exist       *)
(* between START and STOP only, and can be found through the index.        *)
(***************************************************************************)
EXTENDS SupervisorProofs

\* The operations that may call enable_target.
Enabling == {"patch", "cycle", "set", "create"}

\* No task is on its way to enable_target.
NothingEnabled ==
  \A k \in Tasks :
    /\ loc[k].next # "enable"
    /\ loc[k].then # "enable"
    /\ pc[k] \notin {"enable_wait", "enable_load", "enable_spawn"}

\* Nothing runs before the spawn of start_run, after the drain of stop_run and
\* while there is no run.
NothingRuns ==
  /\ runState \in {"offline", "error"} => Running = {}
  /\ \A k \in Tasks :
       pc[k] \in {"start_open", "start_load", "start_spawn", "stop_wipe", "stop_close"} =>
         Running = {}

RunInv == NothingEnabled /\ NothingRuns /\ IndexMatchesWorkers

-----------------------------------------------------------------------------
(* The operators.                                                          *)

LEMMA NoLocalsQuiet == NoLocals.next # "enable" /\ NoLocals.then # "enable"
BY DEF NoLocals

\* A step that parks k, with quiet locals, elsewhere than on the way to
\* enable_target.
LEMMA ParkQuiet ==
  ASSUME LockType, LocType, NothingEnabled, NEW k \in Tasks, NEW to, NEW l \in Locals,
         Park(k, to, l), l.next # "enable", l.then # "enable",
         to \notin {"enable_wait", "enable_load", "enable_spawn"}
  PROVE  NothingEnabled'
PROOF
  <1>1. /\ pc'[k] = to
        /\ loc'[k] = l
        /\ \A j \in Tasks \ {k} : pc'[j] = pc[j] /\ loc'[j] = loc[j]
    BY DEF LockType, LocType, Park
  <1> QED BY <1>1 DEF NothingEnabled

LEMMA GotoQuiet ==
  ASSUME LockType, LocType, NothingEnabled, NEW k \in Tasks, NEW to, Goto(k, to),
         to \notin {"enable_wait", "enable_load", "enable_spawn"}
  PROVE  NothingEnabled'
PROOF
  <1>1. loc[k] \in Locals /\ loc[k].next # "enable" /\ loc[k].then # "enable"
    BY DEF LocType, NothingEnabled
  <1> QED BY <1>1, NoLocalsType, NoLocalsQuiet, ParkQuiet DEF Goto

\* disable_target enables nothing for such a caller.
LEMMA DisableQuiet ==
  ASSUME LockType, LocType, NothingEnabled, NEW k \in Tasks, NEW q,
         AfterDisable(k, q) \/ DisableLocked(k, q) \/ DisableTarget(k)
  PROVE  NothingEnabled'
PROOF
  <1>1. ASSUME NEW p, AfterDisable(k, p) PROVE NothingEnabled'
    BY <1>1, GotoQuiet DEF AfterDisable, NothingEnabled
  <1>2. ASSUME NEW p, DisableLocked(k, p) PROVE NothingEnabled'
    BY <1>1, <1>2, GotoQuiet DEF DisableLocked
  <1>3. ASSUME DisableTarget(k) PROVE NothingEnabled'
    BY <1>2, <1>3, GotoQuiet DEF DisableTarget
  <1> QED BY <1>1, <1>2, <1>3

\* The drain leaves nothing, and the index is empty with it.
LEMMA DrainedIndex ==
  ASSUME WorkersInv, IndexMatchesWorkers, "stop" \notin Faults, TearDownAll
  PROVE  Running' = {} /\ IndexMatchesWorkers'
PROOF
  <1>1. /\ workers' = [w \in WorkerIds |-> IF w \in Running THEN NoKey ELSE workers[w]]
        /\ t2w' = t2w \ Running
    BY DEF TearDownAll, TearDown
  <1>2. Running' = {}
    BY <1>1 DEF Running
  <1> QED BY <1>1, <1>2 DEF IndexMatchesWorkers

\* One worker less, in both.
LEMMA TornDownIndex ==
  ASSUME WorkersInv, IndexMatchesWorkers, NEW W, TearDown(W)
  PROVE  IndexMatchesWorkers' /\ Running' \subseteq Running
PROOF
  <1>1. /\ workers' = [w \in WorkerIds |-> IF w \in W THEN NoKey ELSE workers[w]]
        /\ t2w' = t2w \ W
    BY DEF TearDown
  <1>2. Running' = Running \ W
    BY <1>1 DEF Running, WorkersInv
  <1> QED BY <1>1, <1>2 DEF IndexMatchesWorkers

\* start_run spawns from nothing, so its index, begun anew, is complete.
LEMMA SpawnedIndex ==
  ASSUME LocType, Running = {}, NEW k \in Tasks, NEW S, Spawn(k, S, {})
  PROVE  IndexMatchesWorkers'
PROOF
  <1> DEFINE new == {w \in WorkerIds : w[1] \in S /\ loc[k].got[w[1]] # NoKey /\ workers[w] = NoKey}
  <1>1. /\ workers' = [w \in WorkerIds |-> IF w \in new THEN loc[k].got[w[1]] ELSE workers[w]]
        /\ t2w' = {} \cup new
    BY DEF Spawn
  <1>2. Running' = new
    BY <1>1 DEF Running
  <1> QED BY <1>1, <1>2 DEF IndexMatchesWorkers

\* A step that changes neither the run nor the workers, and whose task is at none
\* of the awaits of NothingRuns.
LEMMA RunElsewhere ==
  ASSUME LockType, NothingRuns, NEW k \in Tasks, Moves(k),
         pc'[k] \notin RunAwaits, Running' \subseteq Running, runState' = runState
  PROVE  NothingRuns'
PROOF
  <1>1. \A j \in Tasks : pc'[j] = pc[j] \/ pc'[j] \notin RunAwaits
    BY DEF Moves, LockType
  <1> QED BY <1>1 DEF NothingRuns, RunAwaits

-----------------------------------------------------------------------------
(* The invariant is inductive relative to IInv.                            *)

LEMMA RunInit ==
  ASSUME Init
  PROVE  RunInv
BY NoLocalsQuiet DEF Init, RunInv, NothingEnabled, NothingRuns, IndexMatchesWorkers, Running, NoWorkers

\* The requests that can arrive.
LEMMA RunArrival ==
  ASSUME IInv, RunInv, Ops \cap Enabling = {}, NEW k \in Tasks, Arrival(k)
  PROVE  RunInv'
PROOF
  <1>1. LockType /\ LocType /\ RunInv
    BY DEF IInv
  <1>2. UNCHANGED <<runState, queue, mem>>
    BY DEF Arrival, ApiStart, ApiStop, UpdateTarget, SetCredential, ClearCredential, CreateTarget,
           DeleteTarget
  <1>3. pc'[k] \notin RunAwaits
    BY <1>1, ArrivalParks DEF Unlocked, RunAwaits
  <1>4. NothingRuns' /\ IndexMatchesWorkers'
    BY <1>1, <1>2, <1>3, ArrivalMoves, RunElsewhere
       DEF RunInv, IndexMatchesWorkers, Running, mem
  <1>5. NothingEnabled'
    <2>1. CASE ApiStart(k) \/ ApiStop(k)
      BY <1>1, <2>1, GotoQuiet DEF ApiStart, ApiStop, RunInv
    <2>2. ASSUME NEW t \in Targets, NEW l \in Locals, NEW op,
                 NEW to \in {"audit", "delete_call"}, Request(k, op, t, l, to),
                 l.next # "enable", l.then # "enable"
          PROVE  NothingEnabled'
      <3>1. /\ [l EXCEPT !.t = t] \in Locals
            /\ [l EXCEPT !.t = t].next # "enable"
            /\ [l EXCEPT !.t = t].then # "enable"
        BY <2>2 DEF Locals
      <3> QED BY <1>1, <2>2, <3>1, ParkQuiet DEF Request, RunInv
    <2>3. ASSUME NEW t \in Targets, ClearCredential(k, t)
          PROVE  NothingEnabled'
      <3>1. /\ [NoLocals EXCEPT !.next = "disable"] \in Locals
            /\ [NoLocals EXCEPT !.next = "disable"].next # "enable"
            /\ [NoLocals EXCEPT !.next = "disable"].then # "enable"
        BY NoLocalsType, NoLocalsQuiet DEF Locals
      <3> QED BY <2>2, <2>3, <3>1 DEF ClearCredential
    <2>4. ASSUME NEW t \in Targets, DeleteTarget(k, t)
          PROVE  NothingEnabled'
      <3>1. /\ [NoLocals EXCEPT !.then = "delete"] \in Locals
            /\ [NoLocals EXCEPT !.then = "delete"].next # "enable"
            /\ [NoLocals EXCEPT !.then = "delete"].then # "enable"
        BY NoLocalsType, NoLocalsQuiet DEF Locals
      <3> QED BY <2>2, <2>4, <3>1 DEF DeleteTarget
    <2>5. /\ \A t \in Targets, want \in {"enabled", "disabled", "same"} : ~UpdateTarget(k, t, want)
          /\ \A t \in Targets, key \in Keys : ~SetCredential(k, t, key)
          /\ \A t \in Targets, as \in {"enabled", "disabled"} : ~CreateTarget(k, t, as)
      BY DEF UpdateTarget, SetCredential, CreateTarget, Request, Enabling
    <2> QED BY <2>1, <2>3, <2>4, <2>5 DEF Arrival
  <1> QED BY <1>4, <1>5 DEF RunInv

\* DELETE target and the call that follows an audit write.
LEMMA RunHandler ==
  ASSUME IInv, RunInv, NEW k \in Tasks, Handler(k)
  PROVE  RunInv'
PROOF
  <1>1. LockType /\ LocType /\ NothingEnabled /\ NothingRuns /\ IndexMatchesWorkers
    BY DEF IInv, RunInv
  <1>2. DeleteCall(k) \/ DeleteRow(k) \/ Audited(k)
    BY DEF Handler
  <1>3. UNCHANGED <<runState, mem>>
    BY <1>2 DEF DeleteCall, DeleteRow, Audited
  <1>4. pc'[k] \notin RunAwaits
    BY <1>1, <1>2
       DEF DeleteCall, DeleteRow, Audited, DisableTarget, DisableLocked, AfterDisable,
           EnableTarget, Goto, Park, RunAwaits, LockType
  <1>5. NothingRuns' /\ IndexMatchesWorkers'
    BY <1>1, <1>3, <1>4, HandlerMoves, RunElsewhere DEF IndexMatchesWorkers, Running, mem
  <1>6. NothingEnabled'
    BY <1>1, <1>2, GotoQuiet, DisableQuiet DEF DeleteCall, DeleteRow, Audited, NothingEnabled
  <1> QED BY <1>5, <1>6 DEF RunInv

\* disable_target under the lock.
LEMMA RunTargetControl ==
  ASSUME IInv, RunInv, NEW k \in Tasks, TargetControl(k)
  PROVE  RunInv'
PROOF
  <1>1. LockType /\ LocType /\ WorkersInv /\ NothingEnabled /\ NothingRuns /\ IndexMatchesWorkers
    BY DEF IInv, RunInv
  <1>2. DisableWoken(k) \/ DisableStopped(k)
    BY <1>1 DEF TargetControl, EnableWoken, EnableLoaded, EnableSpawned, NothingEnabled
  <1>3. runState' = runState
    BY <1>2 DEF DisableWoken, DisableStopped
  <1>4. pc'[k] \notin RunAwaits
    BY <1>1, <1>2
       DEF DisableWoken, DisableStopped, DisableLocked, AfterDisable, EnableTarget, Goto, Park,
           RunAwaits, LockType
  <1>5. IndexMatchesWorkers' /\ Running' \subseteq Running
    <2>1. CASE DisableWoken(k)
      BY <1>1, <2>1 DEF DisableWoken, IndexMatchesWorkers, Running, mem
    <2>2. CASE DisableStopped(k)
      BY <1>1, <2>2, TornDownIndex DEF DisableStopped
    <2> QED BY <1>2, <2>1, <2>2
  <1>6. NothingRuns'
    BY <1>1, <1>3, <1>4, <1>5, ControlMoves, RunElsewhere
  <1>7. NothingEnabled'
    BY <1>1, <1>2, DisableQuiet DEF DisableWoken, DisableStopped, NothingEnabled
  <1> QED BY <1>5, <1>6, <1>7 DEF RunInv

\* start_run finds nothing running, and leaves nothing when it fails.
LEMMA RunStart ==
  ASSUME IInv, RunInv, "stop" \notin Faults, NEW k \in Tasks, StartRun(k)
  PROVE  RunInv'
PROOF
  <1>1. /\ LockType /\ LockDiscipline /\ LocType /\ DataType /\ WorkersInv /\ RunHeld
        /\ NothingEnabled /\ NothingRuns /\ IndexMatchesWorkers
    BY DEF IInv, ControlInv, RunInv
  <1>2. Moves(k)
    BY <1>1, StartMoves
  <1>3. \A j \in Tasks \ {k} : pc'[j] = pc[j]
    BY <1>1, <1>2, OthersStay
  <1>4. pc[k] \in Locked => \A j \in Tasks \ {k} : pc'[j] \notin Locked
    BY <1>1, <1>2, OthersStay
  <1>5. CASE StartCall(k) \/ StartWoken(k)
    <2>1. NothingEnabled'
      BY <1>1, <1>5, GotoQuiet DEF StartCall, StartWoken, StartLocked
    <2>2. IndexMatchesWorkers' /\ Running' = Running
      BY <1>1, <1>5 DEF StartCall, StartWoken, StartLocked, IndexMatchesWorkers, Running, mem
    <2>3. \/ runState' = runState /\ pc'[k] \in {"idle", "start_wait"}
          \/ runState = "offline" /\ runState' = "starting" /\ pc'[k] = "start_open"
      BY <1>1, <1>5 DEF StartCall, StartWoken, StartLocked, Goto, Park, LockType
    <2>4. NothingRuns'
      BY <1>1, <1>3, <2>2, <2>3 DEF NothingRuns
    <2> QED BY <2>1, <2>2, <2>4 DEF RunInv
  <1>6. CASE StartOpened(k) \/ StartLoaded(k)
    <2>1. NothingEnabled'
      <3>1. ASSUME NEW S \in SUBSET Targets, NEW got \in Decrypted(S),
                   Park(k, "start_spawn", [loc[k] EXCEPT !.known = S, !.got = got])
            PROVE  NothingEnabled'
        <4>1. got \in [Targets -> Keys \cup {NoKey}] /\ loc[k] \in Locals
          BY <1>1, <3>1, DecryptedType DEF LocType
        <4> DEFINE l == [loc[k] EXCEPT !.known = S, !.got = got]
        <4>2. l \in Locals /\ l.next # "enable" /\ l.then # "enable"
          BY <1>1, <4>1 DEF Locals, NothingEnabled
        <4>3. Park(k, "start_spawn", l)
          BY <3>1
        <4> HIDE DEF l
        <4> QED BY <1>1, <4>2, <4>3, ParkQuiet
      <3>2. CASE StartOpened(k)
        BY <1>1, <3>2, GotoQuiet DEF StartOpened
      <3>3. CASE StartLoaded(k)
        BY <1>1, <3>1, <3>3, GotoQuiet DEF StartLoaded
      <3> QED BY <1>6, <3>2, <3>3
    <2>2. IndexMatchesWorkers' /\ Running' = Running /\ runState' = runState
      BY <1>1, <1>6 DEF StartOpened, StartLoaded, IndexMatchesWorkers, Running, mem
    <2>3. Running = {}
      BY <1>1, <1>6 DEF StartOpened, StartLoaded, NothingRuns
    <2> QED BY <2>1, <2>2, <2>3 DEF RunInv, NothingRuns
  <1>7. CASE StartSpawned(k)
    <2>1. NothingEnabled'
      BY <1>1, <1>7, GotoQuiet DEF StartSpawned
    <2>2. IndexMatchesWorkers'
      BY <1>1, <1>7, SpawnedIndex DEF StartSpawned, NothingRuns
    <2>3. runState' \in {"starting", "armed"} /\ pc'[k] \in {"start_audit", "start_undo"}
      BY <1>1, <1>7, RunMoves DEF StartSpawned, RunHeld, Goto, Park, LockType
    <2>4. \A j \in Tasks \ {k} : pc'[j] \notin Locked
      BY <1>4, <1>7 DEF StartSpawned, Locked
    <2>5. NothingRuns'
      BY <2>3, <2>4 DEF NothingRuns, Locked
    <2> QED BY <2>1, <2>2, <2>5 DEF RunInv
  <1>8. CASE StartAudited(k)
    <2>1. NothingEnabled'
      BY <1>1, <1>8, GotoQuiet DEF StartAudited
    <2>2. IndexMatchesWorkers' /\ Running' = Running /\ runState' = runState
      BY <1>1, <1>8 DEF StartAudited, IndexMatchesWorkers, Running, mem
    <2>3. pc'[k] \in {"idle", "start_undo"}
      BY <1>1, <1>8 DEF StartAudited, Goto, Park, LockType
    <2> QED BY <1>1, <1>3, <2>1, <2>2, <2>3 DEF RunInv, NothingRuns
  <1>9. CASE StartUndone(k)
    <2>1. NothingEnabled'
      BY <1>1, <1>9, GotoQuiet DEF StartUndone
    <2>2. IndexMatchesWorkers' /\ Running' = {}
      BY <1>1, <1>9, DrainedIndex DEF StartUndone
    <2> QED BY <2>1, <2>2 DEF RunInv, NothingRuns
  <1>10. CASE StartClosed(k)
    <2>1. NothingEnabled'
      BY <1>1, <1>10, GotoQuiet DEF StartClosed
    <2>2. IndexMatchesWorkers' /\ Running' = Running /\ runState' = runState
      BY <1>1, <1>10 DEF StartClosed, IndexMatchesWorkers, Running
    <2>3. pc'[k] = "idle"
      BY <1>1, <1>10 DEF StartClosed, Goto, Park, LockType
    <2> QED BY <1>1, <1>3, <2>1, <2>2, <2>3 DEF RunInv, NothingRuns
  <1> QED BY <1>5, <1>6, <1>7, <1>8, <1>9, <1>10 DEF StartRun

\* stop_run is past its drain when the run is OFFLINE.
LEMMA RunStop ==
  ASSUME IInv, RunInv, "stop" \notin Faults, NEW k \in Tasks, StopRun(k)
  PROVE  RunInv'
PROOF
  <1>1. /\ LockType /\ LockDiscipline /\ LocType /\ DataType /\ WorkersInv /\ RunHeld
        /\ NothingEnabled /\ NothingRuns /\ IndexMatchesWorkers
    BY DEF IInv, ControlInv, RunInv
  <1>2. \A j \in Tasks \ {k} : pc'[j] = pc[j]
    BY <1>1, StopMoves, OthersStay
  <1>3. NothingEnabled'
    BY <1>1, GotoQuiet
       DEF StopRun, StopCall, StopWoken, StopLocked, StopDrained, StopWiped, StopClosed, StopAudited
  <1>4. CASE StopCall(k) \/ StopWoken(k)
    <2>1. IndexMatchesWorkers' /\ Running' = Running
      BY <1>1, <1>4 DEF StopCall, StopWoken, StopLocked, IndexMatchesWorkers, Running, mem
    <2>2. /\ runState' = runState \/ runState' = "stopping"
          /\ pc'[k] \in {"idle", "stop_wait", "stop_drain"}
      BY <1>1, <1>4, RunMoves
         DEF StopCall, StopWoken, StopLocked, Goto, Park, LockType, DataType, RS!RunStates
    <2> QED BY <1>1, <1>2, <1>3, <2>1, <2>2 DEF RunInv, NothingRuns
  <1>5. CASE StopDrained(k)
    <2>1. IndexMatchesWorkers' /\ Running' = {}
      BY <1>1, <1>5, DrainedIndex DEF StopDrained
    <2> QED BY <1>3, <2>1 DEF RunInv, NothingRuns
  <1>6. CASE StopWiped(k) \/ StopClosed(k)
    <2>1. IndexMatchesWorkers' /\ Running' = Running /\ Running = {}
      BY <1>1, <1>6 DEF StopWiped, StopClosed, IndexMatchesWorkers, Running, NothingRuns, mem
    <2> QED BY <1>3, <2>1 DEF RunInv, NothingRuns
  <1>7. CASE StopAudited(k)
    <2>1. IndexMatchesWorkers' /\ Running' = Running /\ runState' = runState /\ pc'[k] = "idle"
      BY <1>1, <1>7 DEF StopAudited, IndexMatchesWorkers, Running, Goto, Park, LockType, mem
    <2> QED BY <1>1, <1>2, <1>3, <2>1 DEF RunInv, NothingRuns
  <1> QED BY <1>4, <1>5, <1>6, <1>7 DEF StopRun

LEMMA RunNext ==
  ASSUME IInv, RunInv, Ops \cap Enabling = {}, "stop" \notin Faults, [Next]_vars
  PROVE  RunInv'
PROOF
  <1>1. ASSUME NEW k \in Tasks, Arrival(k) PROVE RunInv'
    BY <1>1, RunArrival
  <1>2. ASSUME NEW k \in Tasks, Progress(k) PROVE RunInv'
    BY <1>2, RunStart, RunStop, RunTargetControl, RunHandler DEF Progress
  <1>3. CASE ObsPublish \/ ObsPublishDone
    BY <1>3 DEF ObsPublish, ObsPublishDone, NotifyObsPublishBegan, NotifyObsPublishEnded,
                RunInv, NothingEnabled, NothingRuns, IndexMatchesWorkers, Running, mem
  <1>4. CASE Crash
    BY <1>4, NoLocalsQuiet
       DEF Crash, RunInv, NothingEnabled, NothingRuns, IndexMatchesWorkers, Running, NoWorkers
  <1>5. CASE UNCHANGED vars
    BY <1>5 DEF vars, mem, RunInv, NothingEnabled, NothingRuns, IndexMatchesWorkers, Running
  <1> QED BY <1>1, <1>2, <1>3, <1>4, <1>5 DEF Next

LEMMA RunInductive ==
  ASSUME Ops \cap Enabling = {}, "stop" \notin Faults
  PROVE  Spec => []RunInv
PROOF
  <1>1. ASSUME IInv, RunInv, [Next]_vars PROVE RunInv'
    BY <1>1, RunNext
  <1> QED BY <1>1, RunInit, Inductive, PTL DEF Spec

\* No worker outlives its run.
THEOREM NoWorkerOutlivesRun ==
  ASSUME Ops \cap Enabling = {}, "stop" \notin Faults
  PROVE  Spec => []NoWorkersOffline
PROOF
  <1>1. RunInv => NoWorkersOffline
    BY DEF RunInv, NothingRuns, NoWorkersOffline
  <1> QED BY <1>1, RunInductive, PTL

\* Every running worker can be found through its target.
THEOREM IndexComplete ==
  ASSUME Ops \cap Enabling = {}, "stop" \notin Faults
  PROVE  Spec => []IndexMatchesWorkers
PROOF
  <1>1. RunInv => IndexMatchesWorkers
    BY DEF RunInv
  <1> QED BY <1>1, RunInductive, PTL

-----------------------------------------------------------------------------
(* Where no target is deleted nobody holds the write lock over an await, so *)
(* a write fails for reasons of its own only.                              *)

NoDelete ==
  \A k \in Tasks : loc[k].then # "delete" /\ pc[k] \notin {"delete_call", "delete_row"}

LEMMA WritesSucceed ==
  ASSUME NoDelete, "db" \notin Faults
  PROVE  WriteLockFree /\ ~WriteFails
BY DEF NoDelete, WriteLockFree, WriteFails, Deleting, Waits

LEMMA ParkNoDelete ==
  ASSUME LockType, LocType, NoDelete, NEW k \in Tasks, NEW l \in Locals, NEW to,
         Park(k, to, l), l.then # "delete", to \notin {"delete_call", "delete_row"}
  PROVE  NoDelete'
PROOF
  <1>1. /\ pc'[k] = to
        /\ loc'[k] = l
        /\ \A j \in Tasks \ {k} : pc'[j] = pc[j] /\ loc'[j] = loc[j]
    BY DEF LockType, LocType, Park
  <1> QED BY <1>1 DEF NoDelete

LEMMA GotoNoDelete ==
  ASSUME LockType, LocType, NoDelete, NEW k \in Tasks, NEW to, Goto(k, to),
         to \notin {"delete_call", "delete_row"}
  PROVE  NoDelete'
PROOF
  <1>1. loc[k] \in Locals /\ loc[k].then # "delete"
    BY DEF LocType, NoDelete
  <1>2. NoLocals.then # "delete"
    BY DEF NoLocals
  <1> QED BY <1>1, <1>2, NoLocalsType, ParkNoDelete DEF Goto

\* enable_target and disable_target, for a caller that deletes nothing.
LEMMA ControlNoDelete ==
  ASSUME LockType, LocType, NoDelete, NEW k \in Tasks, NEW q,
         EnableTarget(k, q) \/ AfterDisable(k, q) \/ DisableLocked(k, q) \/ DisableTarget(k)
  PROVE  NoDelete'
PROOF
  <1>1. ASSUME NEW p, EnableTarget(k, p) PROVE NoDelete'
    BY <1>1, GotoNoDelete DEF EnableTarget
  <1>2. ASSUME NEW p, AfterDisable(k, p) PROVE NoDelete'
    BY <1>1, <1>2, GotoNoDelete DEF AfterDisable, NoDelete
  <1>3. ASSUME NEW p, DisableLocked(k, p) PROVE NoDelete'
    BY <1>2, <1>3, GotoNoDelete DEF DisableLocked
  <1>4. ASSUME DisableTarget(k) PROVE NoDelete'
    BY <1>3, <1>4, GotoNoDelete DEF DisableTarget
  <1> QED BY <1>1, <1>2, <1>3, <1>4

LEMMA ArrivalNoDelete ==
  ASSUME IInv, NoDelete, "delete" \notin Ops, NEW k \in Tasks, Arrival(k)
  PROVE  NoDelete'
PROOF
  <1>1. LockType /\ LocType
    BY DEF IInv
  <1>2. ASSUME NEW l \in Locals, NEW t \in Targets, NEW op, Request(k, op, t, l, "audit"),
               l.then # "delete"
        PROVE  NoDelete'
    <2> DEFINE m == [l EXCEPT !.t = t]
    <2>1. m \in Locals /\ m.then # "delete"
      BY <1>2 DEF Locals
    <2>2. Park(k, "audit", m)
      BY <1>2 DEF Request
    <2> HIDE DEF m
    <2> QED BY <1>1, <2>1, <2>2, ParkNoDelete
  <1>3. CASE ApiStart(k) \/ ApiStop(k)
    BY <1>1, <1>3, GotoNoDelete DEF ApiStart, ApiStop
  <1>4. ASSUME NEW t \in Targets, NEW want \in {"enabled", "disabled", "same"},
               UpdateTarget(k, t, want)
        PROVE  NoDelete'
    <2> DEFINE calls == CASE want = "enabled"  /\ row[t] = "disabled" -> <<"enable", "end">>
                          [] want = "disabled" /\ row[t] = "enabled"  -> <<"disable", "end">>
                          [] want = "same"     /\ row[t] = "enabled"  -> <<"disable", "enable">>
                          [] OTHER                                     -> <<"end", "end">>
               l == [NoLocals EXCEPT !.next = calls[1], !.then = calls[2]]
    <2>1. calls[1] \in {"end", "enable", "disable"} /\ calls[2] \in {"end", "enable"}
      OBVIOUS
    <2>2. l \in Locals /\ l.then # "delete"
      BY <2>1, NoLocalsType DEF Locals
    <2> QED BY <1>2, <1>4, <2>2 DEF UpdateTarget
  <1>5. ASSUME NEW next \in {"end", "enable", "disable"}
        PROVE  /\ [NoLocals EXCEPT !.next = next] \in Locals
               /\ [NoLocals EXCEPT !.next = next].then # "delete"
    BY NoLocalsType DEF Locals, NoLocals
  <1>6. NoLocals \in Locals /\ NoLocals.then # "delete"
    BY NoLocalsType DEF NoLocals
  <1>7. ASSUME NEW t \in Targets, NEW key \in Keys, SetCredential(k, t, key)
        PROVE  NoDelete'
    BY <1>2, <1>5, <1>7 DEF SetCredential
  <1>8. ASSUME NEW t \in Targets, ClearCredential(k, t)
        PROVE  NoDelete'
    BY <1>2, <1>5, <1>8 DEF ClearCredential
  <1>9. ASSUME NEW t \in Targets, NEW as \in {"enabled", "disabled"}, CreateTarget(k, t, as)
        PROVE  NoDelete'
    BY <1>2, <1>5, <1>9 DEF CreateTarget
  <1>10. \A t \in Targets : ~DeleteTarget(k, t)
    BY DEF DeleteTarget, Request
  <1> QED BY <1>3, <1>4, <1>7, <1>8, <1>9, <1>10 DEF Arrival

LEMMA ProgressNoDelete ==
  ASSUME IInv, NoDelete, NEW k \in Tasks, Progress(k)
  PROVE  NoDelete'
PROOF
  <1>1. LockType /\ LocType /\ DataType
    BY DEF IInv
  <1>2. ASSUME NEW S, NEW got \in Decrypted(S), NEW known, NEW to, NEW l,
               l \in {[loc[k] EXCEPT !.known = known, !.got = got], [loc[k] EXCEPT !.got = got]},
               known \in SUBSET Targets, Park(k, to, l),
               to \in {"start_spawn", "enable_spawn"}
        PROVE  NoDelete'
    <2>1. got \in [Targets -> Keys \cup {NoKey}] /\ loc[k] \in Locals
      BY <1>1, <1>2, DecryptedType DEF LocType
    <2>2. l \in Locals /\ l.then # "delete"
      BY <1>2, <2>1 DEF Locals, NoDelete
    <2> QED BY <1>1, <1>2, <2>2, ParkNoDelete
  <1>3. CASE StartRun(k)
    <2>1. CASE StartLoaded(k)
      BY <1>1, <1>2, <2>1, GotoNoDelete DEF StartLoaded
    <2>2. CASE StartCall(k) \/ StartWoken(k) \/ StartOpened(k) \/ StartSpawned(k)
      BY <1>1, <2>2, GotoNoDelete DEF StartCall, StartWoken, StartLocked, StartOpened, StartSpawned
    <2>3. CASE StartAudited(k) \/ StartUndone(k) \/ StartClosed(k)
      BY <1>1, <2>3, GotoNoDelete DEF StartAudited, StartUndone, StartClosed
    <2> QED BY <1>3, <2>1, <2>2, <2>3 DEF StartRun
  <1>4. CASE StopRun(k)
    BY <1>1, <1>4, GotoNoDelete
       DEF StopRun, StopCall, StopWoken, StopLocked, StopDrained, StopWiped, StopClosed, StopAudited
  <1>5. CASE TargetControl(k)
    <2>1. CASE EnableWoken(k) \/ EnableSpawned(k)
      BY <1>1, <2>1, GotoNoDelete DEF EnableWoken, EnableSpawned
    <2>2. CASE EnableLoaded(k)
      BY <1>1, <1>2, <2>2, GotoNoDelete DEF EnableLoaded
    <2>3. CASE DisableWoken(k)
      BY <1>1, <2>3, ControlNoDelete DEF DisableWoken
    <2>4. CASE DisableStopped(k)
      <3>1. CASE UNCHANGED <<queue, pc, loc>>
        BY <3>1 DEF NoDelete
      <3> QED BY <1>1, <2>4, <3>1, ControlNoDelete DEF DisableStopped
    <2> QED BY <1>5, <2>1, <2>2, <2>3, <2>4 DEF TargetControl
  <1>6. CASE Handler(k)
    BY <1>1, <1>6, GotoNoDelete, ControlNoDelete DEF Handler, DeleteCall, DeleteRow, Audited, NoDelete
  <1> QED BY <1>3, <1>4, <1>5, <1>6 DEF Progress

LEMMA NoDeleteInductive ==
  ASSUME "delete" \notin Ops
  PROVE  Spec => []NoDelete
PROOF
  <1>1. NoLocals.then # "delete"
    BY DEF NoLocals
  <1>2. Init => NoDelete
    BY <1>1 DEF Init, NoDelete
  <1>3. ASSUME IInv, NoDelete, [Next]_vars
        PROVE  NoDelete'
    <2>1. CASE ObsPublish \/ ObsPublishDone \/ Crash \/ UNCHANGED vars
      BY <1>1, <1>3, <2>1 DEF ObsPublish, ObsPublishDone, Crash, vars, NoDelete
    <2> QED BY <1>3, <2>1, ArrivalNoDelete, ProgressNoDelete DEF Next
  <1> QED BY <1>2, <1>3, Inductive, PTL DEF Spec

\* The rows of sessions_history without an end: that of the current run.
RowsExact == openRows = IF curRun = "open" THEN 1 ELSE 0

\* Where writes succeed a run opens one row, nothing else is open while it lasts,
\* and the row is closed with it, on every path through start_run and stop_run.
THEOREM OneOpenRow ==
  ASSUME "delete" \notin Ops, "db" \notin Faults
  PROVE  Spec => []RowsExact
PROOF
  <1>1. Init => RowsExact
    BY DEF Init, RowsExact
  <1>2. ASSUME IInv, NoDelete, RowsExact, [Next]_vars
        PROVE  RowsExact'
    <2>1. WriteLockFree /\ ~WriteFails
      BY <1>2, WritesSucceed
    <2>2. CASE UNCHANGED <<openRows, curRun>>
      BY <1>2, <2>2 DEF RowsExact
    <2>3. ASSUME CloseRunSession PROVE RowsExact'
      BY <1>2, <2>1, <2>3 DEF CloseRunSession, EndedRow, RowsExact
    <2>4. ASSUME NEW k \in Tasks, StartOpened(k) PROVE RowsExact'
      <3>1. curRun = "none"
        BY <1>2, <2>4 DEF StartOpened, IInv, ControlInv, SessionHeld
      <3> QED BY <1>2, <2>1, <2>4, <3>1 DEF StartOpened, StartedRow, RowsExact
    <2>5. ASSUME NEW k \in Tasks, StartRun(k) PROVE RowsExact'
      BY <2>2, <2>3, <2>4, <2>5
         DEF StartRun, StartCall, StartWoken, StartLocked, StartLoaded, StartSpawned, StartAudited,
             StartUndone, StartClosed, Spawn, db, mem
    <2>6. ASSUME NEW k \in Tasks, StopRun(k) PROVE RowsExact'
      BY <2>2, <2>3, <2>6
         DEF StopRun, StopCall, StopWoken, StopLocked, StopDrained, StopWiped, StopClosed,
             StopAudited, db, mem
    <2>7. ASSUME NEW k \in Tasks, Arrival(k) \/ TargetControl(k) \/ Handler(k)
          PROVE  RowsExact'
      BY <2>2, <2>7
         DEF Arrival, ApiStart, ApiStop, UpdateTarget, SetCredential, ClearCredential,
             CreateTarget, DeleteTarget, TargetControl, EnableWoken, EnableLoaded, EnableSpawned,
             DisableWoken, DisableStopped, Handler, DeleteCall, DeleteRow, Audited, db, mem
    <2>8. CASE ObsPublish \/ ObsPublishDone \/ UNCHANGED vars
      BY <2>2, <2>8 DEF ObsPublish, ObsPublishDone, vars, db, mem
    <2>9. CASE Crash
      BY <2>9 DEF Crash, RowsExact
    <2> QED BY <1>2, <2>5, <2>6, <2>7, <2>8, <2>9 DEF Next, Progress
  <1> QED BY <1>1, <1>2, Inductive, NoDeleteInductive, PTL DEF Spec

-----------------------------------------------------------------------------
(* Single-use keys: what a worker has pushed with belongs to a target in   *)
(* memory, which is what _wipe_per_session_credentials wipes.              *)

UsedInv ==
  /\ used \cap PerSession \subseteq targets
  /\ runState = "offline" => used \cap PerSession = {}
  /\ \A k \in Tasks :
       pc[k] \in {"start_open", "start_load", "start_spawn", "stop_close"} =>
         used \cap PerSession = {}

\* A step that uses no key, keeps the loaded targets and does not end a run.
LEMMA UsedElsewhere ==
  ASSUME LockType, UsedInv, NEW k \in Tasks, Moves(k),
         pc'[k] \notin RunAwaits, used' \subseteq used, targets' = targets, runState' = runState
  PROVE  UsedInv'
PROOF
  <1>1. \A j \in Tasks : pc'[j] = pc[j] \/ pc'[j] \notin RunAwaits
    BY DEF Moves, LockType
  <1> QED BY <1>1 DEF UsedInv, RunAwaits

LEMMA UsedStart ==
  ASSUME IInv, UsedInv, NEW k \in Tasks, StartRun(k)
  PROVE  UsedInv'
PROOF
  <1>1. LockType /\ LockDiscipline /\ LocType /\ DataType /\ RunHeld
    BY DEF IInv, ControlInv
  <1>2. Moves(k)
    BY <1>1, StartMoves
  <1>3. \A j \in Tasks \ {k} : pc'[j] = pc[j]
    BY <1>1, <1>2, OthersStay
  <1>4. CASE StartCall(k) \/ StartWoken(k)
    <2>1. used' = used /\ targets' = targets
      BY <1>4 DEF StartCall, StartWoken, StartLocked, db, mem
    <2>2. \/ runState' = runState /\ pc'[k] \in {"idle", "start_wait"}
          \/ runState = "offline" /\ runState' = "starting" /\ pc'[k] = "start_open"
      BY <1>1, <1>4 DEF StartCall, StartWoken, StartLocked, Goto, Park, LockType
    <2> QED BY <1>3, <2>1, <2>2 DEF UsedInv
  <1>5. CASE StartOpened(k) \/ StartLoaded(k)
    <2>1. UNCHANGED <<used, targets, runState>> /\ used \cap PerSession = {}
      BY <1>5 DEF StartOpened, StartLoaded, UsedInv, db, mem
    <2> QED BY <2>1 DEF UsedInv
  <1>6. CASE StartSpawned(k)
    <2>1. used \cap PerSession = {}
      BY <1>6 DEF StartSpawned, UsedInv
    <2>2. PICK S \in SUBSET loc[k].known : Spawn(k, S, {})
      BY <1>6 DEF StartSpawned
    <2>3. used' \subseteq used \cup S
      BY <2>2 DEF Spawn
    <2>4. used' \cap PerSession \subseteq targets'
      BY <1>6, <2>1, <2>2, <2>3 DEF StartSpawned
    <2>5. runState' \in {"starting", "armed"} /\ pc'[k] \in {"start_audit", "start_undo"}
      BY <1>1, <1>6, RunMoves DEF StartSpawned, RunHeld, Goto, Park, LockType
    <2>6. \A j \in Tasks \ {k} : pc'[j] \notin Locked
      BY <1>1, <1>2, <1>6, OthersStay DEF StartSpawned, Locked
    <2> QED BY <2>4, <2>5, <2>6 DEF UsedInv, Locked
  <1>7. CASE StartAudited(k) \/ StartUndone(k) \/ StartClosed(k)
    <2>1. UNCHANGED <<used, targets>>
      BY <1>7 DEF StartAudited, StartUndone, StartClosed, db, mem
    <2>2. /\ runState' \in {runState, "error"}
          /\ pc'[k] \in {"idle", "start_undo", "start_close"}
      BY <1>1, <1>7, RunMoves
         DEF StartAudited, StartUndone, StartClosed, RunHeld, Goto, Park, LockType
    <2> QED BY <1>3, <2>1, <2>2 DEF UsedInv
  <1> QED BY <1>4, <1>5, <1>6, <1>7 DEF StartRun

LEMMA UsedStop ==
  ASSUME IInv, UsedInv, NoDelete, "db" \notin Faults, NEW k \in Tasks, StopRun(k)
  PROVE  UsedInv'
PROOF
  <1>1. LockType /\ LockDiscipline /\ DataType /\ RunHeld
    BY DEF IInv, ControlInv
  <1>2. \A j \in Tasks \ {k} : pc'[j] = pc[j]
    BY <1>1, StopMoves, OthersStay
  <1>3. CASE StopCall(k) \/ StopWoken(k) \/ StopDrained(k) \/ StopAudited(k)
    <2>1. UNCHANGED <<used, targets>>
      BY <1>3 DEF StopCall, StopWoken, StopLocked, StopDrained, StopAudited, db, mem
    <2>2. /\ runState' = runState \/ runState' = "stopping"
          /\ pc'[k] \in {"idle", "stop_wait", "stop_drain", "stop_wipe"}
      BY <1>1, <1>3, RunMoves
         DEF StopCall, StopWoken, StopLocked, StopDrained, StopAudited, Goto, Park, LockType,
             DataType, RS!RunStates
    <2> QED BY <1>2, <2>1, <2>2 DEF UsedInv
  <1>4. CASE StopWiped(k)
    <2>1. used' = used \ (targets \cap PerSession)
      BY <1>4, WritesSucceed DEF StopWiped
    <2>2. used' \cap PerSession = {}
      BY <2>1 DEF UsedInv
    <2> QED BY <2>2 DEF UsedInv
  <1>5. CASE StopClosed(k)
    <2>1. UNCHANGED <<used, targets>> /\ used \cap PerSession = {}
      BY <1>5 DEF StopClosed, UsedInv
    <2> QED BY <2>1 DEF UsedInv
  <1> QED BY <1>3, <1>4, <1>5 DEF StopRun

LEMMA UsedOther ==
  ASSUME IInv, RunInv, UsedInv, Ops \cap Enabling = {}, NEW k \in Tasks,
         Arrival(k) \/ TargetControl(k) \/ Handler(k)
  PROVE  UsedInv'
PROOF
  <1>1. LockType /\ NothingEnabled
    BY DEF IInv, RunInv
  <1>2. CASE Arrival(k)
    <2>1. used' \subseteq used /\ targets' = targets /\ runState' = runState
      BY <1>2 DEF Arrival, ApiStart, ApiStop, UpdateTarget, SetCredential, ClearCredential, CreateTarget,
                  DeleteTarget, db, mem
    <2>2. pc'[k] \notin RunAwaits
      BY <1>1, <1>2, ArrivalParks DEF Unlocked, RunAwaits
    <2> QED BY <1>1, <1>2, <2>1, <2>2, ArrivalMoves, UsedElsewhere
  <1>3. CASE TargetControl(k)
    <2>1. DisableWoken(k) \/ DisableStopped(k)
      BY <1>1, <1>3 DEF TargetControl, EnableWoken, EnableLoaded, EnableSpawned, NothingEnabled
    <2>2. UNCHANGED <<used, targets, runState>>
      BY <2>1 DEF DisableWoken, DisableStopped, db, mem
    <2>3. pc'[k] \notin RunAwaits
      BY <1>1, <2>1
         DEF DisableWoken, DisableStopped, DisableLocked, AfterDisable, EnableTarget, Goto, Park,
             RunAwaits, LockType
    <2> QED BY <1>1, <1>3, <2>2, <2>3, ControlMoves, UsedElsewhere
  <1>4. CASE Handler(k)
    <2>1. used' \subseteq used /\ targets' = targets /\ runState' = runState
      BY <1>4 DEF Handler, DeleteCall, DeleteRow, Audited, db, mem
    <2>2. pc'[k] \notin RunAwaits
      BY <1>1, <1>4
         DEF Handler, DeleteCall, DeleteRow, Audited, DisableTarget,
             DisableLocked, AfterDisable, EnableTarget, Goto, Park, RunAwaits, LockType
    <2> QED BY <1>1, <1>4, <2>1, <2>2, HandlerMoves, UsedElsewhere
  <1> QED BY <1>2, <1>3, <1>4

\* "collected at START, wiped at END": a wipe that no DELETE target keeps from the
\* write lock, by a process that lives, leaves no used key of a single-use target
\* in the database.
THEOREM SingleUseKeysWiped ==
  ASSUME Ops \cap (Enabling \cup {"delete"}) = {}, Faults \subseteq {"decrypt"}
  PROVE  Spec => []SingleUseKeys
PROOF
  <1>1. Init => UsedInv
    BY DEF Init, UsedInv
  <1>2. ASSUME IInv, RunInv, NoDelete, UsedInv, [Next]_vars
        PROVE  UsedInv'
    <2>1. ASSUME NEW k \in Tasks, Arrival(k) \/ Progress(k) PROVE UsedInv'
      BY <1>2, <2>1, UsedStart, UsedStop, UsedOther DEF Progress
    <2>2. CASE ObsPublish \/ ObsPublishDone
      <3>1. /\ runState' = runState \/ runState' \in {"armed", "live"}
            /\ UNCHANGED <<pc, used, targets>>
        BY <2>2 DEF ObsPublish, ObsPublishDone, NotifyObsPublishBegan, NotifyObsPublishEnded,
                    db, mem
      <3> QED BY <1>2, <3>1 DEF UsedInv
    <2>3. CASE UNCHANGED vars
      BY <1>2, <2>3 DEF vars, db, mem, UsedInv
    <2>4. ~Crash
      BY DEF Crash
    <2> QED BY <1>2, <2>1, <2>2, <2>3, <2>4 DEF Next
  <1>3. UsedInv => SingleUseKeys
    BY DEF UsedInv, SingleUseKeys
  <1>4. Spec => []RunInv
    BY RunInductive
  <1>5. Spec => []NoDelete
    BY NoDeleteInductive
  <1> QED BY <1>1, <1>2, <1>3, <1>4, <1>5, Inductive, PTL DEF Spec
=============================================================================
