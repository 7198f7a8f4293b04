----------------------- MODULE SupervisorSerialProofs -----------------------
(***************************************************************************)
(* Proofs about Supervisor when requests come one at a time and nothing    *)
(* fails but the process itself: what runs is then what is configured, for *)
(* any targets and keys, and whatever OBS does meanwhile.  While a request *)
(* is under way the claim holds of every target but the one it is about;   *)
(* TaskInv says what holds of that one at each await.  PUT credential is   *)
(* left out: it does not restart a worker.                                 *)
(***************************************************************************)
EXTENDS SupervisorProofs

\* What WorkersMatchTargets says, of one target.
Matched(t) ==
  \A w \in WorkerIds :
    w[1] = t =>
      /\ w \in Running => row[t] = "enabled" /\ workers[w] = cred[t]
      /\ runState \in {"armed", "live"} /\ row[t] = "enabled" /\ cred[t] # NoKey => w \in Running

\* No worker of t runs, or none should.
Bare(t) == \A w \in Running : w[1] # t
Doomed(t) == row[t] # "enabled" \/ cred[t] = NoKey

\* The awaits of a handler whose row is written and whose workers are not yet
\* what the row says.
UnderWay == {"audit", "disable_stop", "delete_row", "enable_load", "enable_spawn"}

Disables(k) ==
  \/ pc[k] \in {"delete_call", "disable_stop"}
  \/ pc[k] = "audit" /\ loc[k].next = "disable"

TaskInv(k) ==
  LET t == loc[k].t
  IN  /\ pc[k] \notin Waiting \cup {"start_undo", "start_close"}
      /\ \A u \in Targets : Matched(u) \/ (u = t /\ pc[k] \in UnderWay)
      /\ pc[k] \in {"start_open", "start_load", "start_spawn", "stop_wipe", "stop_close"} =>
           Running = {}
      /\ pc[k] = "start_spawn" =>
           /\ loc[k].known = {u \in Targets : row[u] = "enabled"}
           /\ loc[k].got = [u \in Targets |-> IF row[u] = "enabled" THEN cred[u] ELSE NoKey]
      /\ pc[k] = "audit" /\ loc[k].next = "end" => Matched(t)
      /\ pc[k] = "audit" /\ loc[k].next = "enable" => Bare(t)
      /\ Disables(k) /\ loc[k].then = "end" => Doomed(t)
      /\ pc[k] \in {"delete_row", "enable_load", "enable_spawn"} => Bare(t)
      /\ pc[k] \in {"enable_load", "enable_spawn"} => runState \in Active
      /\ pc[k] = "enable_spawn" =>
           loc[k].got[t] = IF row[t] = "enabled" THEN cred[t] ELSE NoKey

SerialInv ==
  /\ IndexMatchesWorkers
  /\ \A t \in Targets : row[t] = "absent" => cred[t] = NoKey
  /\ runState \in {"offline", "error"} => Running = {}
  /\ \A k \in Tasks : TaskInv(k)

-----------------------------------------------------------------------------
(* A target, the lock and a single task.                                   *)

\* Nothing about u changes, and no run has become active.
LEMMA StaysMatched ==
  ASSUME NEW u \in Targets, Matched(u), UNCHANGED workers, row'[u] = row[u], cred'[u] = cred[u],
         runState' \in {"armed", "live"} => runState \in {"armed", "live"}
  PROVE  Matched(u)'
BY DEF Matched, Running

\* Without workers a target is as it should be when none should run.
LEMMA BareMatched ==
  ASSUME NEW u \in Targets, Bare(u), Doomed(u) \/ runState \notin {"armed", "live"}
  PROVE  Matched(u)
BY DEF Bare, Doomed, Matched

\* One task meets nobody at the lock.
LEMMA QueueOfOne ==
  ASSUME NEW k \in Tasks, Tasks = {k}, LockType, LockDiscipline
  PROVE  /\ pc[k] \notin Inside => queue = << >>
         /\ Holds(k) => Tail(queue) = << >>
         /\ Tail(Append(<< >>, k)) = << >>
PROOF
  <1>1. queue \in Seq(Tasks) /\ Len(queue) \in Nat /\ DOMAIN queue = 1 .. Len(queue)
    BY LenProperties DEF LockType
  <1>2. \A i \in 1 .. Len(queue) : queue[i] = k
    BY <1>1, ElementOfSeq
  <1>3. Len(queue) <= 1
    <2>1. SUFFICES ASSUME Len(queue) >= 2 PROVE FALSE
      BY <1>1
    <2>2. 1 \in DOMAIN queue /\ 2 \in DOMAIN queue /\ queue[1] = queue[2]
      BY <1>1, <1>2, <2>1
    <2> QED BY <2>2 DEF LockDiscipline
  <1>4. ASSUME pc[k] \notin Inside
        PROVE  queue = << >>
    <2>1. \A i \in DOMAIN queue : queue[i] # k
      BY <1>4 DEF LockDiscipline, Inside
    <2>2. Len(queue) = 0
      BY <1>1, <1>2, <2>1
    <2> QED BY <1>1, <2>2, EmptySeq
  <1>5. ASSUME Holds(k)
        PROVE  Tail(queue) = << >>
    <2>1. queue # << >>
      BY <1>5 DEF Holds
    <2>2. Tail(queue) \in Seq(Tasks) /\ Len(Tail(queue)) = Len(queue) - 1
      BY <1>1, <2>1, HeadTailProperties
    <2>3. Len(Tail(queue)) = 0
      BY <1>1, <1>3, <2>1, <2>2, EmptySeq
    <2> QED BY <2>2, <2>3, EmptySeq
  <1>6. Tail(Append(<< >>, k)) = << >>
    <2>1. << >> \in Seq(Tasks) /\ Len(<< >>) = 0
      BY EmptySeq
    <2>2. /\ Append(<< >>, k) \in Seq(Tasks) /\ Append(<< >>, k) # << >>
          /\ Len(Append(<< >>, k)) = 1
      BY <2>1, AppendProperties
    <2>3. Tail(Append(<< >>, k)) \in Seq(Tasks) /\ Len(Tail(Append(<< >>, k))) = 0
      BY <2>2, HeadTailProperties
    <2> QED BY <2>3, EmptySeq
  <1> QED BY <1>4, <1>5, <1>6

\* Where Goto leads.
LEMMA GotoIs ==
  ASSUME LockType, LocType, NEW k \in Tasks, NEW to, Goto(k, to)
  PROVE  /\ pc'[k] = to
         /\ to # "idle" => loc'[k] = loc[k]
BY DEF LockType, LocType, Goto, Park

\* A task at rest, or at an await where TaskInv has nothing to add.
LEMMA Settled ==
  ASSUME NEW k \in Tasks, \A u \in Targets : Matched(u)',
         pc'[k] \in {"idle", "start_call", "start_load", "start_open", "start_audit",
                    "stop_call", "stop_drain", "stop_wipe", "stop_close", "stop_audit"},
         pc'[k] \in {"start_open", "start_load", "stop_wipe", "stop_close"} => Running' = {}
  PROVE  TaskInv(k)'
BY DEF TaskInv, Waiting, Disables

\* enable_target, for a target that has no worker.
LEMMA EnableSettles ==
  ASSUME LockType, LocType, NEW k \in Tasks, NEW t \in Targets, t = loc[k].t,
         EnableTarget(k, << >>), runState' = runState, Bare(t)',
         \A u \in Targets \ {t} : Matched(u)'
  PROVE  TaskInv(k)'
PROOF
  <1>1. CASE runState \notin Active
    <2>1. pc'[k] = "idle"
      BY <1>1, GotoIs DEF EnableTarget
    <2>2. runState' \notin {"armed", "live"}
      BY <1>1 DEF Active
    <2>3. Matched(t)'
      BY <2>2 DEF Bare, Matched
    <2> QED BY <2>1, <2>3, Settled
  <1>2. CASE runState \in Active
    <2>1. pc'[k] = "enable_load" /\ loc'[k] = loc[k]
      BY <1>2, GotoIs DEF EnableTarget
    <2>2. loc'[k].t = t /\ runState' \in Active
      BY <1>2, <2>1
    <2> QED BY <2>1, <2>2 DEF TaskInv, UnderWay, Waiting, Disables
  <1> QED BY <1>1, <1>2

\* disable_target has left its target without a worker.
LEMMA DisabledSettles ==
  ASSUME LockType, LocType, NEW k \in Tasks, NEW t \in Targets, t = loc[k].t,
         AfterDisable(k, << >>), UNCHANGED <<runState, row, cred>>, Bare(t)',
         \A u \in Targets \ {t} : Matched(u)',
         loc[k].then = "end" => Doomed(t)
  PROVE  TaskInv(k)'
PROOF
  <1>0. loc[k].then \in {"end", "enable", "delete"}
    BY DEF LocType, Locals
  <1>1. CASE loc[k].then = "enable"
    BY <1>1, EnableSettles DEF AfterDisable
  <1>2. CASE loc[k].then = "delete"
    <2>1. pc'[k] = "delete_row" /\ loc'[k] = loc[k]
      BY <1>2, GotoIs DEF AfterDisable
    <2>2. loc'[k].t = t
      BY <2>1
    <2> QED BY <2>1, <2>2 DEF TaskInv, UnderWay, Waiting, Disables
  <1>3. CASE loc[k].then = "end"
    <2>1. pc'[k] = "idle"
      BY <1>3, GotoIs DEF AfterDisable
    <2>2. Matched(t)'
      BY <1>3 DEF Bare, Matched, Doomed
    <2> QED BY <2>1, <2>2, Settled
  <1> QED BY <1>0, <1>1, <1>2, <1>3

\* disable_target is entered.
LEMMA DisableSettles ==
  ASSUME LockType, LocType, NEW k \in Tasks, NEW t \in Targets, t = loc[k].t,
         IndexMatchesWorkers, Tail(Append(<< >>, k)) = << >>,
         queue = << >>, DisableTarget(k), UNCHANGED <<runState, row, cred, workers>>,
         \A u \in Targets \ {t} : Matched(u),
         loc[k].then = "end" => Doomed(t)
  PROVE  TaskInv(k)'
PROOF
  <1>1. DisableLocked(k, Append(<< >>, k))
    BY DEF DisableTarget, Joined
  <1>2. \A u \in Targets \ {t} : Matched(u)'
    BY StaysMatched
  <1>3. CASE WorkersOf(t) = {}
    <2>1. AfterDisable(k, << >>)
      BY <1>1, <1>3 DEF DisableLocked
    <2>2. Bare(t)'
      BY <1>3 DEF Bare, Running, WorkersOf, IndexMatchesWorkers
    <2> QED BY <1>2, <2>1, <2>2, DisabledSettles
  <1>4. CASE WorkersOf(t) # {}
    <2>1. pc'[k] = "disable_stop" /\ loc'[k] = loc[k]
      BY <1>1, <1>4, GotoIs DEF DisableLocked
    <2>2. loc'[k].t = t /\ (loc'[k].then = "end" => Doomed(t)')
      BY <2>1 DEF Doomed
    <2> QED BY <1>2, <2>1, <2>2 DEF TaskInv, UnderWay, Waiting, Disables
  <1> QED BY <1>3, <1>4

-----------------------------------------------------------------------------
(* Every step of the task keeps the invariant.                             *)

OneTask(k) == k \in Tasks /\ Tasks = {k} /\ Faults \subseteq {"crash"} /\ BadKeys = {} /\ "set" \notin Ops

\* Alone, a task that deletes no target finds the write lock free.
LEMMA WritesSucceed ==
  ASSUME NEW k, OneTask(k), pc[k] \notin {"delete_call", "delete_row", "disable_wait", "disable_stop"}
  PROVE  WriteLockFree /\ ~WriteFails
BY DEF OneTask, WriteLockFree, WriteFails, Deleting, Waits

LEMMA SerialInit ==
  ASSUME Init
  PROVE  SerialInv
PROOF
  <1>1. Running = {}
    BY DEF Init, Running, NoWorkers
  <1>2. \A u \in Targets : Matched(u)
    BY <1>1 DEF Init, Matched
  <1> QED BY <1>1, <1>2
          DEF Init, SerialInv, IndexMatchesWorkers, TaskInv, Waiting, Disables, UnderWay

\* Requests arrive when the task is idle, and every target is as it should be.
LEMMA SerialArrival ==
  ASSUME NEW k, OneTask(k), IInv, SerialInv, Arrival(k)
  PROVE  SerialInv'
PROOF
  <1>1. /\ k \in Tasks /\ Tasks = {k} /\ LockType /\ LocType /\ DataType /\ WorkersInv
        /\ TaskInv(k) /\ IndexMatchesWorkers
    BY DEF OneTask, IInv, SerialInv
  <1>2. pc[k] = "idle"
    BY DEF Arrival, ApiStart, ApiStop, UpdateTarget, SetCredential, ClearCredential, CreateTarget,
           DeleteTarget, Request
  <1>3. \A u \in Targets : Matched(u)
    BY <1>1, <1>2 DEF TaskInv, UnderWay
  <1>4. UNCHANGED <<runState, workers, t2w>>
    BY DEF Arrival, ApiStart, ApiStop, UpdateTarget, SetCredential, ClearCredential, CreateTarget,
           DeleteTarget, mem
  <1>5. IndexMatchesWorkers' /\ Running' = Running
    BY <1>1, <1>4 DEF IndexMatchesWorkers, Running
  <1>6. CASE ApiStart(k) \/ ApiStop(k)
    <2>1. UNCHANGED <<row, cred>> /\ pc'[k] \in {"start_call", "stop_call"}
      BY <1>1, <1>6, GotoIs DEF ApiStart, ApiStop, db
    <2>2. \A u \in Targets : Matched(u)'
      BY <1>3, <1>4, <2>1, StaysMatched
    <2>3. TaskInv(k)'
      BY <1>1, <2>1, <2>2, Settled
    <2> QED BY <1>1, <1>4, <1>5, <2>1, <2>3 DEF SerialInv
  <1>7. ASSUME NEW t \in Targets, NEW want \in {"enabled", "disabled", "same"},
               UpdateTarget(k, t, want)
        PROVE  SerialInv'
    <2>1. /\ row' = IF want = "same" THEN row ELSE [row EXCEPT ![t] = want]
          /\ cred' = cred /\ pc'[k] = "audit" /\ loc'[k].t = t
          /\ \/ /\ want = "enabled" /\ row[t] = "disabled"
                /\ loc'[k].next = "enable" /\ loc'[k].then = "end"
             \/ /\ want = "disabled" /\ row[t] = "enabled"
                /\ loc'[k].next = "disable" /\ loc'[k].then = "end"
             \/ /\ want = "same" /\ row[t] = "enabled"
                /\ loc'[k].next = "disable" /\ loc'[k].then = "enable"
             \/ /\ want = "same" \/ want = row[t]
                /\ loc'[k].next = "end" /\ loc'[k].then = "end"
      <3> DEFINE calls == CASE want = "enabled"  /\ row[t] = "disabled" -> <<"enable", "end">>
                            [] want = "disabled" /\ row[t] = "enabled"  -> <<"disable", "end">>
                            [] want = "same"     /\ row[t] = "enabled"  -> <<"disable", "enable">>
                            [] OTHER                                     -> <<"end", "end">>
      <3>1. /\ row' = IF want = "same" THEN row ELSE [row EXCEPT ![t] = want]
            /\ cred' = cred
            /\ Park(k, "audit", [[NoLocals EXCEPT !.next = calls[1], !.then = calls[2]] EXCEPT !.t = t])
        BY <1>7 DEF UpdateTarget, Request
      <3>2. row[t] \in {"enabled", "disabled"}
        BY <1>7 DEF UpdateTarget, Exists
      <3>3. \/ want = "enabled" /\ row[t] = "disabled" /\ calls = <<"enable", "end">>
            \/ want = "disabled" /\ row[t] = "enabled" /\ calls = <<"disable", "end">>
            \/ want = "same" /\ row[t] = "enabled" /\ calls = <<"disable", "enable">>
            \/ (want = "same" \/ want = row[t]) /\ calls = <<"end", "end">>
        BY <3>2
      <3> HIDE DEF calls
      <3>4. /\ pc'[k] = "audit" /\ loc'[k].t = t
            /\ loc'[k].next = calls[1] /\ loc'[k].then = calls[2]
        BY <1>1, <3>1 DEF Park, LockType, LocType, NoLocals
      <3> QED BY <3>1, <3>3, <3>4
    <2>2. /\ \A u \in Targets \ {t} : row'[u] = row[u]
          /\ row'[t] = IF want = "same" THEN row[t] ELSE want
      BY <1>1, <2>1 DEF DataType
    <2>3. \A u \in Targets \ {t} : Matched(u)'
      BY <1>3, <1>4, <2>1, <2>2, StaysMatched
    <2>4. loc'[k].next = "end" => Matched(t)'
      BY <1>3, <1>4, <2>1, <2>2, StaysMatched
    <2>5. loc'[k].next = "enable" => Bare(t)'
      BY <1>3, <1>5, <2>1 DEF Bare, Matched, Running
    <2>6. loc'[k].next = "disable" /\ loc'[k].then = "end" => Doomed(t)'
      BY <2>1, <2>2 DEF Doomed
    <2>7. TaskInv(k)'
      BY <2>1, <2>3, <2>4, <2>5, <2>6 DEF TaskInv, UnderWay, Waiting, Disables
    <2>8. \A u \in Targets : row'[u] = "absent" => cred'[u] = NoKey
      BY <1>7, <2>1, <2>2 DEF SerialInv, UpdateTarget, Exists
    <2> QED BY <1>1, <1>4, <1>5, <2>7, <2>8 DEF SerialInv
  <1>8. ASSUME NEW t \in Targets, ClearCredential(k, t)
        PROVE  SerialInv'
    <2>1. /\ row' = row /\ cred' = [cred EXCEPT ![t] = NoKey] /\ pc'[k] = "audit"
          /\ loc'[k] = [[NoLocals EXCEPT !.next = "disable"] EXCEPT !.t = t]
      BY <1>1, <1>8 DEF ClearCredential, Request, Park, LockType, LocType
    <2>2. loc'[k].t = t /\ loc'[k].next = "disable"
      BY <2>1 DEF NoLocals
    <2>3. /\ \A u \in Targets \ {t} : cred'[u] = cred[u]
          /\ cred'[t] = NoKey
      BY <1>1, <2>1 DEF DataType
    <2>4. \A u \in Targets \ {t} : Matched(u)'
      BY <1>3, <1>4, <2>1, <2>3, StaysMatched
    <2>5. Doomed(t)'
      BY <2>3 DEF Doomed
    <2>6. TaskInv(k)'
      BY <2>1, <2>2, <2>4, <2>5 DEF TaskInv, UnderWay, Waiting
    <2>7. \A u \in Targets : row'[u] = "absent" => cred'[u] = NoKey
      BY <2>1, <2>3 DEF SerialInv
    <2> QED BY <1>1, <1>4, <1>5, <2>6, <2>7 DEF SerialInv
  <1>9. ASSUME NEW t \in Targets, NEW as \in {"enabled", "disabled"}, CreateTarget(k, t, as)
        PROVE  SerialInv'
    <2>1. /\ row[t] = "absent" /\ row' = [row EXCEPT ![t] = as] /\ cred' = cred /\ pc'[k] = "audit"
          /\ loc'[k] = [[NoLocals EXCEPT !.next = IF as = "enabled" THEN "enable" ELSE "end"]
                         EXCEPT !.t = t]
      BY <1>1, <1>9 DEF CreateTarget, Request, Park, LockType, LocType
    <2>2. loc'[k].t = t /\ loc'[k].next = IF as = "enabled" THEN "enable" ELSE "end"
      BY <2>1 DEF NoLocals
    <2>3. row'[t] = as /\ \A u \in Targets \ {t} : row'[u] = row[u]
      BY <1>1, <2>1 DEF DataType
    <2>4. \A u \in Targets \ {t} : Matched(u)'
      BY <1>3, <1>4, <2>1, <2>3, StaysMatched
    <2>5. Bare(t)
      BY <1>3, <2>1 DEF Bare, Matched, Running
    <2>6. cred[t] = NoKey
      BY <2>1 DEF SerialInv
    <2>7. Bare(t)' /\ Matched(t)'
      BY <1>4, <2>1, <2>5, <2>6 DEF Bare, Matched, Running
    <2>8. TaskInv(k)'
      BY <2>1, <2>2, <2>4, <2>7 DEF TaskInv, UnderWay, Waiting, Disables
    <2>9. \A u \in Targets : row'[u] = "absent" => cred'[u] = NoKey
      BY <2>1, <2>3, <2>6 DEF SerialInv
    <2> QED BY <1>1, <1>4, <1>5, <2>8, <2>9 DEF SerialInv
  <1>10. ASSUME NEW t \in Targets, DeleteTarget(k, t)
         PROVE  SerialInv'
    <2>1. /\ UNCHANGED <<row, cred>> /\ pc'[k] = "delete_call"
          /\ loc'[k] = [[NoLocals EXCEPT !.then = "delete"] EXCEPT !.t = t]
      BY <1>1, <1>10 DEF DeleteTarget, Request, Park, LockType, LocType, db
    <2>2. loc'[k].t = t /\ loc'[k].then = "delete"
      BY <2>1 DEF NoLocals
    <2>3. \A u \in Targets : Matched(u)'
      BY <1>3, <1>4, <2>1, StaysMatched
    <2>4. TaskInv(k)'
      BY <2>1, <2>2, <2>3 DEF TaskInv, Waiting, Disables
    <2> QED BY <1>1, <1>4, <1>5, <2>1, <2>4 DEF SerialInv
  <1>11. \A t \in Targets, key \in Keys : ~SetCredential(k, t, key)
    BY DEF SetCredential, Request, OneTask
  <1> QED BY <1>6, <1>7, <1>8, <1>9, <1>10, <1>11 DEF Arrival

\* start_run finds nothing running and spawns what the rows say.
LEMMA SerialStart ==
  ASSUME NEW k, OneTask(k), IInv, SerialInv, StartRun(k)
  PROVE  SerialInv'
PROOF
  <1>1. /\ k \in Tasks /\ Tasks = {k} /\ LockType /\ LocType /\ DataType /\ WorkersInv
        /\ RunHeld /\ TaskInv(k) /\ IndexMatchesWorkers
    BY DEF OneTask, IInv, ControlInv, SerialInv
  <1>2. pc[k] \in {"start_call", "start_open", "start_load", "start_spawn", "start_audit"}
    BY <1>1 DEF StartRun, StartCall, StartWoken, StartOpened, StartLoaded, StartSpawned, StartAudited,
                StartUndone, StartClosed, TaskInv, Waiting
  <1>3. \A u \in Targets : Matched(u)
    BY <1>1, <1>2 DEF TaskInv, UnderWay
  <1>4. UNCHANGED <<row, cred>>
    BY <1>2 DEF StartRun, StartCall, StartWoken, StartLocked, StartOpened, StartLoaded, StartSpawned,
                StartAudited, StartUndone, StartClosed, db
  <1>5. CASE StartCall(k) \/ StartOpened(k) \/ StartAudited(k)
    <2>1. UNCHANGED <<workers, t2w>>
      BY <1>5 DEF StartCall, StartLocked, StartOpened, StartAudited, mem
    <2>2. IndexMatchesWorkers' /\ Running' = Running
      BY <1>1, <2>1 DEF IndexMatchesWorkers, Running
    <2>3. \/ runState' = runState /\ pc'[k] \in {"idle", "start_load"}
          \/ runState = "offline" /\ runState' = "starting" /\ pc'[k] = "start_open"
      <3>1. CASE StartCall(k)
        <4>1. queue = << >>
          BY <1>1, <3>1, QueueOfOne DEF StartCall, IInv, Inside, Locked, Waiting
        <4> QED BY <1>1, <3>1, <4>1, GotoIs DEF StartCall, StartLocked
      <3>2. CASE StartOpened(k)
        BY <1>1, <3>2, GotoIs, WritesSucceed DEF StartOpened
      <3>3. CASE StartAudited(k)
        BY <1>1, <3>3, GotoIs, WritesSucceed DEF StartAudited
      <3> QED BY <1>5, <3>1, <3>2, <3>3
    <2>4. pc'[k] \in {"start_open", "start_load"} => Running' = {}
      <3>1. pc'[k] = "start_load" => pc[k] = "start_open"
        BY <1>1, <1>5, GotoIs DEF StartCall, StartLocked, StartOpened, StartAudited
      <3> QED BY <1>1, <2>2, <2>3, <3>1 DEF TaskInv, SerialInv
    <2>5. \A u \in Targets : Matched(u)'
      BY <1>3, <1>4, <2>1, <2>3, StaysMatched
    <2>6. TaskInv(k)'
      BY <1>1, <2>3, <2>4, <2>5, Settled
    <2> QED BY <1>1, <1>4, <2>2, <2>3, <2>6 DEF SerialInv
  <1>6. CASE StartLoaded(k)
    <2> DEFINE enabled == {u \in Targets : row[u] = "enabled"}
               keys == [u \in Targets |-> IF row[u] = "enabled" THEN cred[u] ELSE NoKey]
    <2>1. UNCHANGED <<workers, t2w, runState>> /\ pc[k] = "start_load"
      BY <1>6 DEF StartLoaded, mem
    <2>2. PICK got \in Decrypted(enabled) :
            Park(k, "start_spawn", [loc[k] EXCEPT !.known = enabled, !.got = got])
      BY <1>6 DEF StartLoaded, OneTask
    <2>3. got = keys
      BY <2>2 DEF Decrypted, OneTask
    <2>4. pc'[k] = "start_spawn" /\ loc'[k].known = enabled /\ loc'[k].got = keys
      BY <1>1, <2>2, <2>3 DEF Park, LockType, LocType, Locals
    <2>5. IndexMatchesWorkers' /\ Running' = Running /\ Running = {}
      BY <1>1, <2>1 DEF IndexMatchesWorkers, Running, TaskInv
    <2>6. \A u \in Targets : Matched(u)'
      BY <1>3, <1>4, <2>1, StaysMatched
    <2>7. TaskInv(k)'
      BY <1>4, <2>4, <2>5, <2>6 DEF TaskInv, Waiting, Disables
    <2> QED BY <1>1, <1>4, <2>1, <2>5, <2>7 DEF SerialInv
  <1>7. CASE StartSpawned(k)
    <2> DEFINE keys == [u \in Targets |-> IF row[u] = "enabled" THEN cred[u] ELSE NoKey]
    <2>1. /\ Running = {} /\ loc[k].got = keys
          /\ loc[k].known = {u \in Targets : row[u] = "enabled"}
      BY <1>1, <1>7 DEF StartSpawned, TaskInv
    <2>2. Spawn(k, loc[k].known, {}) /\ Goto(k, "start_audit")
      BY <1>7 DEF StartSpawned, OneTask
    <2>3. pc'[k] = "start_audit" /\ runState' = "armed"
      BY <1>1, <1>7, <2>2, GotoIs, RunMoves DEF StartSpawned, RunHeld, OneTask
    <2>4. \A w \in WorkerIds : w[1] \in Targets /\ workers[w] = NoKey
      BY <2>1, WorkerIdsTargets DEF Running
    <2>5. /\ workers' = [w \in WorkerIds |-> IF row[w[1]] = "enabled" THEN cred[w[1]] ELSE NoKey]
          /\ t2w' = {w \in WorkerIds : row[w[1]] = "enabled" /\ cred[w[1]] # NoKey}
      BY <2>1, <2>2, <2>4 DEF Spawn
    <2>6. IndexMatchesWorkers'
      BY <2>5 DEF IndexMatchesWorkers, Running
    <2>7. \A u \in Targets : Matched(u)'
      BY <1>4, <2>5 DEF Matched, Running
    <2>8. TaskInv(k)'
      BY <1>1, <2>3, <2>7, Settled
    <2> QED BY <1>1, <1>4, <2>3, <2>6, <2>8 DEF SerialInv
  <1>8. ~StartWoken(k) /\ ~StartUndone(k) /\ ~StartClosed(k)
    BY <1>2 DEF StartWoken, StartUndone, StartClosed
  <1> QED BY <1>5, <1>6, <1>7, <1>8 DEF StartRun

\* stop_run leaves nothing running, so the wipe of credentials touches no worker.
LEMMA SerialStop ==
  ASSUME NEW k, OneTask(k), IInv, SerialInv, StopRun(k)
  PROVE  SerialInv'
PROOF
  <1>1. /\ k \in Tasks /\ Tasks = {k} /\ LockType /\ LocType /\ DataType /\ WorkersInv
        /\ RunHeld /\ TaskInv(k) /\ IndexMatchesWorkers
    BY DEF OneTask, IInv, ControlInv, SerialInv
  <1>2. pc[k] \in {"stop_call", "stop_drain", "stop_wipe", "stop_close", "stop_audit"}
    BY <1>1 DEF StopRun, StopCall, StopWoken, StopDrained, StopWiped, StopClosed, StopAudited,
                TaskInv, Waiting
  <1>3. \A u \in Targets : Matched(u)
    BY <1>1, <1>2 DEF TaskInv, UnderWay
  <1>4. CASE StopCall(k) \/ StopAudited(k)
    <2>1. UNCHANGED <<workers, t2w, row, cred>>
      BY <1>4 DEF StopCall, StopLocked, StopAudited, mem, db
    <2>2. IndexMatchesWorkers' /\ Running' = Running
      BY <1>1, <2>1 DEF IndexMatchesWorkers, Running
    <2>3. \/ runState' = runState /\ pc'[k] = "idle"
          \/ runState' = "stopping" /\ pc'[k] = "stop_drain"
      <3>1. CASE StopCall(k)
        <4>1. queue = << >>
          BY <1>1, <3>1, QueueOfOne DEF StopCall, IInv, Inside, Locked, Waiting
        <4>2. runState \in {"offline", "stopping", "error", "starting", "armed", "live"}
          BY <1>1 DEF DataType, RS!RunStates
        <4> QED BY <1>1, <3>1, <4>1, <4>2, GotoIs, RunMoves DEF StopCall, StopLocked
      <3>2. CASE StopAudited(k)
        BY <1>1, <3>2, GotoIs DEF StopAudited
      <3> QED BY <1>4, <3>1, <3>2
    <2>4. \A u \in Targets : Matched(u)'
      BY <1>3, <2>1, <2>3, StaysMatched
    <2>5. TaskInv(k)'
      BY <1>1, <2>3, <2>4, Settled
    <2> QED BY <1>1, <2>1, <2>2, <2>3, <2>5 DEF SerialInv
  <1>5. CASE StopDrained(k)
    <2>1. TearDown(Running) /\ pc'[k] = "stop_wipe" /\ UNCHANGED <<row, cred, runState>>
      BY <1>1, <1>5, GotoIs DEF StopDrained, TearDownAll, OneTask, db
    <2>2. /\ workers' = [w \in WorkerIds |-> IF w \in Running THEN NoKey ELSE workers[w]]
          /\ t2w' = t2w \ Running
      BY <2>1 DEF TearDown
    <2>3. Running' = {} /\ IndexMatchesWorkers'
      BY <1>1, <2>2 DEF Running, IndexMatchesWorkers
    <2>4. runState = "stopping"
      BY <1>1, <1>5 DEF StopDrained, RunHeld
    <2>5. \A u \in Targets : Matched(u)'
      BY <2>1, <2>3, <2>4 DEF Matched
    <2>6. TaskInv(k)'
      BY <1>1, <2>1, <2>3, <2>5, Settled
    <2> QED BY <1>1, <2>1, <2>3, <2>6 DEF SerialInv
  <1>6. CASE StopWiped(k) \/ StopClosed(k)
    <2>1. UNCHANGED <<workers, t2w, row>> /\ Running = {}
      BY <1>1, <1>6 DEF StopWiped, StopClosed, TaskInv, mem
    <2>2. IndexMatchesWorkers' /\ Running' = {}
      BY <1>1, <2>1 DEF IndexMatchesWorkers, Running
    <2>3. runState' \in {"stopping", "offline"} /\ pc'[k] \in {"stop_close", "stop_audit"}
      BY <1>1, <1>6, GotoIs, RunMoves DEF StopWiped, StopClosed, RunHeld
    <2>4. \A u \in Targets : cred'[u] = cred[u] \/ cred'[u] = NoKey
      BY <1>6 DEF StopWiped, StopClosed
    <2>5. \A u \in Targets : Matched(u)'
      BY <2>2, <2>3 DEF Matched
    <2>6. TaskInv(k)'
      BY <1>1, <2>2, <2>3, <2>5, Settled
    <2> QED BY <1>1, <2>1, <2>2, <2>4, <2>6 DEF SerialInv
  <1>7. ~StopWoken(k)
    BY <1>2 DEF StopWoken
  <1> QED BY <1>4, <1>5, <1>6, <1>7 DEF StopRun

\* enable_target and disable_target bring a target in line with its row.
LEMMA SerialControl ==
  ASSUME NEW k, OneTask(k), IInv, SerialInv, TargetControl(k)
  PROVE  SerialInv'
PROOF
  <1>1. /\ k \in Tasks /\ Tasks = {k} /\ LockType /\ LocType /\ DataType /\ WorkersInv
        /\ TaskInv(k) /\ IndexMatchesWorkers
    BY DEF OneTask, IInv, SerialInv
  <1>0. PICK t \in Targets : t = loc[k].t
    BY <1>1 DEF LocType, Locals
  <1>2. pc[k] \in {"enable_load", "enable_spawn", "disable_stop"}
    BY <1>0, <1>1 DEF TargetControl, EnableWoken, EnableLoaded, EnableSpawned, DisableWoken, DisableStopped,
                TaskInv, Waiting
  <1>3. \A u \in Targets \ {t} : Matched(u)
    BY <1>0, <1>1 DEF TaskInv
  <1>4. UNCHANGED <<row, cred, runState>>
    BY <1>2 DEF TargetControl, EnableWoken, EnableLoaded, EnableSpawned, DisableWoken, DisableStopped,
                db
  <1>5. CASE EnableLoaded(k)
    <2>1. UNCHANGED <<workers, t2w>> /\ pc[k] = "enable_load"
      BY <1>5 DEF EnableLoaded, mem
    <2>2. Bare(t) /\ runState \in Active
      BY <1>0, <1>1, <2>1 DEF TaskInv
    <2>3. IndexMatchesWorkers' /\ Running' = Running
      BY <1>0, <1>1, <2>1 DEF IndexMatchesWorkers, Running
    <2>4. \A u \in Targets \ {t} : Matched(u)'
      BY <1>3, <1>4, <2>1, StaysMatched
    <2>5. CASE ~Exists(t) /\ Goto(k, "idle")
      <3>1. pc'[k] = "idle"
        BY <1>0, <1>1, <2>5, GotoIs
      <3>2. Matched(t)
        BY <1>0, <1>1, <2>2, <2>5, BareMatched DEF Exists, Doomed
      <3>3. Matched(t)'
        BY <1>0, <1>1, <1>4, <2>1, <3>2, StaysMatched
      <3>4. TaskInv(k)'
        BY <1>0, <1>1, <2>4, <3>1, <3>3, Settled
      <3> QED BY <1>0, <1>1, <1>4, <2>3, <3>4 DEF SerialInv
    <2>6. ASSUME NEW got \in Decrypted(IF row[t] = "enabled" THEN {t} ELSE {}),
                 Park(k, "enable_spawn", [loc[k] EXCEPT !.got = got])
          PROVE  SerialInv'
      <3>1. got[t] = IF row[t] = "enabled" THEN cred[t] ELSE NoKey
        BY <1>0, <1>1, <2>6 DEF Decrypted, OneTask
      <3>2. pc'[k] = "enable_spawn" /\ loc'[k].t = t /\ loc'[k].got = got
        BY <1>0, <1>1, <2>6 DEF Park, LockType, LocType, Locals
      <3>3. Bare(t)'
        BY <2>2, <2>3 DEF Bare
      <3>4. TaskInv(k)'
        BY <1>0, <1>4, <2>2, <2>4, <3>1, <3>2, <3>3 DEF TaskInv, UnderWay, Waiting, Disables
      <3> QED BY <1>0, <1>1, <1>4, <2>3, <3>4 DEF SerialInv
    <2> QED BY <1>0, <1>5, <2>5, <2>6 DEF EnableLoaded, OneTask
  <1>6. CASE EnableSpawned(k)
    <2>1. /\ pc[k] = "enable_spawn" /\ Bare(t) /\ runState \in Active
          /\ loc[k].got[t] = IF row[t] = "enabled" THEN cred[t] ELSE NoKey
      BY <1>0, <1>1, <1>6 DEF EnableSpawned, TaskInv
    <2>2. Spawn(k, {t}, t2w) /\ pc'[k] = "idle"
      BY <1>0, <1>1, <1>6, GotoIs DEF EnableSpawned, OneTask
    <2> DEFINE new == {w \in WorkerIds : w[1] = t /\ row[t] = "enabled" /\ cred[t] # NoKey}
    <2>3. \A w \in WorkerIds : w[1] = t => workers[w] = NoKey
      BY <2>1 DEF Bare, Running
    <2>4. /\ workers' = [w \in WorkerIds |-> IF w \in new THEN cred[t] ELSE workers[w]]
          /\ t2w' = t2w \cup new
      <3>1. new = {w \in WorkerIds : w[1] \in {t} /\ loc[k].got[w[1]] # NoKey /\ workers[w] = NoKey}
        BY <2>1, <2>3
      <3>2. \A w \in new : loc[k].got[w[1]] = cred[t]
        BY <2>1
      <3> QED BY <2>2, <3>1, <3>2 DEF Spawn
    <2>5. Running' = Running \cup new
      BY <2>4 DEF Running
    <2>6. IndexMatchesWorkers'
      BY <1>0, <1>1, <2>4, <2>5 DEF IndexMatchesWorkers
    <2>7. \A u \in Targets \ {t} : Matched(u)'
      BY <1>3, <1>4, <2>4, <2>5 DEF Matched
    <2>8. Matched(t)'
      BY <1>4, <2>3, <2>4, <2>5 DEF Matched, Running
    <2>9. TaskInv(k)'
      BY <1>0, <1>1, <2>2, <2>7, <2>8, Settled
    <2>10. runState' \notin {"offline", "error"}
      BY <1>4, <2>1 DEF Active
    <2> QED BY <1>0, <1>1, <1>4, <2>6, <2>9, <2>10 DEF SerialInv
  <1>7. CASE DisableStopped(k)
    <2>1. PICK w \in WorkersOf(t) :
            /\ TearDown({w})
            /\ IF WorkersOf(t) = {w} THEN AfterDisable(k, Tail(queue)) ELSE UNCHANGED <<queue, pc, loc>>
      BY <1>0, <1>7 DEF DisableStopped
    <2>2. pc[k] = "disable_stop"
      BY <1>7 DEF DisableStopped
    <2>3. w \in WorkerIds /\ w[1] = t /\ w \in Running
      BY <1>0, <1>1, <2>1 DEF WorkersOf, IndexMatchesWorkers, Running
    <2>4. /\ workers' = [v \in WorkerIds |-> IF v = w THEN NoKey ELSE workers[v]]
          /\ t2w' = t2w \ {w}
      BY <2>1 DEF TearDown
    <2>5. Running' = Running \ {w}
      BY <2>4 DEF Running
    <2>6. IndexMatchesWorkers'
      BY <1>0, <1>1, <2>4, <2>5 DEF IndexMatchesWorkers
    <2>7. \A u \in Targets \ {t} : Matched(u)'
      BY <1>3, <1>4, <2>3, <2>4, <2>5 DEF Matched
    <2>8. loc[k].then = "end" => Doomed(t)
      BY <1>0, <1>1, <2>2 DEF TaskInv, Disables
    <2>9. CASE WorkersOf(t) = {w}
      <3>1. Tail(queue) = << >>
        BY <1>0, <1>1, <2>2, QueueOfOne DEF IInv, LockDiscipline, Locked
      <3>2. Bare(t)'
        BY <1>0, <1>1, <2>5, <2>9 DEF Bare, WorkersOf, IndexMatchesWorkers, Running
      <3>3. TaskInv(k)'
        BY <1>0, <1>1, <1>4, <2>1, <2>7, <2>8, <2>9, <3>1, <3>2, DisabledSettles
      <3> QED BY <1>0, <1>1, <1>4, <2>5, <2>6, <3>3 DEF SerialInv
    <2>10. CASE WorkersOf(t) # {w}
      <3>1. pc' = pc /\ loc' = loc
        BY <2>1, <2>10
      <3>2. TaskInv(k)'
        BY <1>0, <1>4, <2>2, <2>7, <2>8, <3>1 DEF TaskInv, UnderWay, Waiting, Disables, Doomed
      <3> QED BY <1>0, <1>1, <1>4, <2>5, <2>6, <3>2 DEF SerialInv
    <2> QED BY <2>9, <2>10
  <1>8. ~EnableWoken(k) /\ ~DisableWoken(k)
    BY <1>2 DEF EnableWoken, DisableWoken
  <1> QED BY <1>5, <1>6, <1>7, <1>8 DEF TargetControl

\* A handler writes its row and tells the supervisor of it, or there is nothing
\* to tell.
LEMMA SerialHandler ==
  ASSUME NEW k, OneTask(k), IInv, SerialInv, Handler(k)
  PROVE  SerialInv'
PROOF
  <1>1. /\ k \in Tasks /\ Tasks = {k} /\ LockType /\ LockDiscipline /\ LocType /\ DataType
        /\ WorkersInv /\ TaskInv(k) /\ IndexMatchesWorkers
    BY DEF OneTask, IInv, SerialInv
  <1>2. PICK t \in Targets : t = loc[k].t
    BY <1>1 DEF LocType, Locals
  <1>3. pc[k] \in {"delete_call", "delete_row", "audit"}
    BY <1>1 DEF Handler, DeleteCall, DeleteRow, Audited, TaskInv
  <1>4. queue = << >> /\ Tail(Append(<< >>, k)) = << >>
    BY <1>1, <1>3, QueueOfOne DEF Inside, Locked, Waiting
  <1>5. \A u \in Targets \ {t} : Matched(u)
    BY <1>1, <1>2 DEF TaskInv
  <1>6. UNCHANGED <<workers, t2w, runState>>
    BY <1>3 DEF Handler, DeleteCall, DeleteRow, Audited, mem
  <1>7. IndexMatchesWorkers' /\ Running' = Running
    BY <1>1, <1>6 DEF IndexMatchesWorkers, Running
  <1>8. CASE DeleteCall(k)
    <2>1. UNCHANGED <<row, cred>> /\ DisableTarget(k) /\ pc[k] = "delete_call"
      BY <1>8 DEF DeleteCall, db
    <2>2. loc[k].then = "end" => Doomed(t)
      BY <1>1, <1>2, <2>1 DEF TaskInv, Disables
    <2>3. TaskInv(k)'
      BY <1>1, <1>2, <1>4, <1>5, <1>6, <2>1, <2>2, DisableSettles
    <2> QED BY <1>1, <1>6, <1>7, <2>1, <2>3 DEF SerialInv
  <1>9. CASE DeleteRow(k)
    <2>1. /\ row' = [row EXCEPT ![t] = "deleted"] /\ cred' = [cred EXCEPT ![t] = NoKey]
          /\ pc'[k] = "idle" /\ pc[k] = "delete_row"
      BY <1>1, <1>2, <1>9, GotoIs DEF DeleteRow
    <2>2. /\ \A u \in Targets \ {t} : row'[u] = row[u] /\ cred'[u] = cred[u]
          /\ row'[t] = "deleted" /\ cred'[t] = NoKey
      BY <1>1, <2>1 DEF DataType
    <2>3. \A u \in Targets \ {t} : Matched(u)'
      BY <1>5, <1>6, <2>2, StaysMatched
    <2>4. Bare(t)
      BY <1>1, <1>2, <2>1 DEF TaskInv
    <2>5. Matched(t)'
      BY <1>7, <2>2, <2>4 DEF Matched, Bare
    <2>6. TaskInv(k)'
      BY <1>1, <2>1, <2>3, <2>5, Settled
    <2>7. \A u \in Targets : row'[u] = "absent" => cred'[u] = NoKey
      BY <2>2 DEF SerialInv
    <2> QED BY <1>1, <1>6, <1>7, <2>6, <2>7 DEF SerialInv
  <1>10. CASE Audited(k)
    <2>1. UNCHANGED <<row, cred>> /\ pc[k] = "audit"
      BY <1>10 DEF Audited, db
    <2>0. WriteLockFree /\ ~WriteFails
      BY <2>1, WritesSucceed
    <2>2. \A u \in Targets \ {t} : Matched(u)'
      BY <1>5, <1>6, <2>1, StaysMatched
    <2>3. loc[k].next \in {"end", "enable", "disable"}
      BY <1>1 DEF LocType, Locals
    <2>4. CASE loc[k].next = "enable"
      <3>1. EnableTarget(k, << >>)
        BY <1>4, <1>10, <2>0, <2>4 DEF Audited
      <3>2. Bare(t)'
        BY <1>1, <1>2, <1>7, <2>1, <2>4 DEF TaskInv, Bare
      <3> QED BY <1>1, <1>2, <1>6, <1>7, <2>1, <2>2, <3>1, <3>2, EnableSettles DEF SerialInv
    <2>5. CASE loc[k].next = "disable"
      <3>1. DisableTarget(k)
        BY <1>10, <2>0, <2>5 DEF Audited
      <3>2. loc[k].then = "end" => Doomed(t)
        BY <1>1, <1>2, <2>1, <2>5 DEF TaskInv, Disables
      <3>3. TaskInv(k)'
        BY <1>1, <1>2, <1>4, <1>5, <1>6, <2>1, <3>1, <3>2, DisableSettles
      <3> QED BY <1>1, <1>6, <1>7, <2>1, <3>3 DEF SerialInv
    <2>6. CASE loc[k].next = "end"
      <3>1. pc'[k] = "idle"
        BY <1>1, <1>10, <2>0, <2>6, GotoIs DEF Audited
      <3>2. Matched(t)'
        BY <1>1, <1>2, <1>6, <2>1, <2>6, StaysMatched DEF TaskInv
      <3>3. TaskInv(k)'
        BY <1>1, <2>2, <3>1, <3>2, Settled
      <3> QED BY <1>1, <1>6, <1>7, <2>1, <3>3 DEF SerialInv
    <2> QED BY <2>3, <2>4, <2>5, <2>6
  <1> QED BY <1>8, <1>9, <1>10 DEF Handler

\* OBS moves the run between ARMED and LIVE only, and the workers stay.
LEMMA SerialObs ==
  ASSUME SerialInv, ObsPublish \/ ObsPublishDone
  PROVE  SerialInv'
PROOF
  <1>1. /\ UNCHANGED <<pc, loc, row, cred, workers, t2w>>
        /\ \/ runState' = runState
           \/ runState \in {"armed", "live"} /\ runState' \in {"armed", "live"}
    BY DEF ObsPublish, ObsPublishDone, NotifyObsPublishBegan, NotifyObsPublishEnded, db, mem
  <1>2. IndexMatchesWorkers' /\ Running' = Running
    BY <1>1 DEF SerialInv, IndexMatchesWorkers, Running
  <1>3. \A u \in Targets : Matched(u) => Matched(u)'
    BY <1>1, StaysMatched
  <1>4. \A u : /\ Bare(u) => Bare(u)'
               /\ Doomed(u) => Doomed(u)'
    BY <1>1, <1>2 DEF Bare, Doomed
  <1>5. ASSUME NEW k \in Tasks, TaskInv(k)
        PROVE  TaskInv(k)'
    <2> DEFINE t == loc[k].t
    <2>1. pc'[k] = pc[k] /\ loc'[k] = loc[k]
      BY <1>1
    <2>2. pc[k] = "audit" /\ loc[k].next = "end" => Matched(t)'
      <3>1. pc[k] = "audit" /\ loc[k].next = "end" => Matched(t)
        BY <1>5 DEF TaskInv
      <3> QED BY <1>1, <3>1 DEF Matched, Running
    <2>3. \A u \in Targets : Matched(u)' \/ (u = t /\ pc[k] \in UnderWay)
      BY <1>3, <1>5 DEF TaskInv
    <2>4. runState \in Active => runState' \in Active
      BY <1>1 DEF Active
    <2> QED BY <1>1, <1>2, <1>4, <1>5, <2>1, <2>2, <2>3, <2>4 DEF TaskInv, Disables
  <1> QED BY <1>1, <1>2, <1>5 DEF SerialInv

\* A restart leaves rows and credentials, and nothing that runs.
LEMMA SerialCrash ==
  ASSUME SerialInv, Crash
  PROVE  SerialInv'
PROOF
  <1>1. Running' = {} /\ IndexMatchesWorkers'
    BY DEF Crash, Running, NoWorkers, IndexMatchesWorkers
  <1>2. \A u \in Targets : Matched(u)'
    BY <1>1 DEF Crash, Matched
  <1>3. \A k \in Tasks : pc'[k] = "idle"
    BY DEF Crash
  <1>4. \A k \in Tasks : TaskInv(k)'
    BY <1>2, <1>3, Settled
  <1> QED BY <1>1, <1>4 DEF Crash, SerialInv

\* Requests come one at a time and nothing fails but the process: when a request
\* of app/api/targets.py or app/api/run.py returns, every target runs as its row
\* says and with the key stored for it, in a run, before and after one.
THEOREM WorkersAreThoseConfigured ==
  ASSUME NEW k, Tasks = {k}, Faults \subseteq {"crash"}, BadKeys = {}, "set" \notin Ops
  PROVE  Spec => []WorkersMatchTargets
PROOF
  <1>1. ASSUME IInv, SerialInv, [Next]_vars
        PROVE  SerialInv'
    <2>1. ASSUME Arrival(k) \/ Progress(k)
          PROVE  SerialInv'
      <3>1. OneTask(k)
        BY DEF OneTask
      <3> QED BY <1>1, <2>1, <3>1, SerialArrival, SerialStart, SerialStop, SerialControl, SerialHandler
              DEF Progress
    <2>2. CASE UNCHANGED vars
      BY <1>1, <2>2
         DEF vars, db, mem, SerialInv, IndexMatchesWorkers, Running, TaskInv, Matched, Bare, Doomed,
             Disables
    <2> QED BY <1>1, <2>1, <2>2, SerialObs, SerialCrash DEF Next
  <1>2. ASSUME SerialInv
        PROVE  WorkersMatchTargets
    <2>1. SUFFICES ASSUME Quiet
                   PROVE  \A u \in Targets : Matched(u)
      <3>1. \A w \in WorkerIds : w[1] \in Targets
        BY WorkerIdsTargets
      <3> QED BY <3>1 DEF WorkersMatchTargets, Matched, Running
    <2>2. pc[k] = "idle"
      BY <2>1 DEF Quiet
    <2> QED BY <1>2, <2>2 DEF SerialInv, TaskInv, UnderWay
  <1> QED BY <1>1, <1>2, SerialInit, Inductive, PTL DEF Spec
=============================================================================
