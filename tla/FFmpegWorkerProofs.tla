------------------------- MODULE FFmpegWorkerProofs -------------------------
(***************************************************************************)
(* Proofs about FFmpegWorker, for every breaker limit, every attempt that   *)
(* overflows and every channel size.  IInv is the inductive invariant:     *)
(* besides the properties themselves it says where the lifecycle task may  *)
(* be parked in each state (Where), what a task was granted before it      *)
(* awaits the announcement of a move (Moves), what the breaker and the     *)
(* attempt counter hold (Breaker), when a process exists (Process), when   *)
(* the pumps do (Pumped) and what stop() has done by the time it waits     *)
(* (Stopping).                                                             *)
(***************************************************************************)
EXTENDS FFmpegWorker, TLAPS

Pushing == {"starting", "running", "reconnecting"}

\* The lifecycle's await determines the state, but for a cancelled lifecycle.
Where ==
  /\ lc \in {"none", "set_starting"} => state = "idle"
  /\ lc \in {"spawn", "spawn_error"} => state \in {"starting", "reconnecting"}
  /\ lc \in {"pumps", "exited"} => state \in Pushing
  /\ lc = "set_reconnecting" => state \in {"starting", "running"}
  /\ lc = "set_failed_open" => state = "reconnecting" /\ verdict = "open"
  /\ lc = "backoff" => state = "reconnecting"
  /\ lc \in {"wait_reset", "set_restarting"} => state = "failed_open"
  /\ lc = "set_stopping" => state \in Pushing \cup {"failed_open"} /\ stopRequested
  /\ lc = "set_idle" => state = "stopping" /\ stopRequested
  /\ lc = "done" => state = "idle" /\ stopRequested
  /\ lc = "crashed" => state = "reconnecting" /\ attempt = MaxAttempt

\* The move a task was granted, while it awaits the announcement.
Moves ==
  /\ lc = "set_starting" => lcNew = "starting"
  /\ lc = "set_reconnecting" => lcNew = "reconnecting"
  /\ lc = "set_failed_open" => lcNew = "failed_open"
  /\ lc = "set_restarting" => lcNew = "starting"
  /\ lc = "set_stopping" => lcNew = "stopping"
  /\ lc = "set_idle" => lcNew = "idle"
  /\ pump["stdout"] = "set_running" => pumpNew = "running"

\* Wherever a spawn is ahead without another verdict, the breaker has room.
Breaker ==
  /\ lc \in {"none", "set_starting", "set_restarting"} => failures = 0 /\ attempt = 0
  /\ lc \in {"spawn", "spawn_error", "pumps", "exited", "backoff"} => failures < MaxFailures
  /\ lc = "set_reconnecting" /\ verdict = "closed" => failures < MaxFailures
  /\ lc = "wait_reset" /\ resetEvent => stopRequested \/ (failures = 0 /\ attempt = 0)

\* A process exists from the spawn to the exit and at no other time.
Process ==
  /\ lc \in LcPc \ {"spawn", "pumps", "exited", "cancelled"} => ~held /\ os = "none"
  /\ lc = "exited" => os = "exited"

\* The pumps run inside their task group only, and RUNNING is announced from a
\* state that can become it.
Pumped ==
  /\ lc # "pumps" => pump = PumpsOff /\ stall = "off"
  /\ pump["stdout"] = "set_running" => state \in {"starting", "reconnecting"}

\* stop() has raised its flag before it waits for anything, and is called on a
\* started worker only.
Stopping ==
  /\ stopper # "idle" => stopRequested
  /\ lc = "none" => stopper = "idle"

\* The Boolean part of TypeOK, split off for the provers.
Flags ==
  /\ stopRequested \in BOOLEAN
  /\ resetEvent \in BOOLEAN
  /\ held \in BOOLEAN
  /\ fresh \in BOOLEAN

IInv ==
  /\ TypeOK
  /\ Where
  /\ Moves
  /\ Breaker
  /\ Process
  /\ Pumped
  /\ Stopping
  /\ NothingUnannounced

-----------------------------------------------------------------------------
(* The two halves of _set_state: what the table grants before the await,   *)
(* and what the announcement assigns after it.                             *)

\* Where the lifecycle parks in front of a _set_state, from the state the loop is
\* in at that place, the table grants the move the loop asks for.
LEMMA Granted ==
  ASSUME NEW to, NEW s, NEW v \in WS!Verdicts, LcTo(to, s, v)
  PROVE  /\ lc' = to
         /\ lcNew' \in WS!WorkerStates \cup {"none"}
         /\ to = "set_starting" /\ s = "idle" => lcNew' = "starting"
         /\ to = "set_reconnecting" /\ s \in {"starting", "running"} => lcNew' = "reconnecting"
         /\ to = "set_failed_open" /\ s = "reconnecting" /\ v = "open" => lcNew' = "failed_open"
         /\ to = "set_restarting" /\ s = "failed_open" => lcNew' = "starting"
         /\ to = "set_stopping" /\ s \in Pushing \cup {"failed_open"} => lcNew' = "stopping"
         /\ to = "set_idle" /\ s = "stopping" => lcNew' = "idle"
PROOF
  <1> USE DEF LcTo, Verified, Asks, Pushing, WS!Transition, WS!Transitions, WS!WorkerStates,
              WS!Verdicts
  <1>1. lc' = to
    OBVIOUS
  <1>2. lcNew' \in WS!WorkerStates \cup {"none"}
    OBVIOUS
  <1>3. CASE to \in {"set_starting", "set_reconnecting"}
    BY <1>1, <1>2, <1>3
  <1>4. CASE to \in {"set_failed_open", "set_restarting"}
    BY <1>1, <1>2, <1>4
  <1>5. CASE to \in {"set_stopping", "set_idle"}
    BY <1>1, <1>2, <1>5
  <1>6. QED
    BY <1>1, <1>2, <1>3, <1>4, <1>5

\* The stdout pump is granted RUNNING by the states whose first frame announces it.
LEMMA GrantedRunning ==
  ASSUME state \in {"starting", "reconnecting"}, PumpToRunning
  PROVE  /\ pump' = [pump EXCEPT !["stdout"] = "set_running"]
         /\ pumpNew' = "running"
BY DEF PumpToRunning, Verified, WS!Transition, WS!Transitions, WS!WorkerStates

\* A granted move is announced and assigned.
LEMMA Assigned ==
  ASSUME NEW new \in WS!WorkerStates, SetState(new)
  PROVE  Send /\ state' = new
BY DEF SetState, WS!WorkerStates

\* In RECONNECTING the breaker's verdict decides between FAILED_OPEN, a backoff
\* and the overflow.
LEMMA Routed ==
  ASSUME NEW v \in WS!Verdicts, Route("reconnecting", v)
  PROVE  \/ /\ v = "open"
            /\ LcTo("set_failed_open", "reconnecting", v)
            /\ UNCHANGED attempt
         \/ /\ v = "closed"
            /\ attempt < MaxAttempt
            /\ LcTo("backoff", "reconnecting", v)
            /\ attempt' = attempt + 1
         \/ /\ v = "closed"
            /\ ~(attempt < MaxAttempt)
            /\ LcTo("crashed", "reconnecting", v)
            /\ UNCHANGED attempt
BY DEF Route, Verified, WS!Transition, WS!Verdicts

-----------------------------------------------------------------------------
(* The invariant is inductive.                                            *)

\* The state of a fresh worker.
LEMMA InitInv ==
  ASSUME Init
  PROVE  IInv
PROOF
  <1>1. Flags
    BY DEF Init, Flags
  <1>2. TypeOK
    BY <1>1, WorkerAssumption
       DEF Init, TypeOK, Flags, LcPc, PumpsOff, Streams, WS!WorkerStates, WS!Verdicts
  <1>3. Where /\ Breaker /\ NothingUnannounced
    BY WorkerAssumption DEF Init, Where, Breaker, NothingUnannounced
  <1>4. Moves /\ Process /\ Pumped /\ Stopping
    BY DEF Init, Moves, Process, Pumped, Stopping, PumpsOff, Streams
  <1>5. QED
    BY <1>2, <1>3, <1>4 DEF IInv

\* Every step of every task preserves the invariant.
LEMMA NextInv ==
  ASSUME IInv, [Next]_vars
  PROVE  IInv'
PROOF
  <1> USE WorkerAssumption
      DEF IInv, TypeOK, Where, Moves, Breaker, Process, Pumped, Stopping,
          NothingUnannounced, Pushing, LcPc, vars, brk, flags, proc, life, tasks, chan,
          WS!WorkerStates, WS!Verdicts
  <1>1. CASE Start
    <2>0. Flags'
      BY <1>1 DEF Flags, Start
    <2>1. TypeOK'
      BY <1>1, Granted, <2>0 DEF Flags, Start
    <2>2. Where'
      BY <1>1, Granted DEF Start
    <2>3. Moves'
      BY <1>1, Granted DEF Start, PumpsOff, Streams
    <2>4. Breaker'
      BY <1>1, Granted DEF Start
    <2>5. Process' /\ Pumped' /\ Stopping'
      BY <1>1, Granted DEF Start, PumpsOff, Streams
    <2>6. NothingUnannounced'
      BY <1>1, Granted DEF Start
    <2>7. QED
      BY <2>1, <2>2, <2>3, <2>4, <2>5, <2>6
  <1>2. CASE LcStarting
    <2>0. Flags'
      BY <1>2 DEF Flags, LcStarting, EnterLoop, AfterLoop, Send
    <2>1. TypeOK'
      BY <1>2, Granted, Assigned, <2>0 DEF Flags, LcStarting, EnterLoop, AfterLoop, Send
    <2>2. Where'
      BY <1>2, Granted, Assigned DEF LcStarting, EnterLoop, AfterLoop, Send
    <2>3. Moves'
      BY <1>2, Granted, Assigned DEF LcStarting, EnterLoop, AfterLoop, Send, PumpsOff, Streams
    <2>4. Breaker'
      BY <1>2, Granted, Assigned DEF LcStarting, EnterLoop, AfterLoop, Send
    <2>5. Process' /\ Pumped' /\ Stopping'
      BY <1>2, Granted, Assigned DEF LcStarting, EnterLoop, AfterLoop, Send, PumpsOff, Streams
    <2>6. NothingUnannounced'
      BY <1>2, Granted, Assigned DEF LcStarting, EnterLoop, AfterLoop, Send
    <2>7. QED
      BY <2>1, <2>2, <2>3, <2>4, <2>5, <2>6
  <1>3. CASE LcSpawned
    <2>1. TypeOK'
      BY <1>3, Granted DEF LcSpawned, Streams
    <2>2. Where'
      BY <1>3, Granted DEF LcSpawned, Streams
    <2>3. Moves'
      BY <1>3, Granted DEF LcSpawned, Streams, PumpsOff, Streams
    <2>4. Breaker'
      BY <1>3, Granted DEF LcSpawned, Streams
    <2>5. Process' /\ Pumped' /\ Stopping'
      BY <1>3, Granted DEF LcSpawned, Streams, PumpsOff, Streams
    <2>6. NothingUnannounced'
      BY <1>3, Granted DEF LcSpawned, Streams
    <2>7. QED
      BY <2>1, <2>2, <2>3, <2>4, <2>5, <2>6
  <1>4. CASE LcSpawnError
    <2>1. TypeOK'
      BY <1>4, Granted, Routed DEF LcSpawnError, AfterSpawn, AfterLoop, Send
    <2>2. Where'
      BY <1>4, Granted, Routed DEF LcSpawnError, AfterSpawn, AfterLoop, Send
    <2>3. Moves'
      BY <1>4, Granted, Routed DEF LcSpawnError, AfterSpawn, AfterLoop, Send, PumpsOff, Streams
    <2>4. Breaker'
      BY <1>4, Granted, Routed DEF LcSpawnError, AfterSpawn, AfterLoop, Send
    <2>5. Process' /\ Pumped' /\ Stopping'
      BY <1>4, Granted, Routed DEF LcSpawnError, AfterSpawn, AfterLoop, Send, PumpsOff, Streams
    <2>6. NothingUnannounced'
      BY <1>4, Granted, Routed DEF LcSpawnError, AfterSpawn, AfterLoop, Send
    <2>7. QED
      BY <2>1, <2>2, <2>3, <2>4, <2>5, <2>6
  <1>5. CASE LcPumpsJoined
    <2>1. TypeOK'
      BY <1>5, Granted DEF LcPumpsJoined, PumpsOff, Streams
    <2>2. Where'
      BY <1>5, Granted DEF LcPumpsJoined, PumpsOff, Streams
    <2>3. Moves'
      BY <1>5, Granted DEF LcPumpsJoined, PumpsOff, Streams, PumpsOff, Streams
    <2>4. Breaker'
      BY <1>5, Granted DEF LcPumpsJoined, PumpsOff, Streams
    <2>5. Process' /\ Pumped' /\ Stopping'
      BY <1>5, Granted DEF LcPumpsJoined, PumpsOff, Streams, PumpsOff, Streams
    <2>6. NothingUnannounced'
      BY <1>5, Granted DEF LcPumpsJoined, PumpsOff, Streams
    <2>7. QED
      BY <2>1, <2>2, <2>3, <2>4, <2>5, <2>6
  <1>6. CASE LcExited
    <2>0. Flags'
      BY <1>6 DEF Flags, LcExited, AfterSpawn, AfterLoop, Send
    <2>1. TypeOK'
      BY <1>6, Granted, Routed, <2>0 DEF Flags, LcExited, AfterSpawn, AfterLoop, Send
    <2>2. Where'
      BY <1>6, Granted, Routed DEF LcExited, AfterSpawn, AfterLoop, Send
    <2>3. Moves'
      BY <1>6, Granted, Routed DEF LcExited, AfterSpawn, AfterLoop, Send, PumpsOff, Streams
    <2>4. Breaker'
      BY <1>6, Granted, Routed DEF LcExited, AfterSpawn, AfterLoop, Send
    <2>5. Process' /\ Pumped' /\ Stopping'
      BY <1>6, Granted, Routed DEF LcExited, AfterSpawn, AfterLoop, Send, PumpsOff, Streams
    <2>6. NothingUnannounced'
      BY <1>6, Granted, Routed DEF LcExited, AfterSpawn, AfterLoop, Send
    <2>7. QED
      BY <2>1, <2>2, <2>3, <2>4, <2>5, <2>6
  <1>7. CASE LcReconnecting
    <2>1. TypeOK'
      BY <1>7, Granted, Assigned, Routed DEF LcReconnecting, Send
    <2>2. Where'
      BY <1>7, Granted, Assigned, Routed DEF LcReconnecting, Send
    <2>3. Moves'
      BY <1>7, Granted, Assigned, Routed DEF LcReconnecting, Send, PumpsOff, Streams
    <2>4. Breaker'
      BY <1>7, Granted, Assigned, Routed DEF LcReconnecting, Send
    <2>5. Process' /\ Pumped' /\ Stopping'
      BY <1>7, Granted, Assigned, Routed DEF LcReconnecting, Send, PumpsOff, Streams
    <2>6. NothingUnannounced'
      BY <1>7, Granted, Assigned, Routed DEF LcReconnecting, Send
    <2>7. QED
      BY <2>1, <2>2, <2>3, <2>4, <2>5, <2>6
  <1>8. CASE LcFailedOpen
    <2>0. Flags'
      BY <1>8 DEF Flags, LcFailedOpen, Send
    <2>1. TypeOK'
      BY <1>8, Granted, Assigned, <2>0 DEF Flags, LcFailedOpen, Send
    <2>2. Where'
      BY <1>8, Granted, Assigned DEF LcFailedOpen, Send
    <2>3. Moves'
      BY <1>8, Granted, Assigned DEF LcFailedOpen, Send, PumpsOff, Streams
    <2>4. Breaker'
      BY <1>8, Granted, Assigned DEF LcFailedOpen, Send
    <2>5. Process' /\ Pumped' /\ Stopping'
      BY <1>8, Granted, Assigned DEF LcFailedOpen, Send, PumpsOff, Streams
    <2>6. NothingUnannounced'
      BY <1>8, Granted, Assigned DEF LcFailedOpen, Send
    <2>7. QED
      BY <2>1, <2>2, <2>3, <2>4, <2>5, <2>6
  <1>9. CASE LcResetWoken
    <2>1. TypeOK'
      BY <1>9, Granted DEF LcResetWoken, AfterLoop
    <2>2. Where'
      BY <1>9, Granted DEF LcResetWoken, AfterLoop
    <2>3. Moves'
      BY <1>9, Granted DEF LcResetWoken, AfterLoop, PumpsOff, Streams
    <2>4. Breaker'
      BY <1>9, Granted DEF LcResetWoken, AfterLoop
    <2>5. Process' /\ Pumped' /\ Stopping'
      BY <1>9, Granted DEF LcResetWoken, AfterLoop, PumpsOff, Streams
    <2>6. NothingUnannounced'
      BY <1>9, Granted DEF LcResetWoken, AfterLoop
    <2>7. QED
      BY <2>1, <2>2, <2>3, <2>4, <2>5, <2>6
  <1>10. CASE LcRestarting
    <2>0. Flags'
      BY <1>10 DEF Flags, LcRestarting, EnterLoop, AfterLoop, Send
    <2>1. TypeOK'
      BY <1>10, Granted, Assigned, <2>0 DEF Flags, LcRestarting, EnterLoop, AfterLoop, Send
    <2>2. Where'
      BY <1>10, Granted, Assigned DEF LcRestarting, EnterLoop, AfterLoop, Send
    <2>3. Moves'
      BY <1>10, Granted, Assigned DEF LcRestarting, EnterLoop, AfterLoop, Send, PumpsOff, Streams
    <2>4. Breaker'
      BY <1>10, Granted, Assigned DEF LcRestarting, EnterLoop, AfterLoop, Send
    <2>5. Process' /\ Pumped' /\ Stopping'
      BY <1>10, Granted, Assigned DEF LcRestarting, EnterLoop, AfterLoop, Send, PumpsOff, Streams
    <2>6. NothingUnannounced'
      BY <1>10, Granted, Assigned DEF LcRestarting, EnterLoop, AfterLoop, Send
    <2>7. QED
      BY <2>1, <2>2, <2>3, <2>4, <2>5, <2>6
  <1>11. CASE LcBackoffOver
    <2>0. Flags'
      BY <1>11 DEF Flags, LcBackoffOver, EnterLoop, AfterLoop
    <2>1. TypeOK'
      BY <1>11, Granted, <2>0 DEF Flags, LcBackoffOver, EnterLoop, AfterLoop
    <2>2. Where'
      BY <1>11, Granted DEF LcBackoffOver, EnterLoop, AfterLoop
    <2>3. Moves'
      BY <1>11, Granted DEF LcBackoffOver, EnterLoop, AfterLoop, PumpsOff, Streams
    <2>4. Breaker'
      BY <1>11, Granted DEF LcBackoffOver, EnterLoop, AfterLoop
    <2>5. Process' /\ Pumped' /\ Stopping'
      BY <1>11, Granted DEF LcBackoffOver, EnterLoop, AfterLoop, PumpsOff, Streams
    <2>6. NothingUnannounced'
      BY <1>11, Granted DEF LcBackoffOver, EnterLoop, AfterLoop
    <2>7. QED
      BY <2>1, <2>2, <2>3, <2>4, <2>5, <2>6
  <1>12. CASE LcStopping
    <2>1. TypeOK'
      BY <1>12, Granted, Assigned DEF LcStopping, Send
    <2>2. Where'
      BY <1>12, Granted, Assigned DEF LcStopping, Send
    <2>3. Moves'
      BY <1>12, Granted, Assigned DEF LcStopping, Send, PumpsOff, Streams
    <2>4. Breaker'
      BY <1>12, Granted, Assigned DEF LcStopping, Send
    <2>5. Process' /\ Pumped' /\ Stopping'
      BY <1>12, Granted, Assigned DEF LcStopping, Send, PumpsOff, Streams
    <2>6. NothingUnannounced'
      BY <1>12, Granted, Assigned DEF LcStopping, Send
    <2>7. QED
      BY <2>1, <2>2, <2>3, <2>4, <2>5, <2>6
  <1>13. CASE LcIdle
    <2>1. TypeOK'
      BY <1>13, Granted, Assigned DEF LcIdle, Send
    <2>2. Where'
      BY <1>13, Granted, Assigned DEF LcIdle, Send
    <2>3. Moves'
      BY <1>13, Granted, Assigned DEF LcIdle, Send, PumpsOff, Streams
    <2>4. Breaker'
      BY <1>13, Granted, Assigned DEF LcIdle, Send
    <2>5. Process' /\ Pumped' /\ Stopping'
      BY <1>13, Granted, Assigned DEF LcIdle, Send, PumpsOff, Streams
    <2>6. NothingUnannounced'
      BY <1>13, Granted, Assigned DEF LcIdle, Send
    <2>7. QED
      BY <2>1, <2>2, <2>3, <2>4, <2>5, <2>6
  <1>14. CASE Frame
    <2>1. TypeOK'
      BY <1>14, GrantedRunning DEF Frame, Pumping, PumpTo, RecordHealthy, Streams
    <2>2. Where'
      BY <1>14, GrantedRunning DEF Frame, Pumping, PumpTo, RecordHealthy, Streams
    <2>3. Moves'
      BY <1>14, GrantedRunning DEF Frame, Pumping, PumpTo, RecordHealthy, Streams, PumpsOff, Streams
    <2>4. Breaker'
      BY <1>14, GrantedRunning DEF Frame, Pumping, PumpTo, RecordHealthy, Streams
    <2>5. Process' /\ Pumped' /\ Stopping'
      BY <1>14, GrantedRunning DEF Frame, Pumping, PumpTo, RecordHealthy, Streams, PumpsOff, Streams
    <2>6. NothingUnannounced'
      BY <1>14, GrantedRunning DEF Frame, Pumping, PumpTo, RecordHealthy, Streams
    <2>7. QED
      BY <2>1, <2>2, <2>3, <2>4, <2>5, <2>6
  <1>15. CASE BadChunk
    BY <1>15 DEF BadChunk, Pumping, PumpTo, Streams
  <1>16. CASE FrameRunning
    <2>1. TypeOK'
      BY <1>16, Assigned DEF FrameRunning, Pumping, PumpTo, RecordHealthy, Send, Streams
    <2>2. Where'
      BY <1>16, Assigned DEF FrameRunning, Pumping, PumpTo, RecordHealthy, Send, Streams
    <2>3. Moves'
      BY <1>16, Assigned DEF FrameRunning, Pumping, PumpTo, RecordHealthy, Send, Streams, PumpsOff, Streams
    <2>4. Breaker'
      BY <1>16, Assigned DEF FrameRunning, Pumping, PumpTo, RecordHealthy, Send, Streams
    <2>5. Process' /\ Pumped' /\ Stopping'
      BY <1>16, Assigned DEF FrameRunning, Pumping, PumpTo, RecordHealthy, Send, Streams, PumpsOff, Streams
    <2>6. NothingUnannounced'
      BY <1>16, Assigned DEF FrameRunning, Pumping, PumpTo, RecordHealthy, Send, Streams
    <2>7. QED
      BY <2>1, <2>2, <2>3, <2>4, <2>5, <2>6
  <1>17. CASE FrameSent
    BY <1>17 DEF FrameSent, Pumping, PumpTo, Send, Streams
  <1>18. CASE StallTick
    BY <1>18 DEF StallTick
  <1>19. CASE StallTerminate
    BY <1>19 DEF StallTerminate, Terminate, Send
  <1>20. CASE UserReset
    BY <1>20 DEF UserReset
  <1>21. CASE StopCall
    <2>0. Flags'
      BY <1>21 DEF Flags, StopCall, StopJoin, Terminate
    <2>1. TypeOK'
      BY <1>21, <2>0 DEF Flags, StopCall, StopJoin, Terminate
    <2>2. Where'
      BY <1>21 DEF StopCall, StopJoin, Terminate
    <2>3. Moves'
      BY <1>21 DEF StopCall, StopJoin, Terminate, PumpsOff, Streams
    <2>4. Breaker'
      BY <1>21 DEF StopCall, StopJoin, Terminate
    <2>5. Process' /\ Pumped' /\ Stopping'
      BY <1>21 DEF StopCall, StopJoin, Terminate, PumpsOff, Streams
    <2>6. NothingUnannounced'
      BY <1>21 DEF StopCall, StopJoin, Terminate
    <2>7. QED
      BY <2>1, <2>2, <2>3, <2>4, <2>5, <2>6
  <1>22. CASE StopProcessOver
    <2>1. TypeOK'
      BY <1>22 DEF StopProcessOver, StopJoin
    <2>2. Where'
      BY <1>22 DEF StopProcessOver, StopJoin
    <2>3. Moves'
      BY <1>22 DEF StopProcessOver, StopJoin, PumpsOff, Streams
    <2>4. Breaker'
      BY <1>22 DEF StopProcessOver, StopJoin
    <2>5. Process' /\ Pumped' /\ Stopping'
      BY <1>22 DEF StopProcessOver, StopJoin, PumpsOff, Streams
    <2>6. NothingUnannounced'
      BY <1>22 DEF StopProcessOver, StopJoin
    <2>7. QED
      BY <2>1, <2>2, <2>3, <2>4, <2>5, <2>6
  <1>23. CASE StopKill
    BY <1>23 DEF StopKill
  <1>24. CASE StopCancel
    <2>1. TypeOK'
      BY <1>24, Granted DEF StopCancel, PumpsOff, Streams, Finished
    <2>2. Where'
      BY <1>24, Granted DEF StopCancel, PumpsOff, Streams, Finished
    <2>3. Moves'
      BY <1>24, Granted DEF StopCancel, PumpsOff, Streams, Finished, PumpsOff, Streams
    <2>4. Breaker'
      BY <1>24, Granted DEF StopCancel, PumpsOff, Streams, Finished
    <2>5. Process' /\ Pumped' /\ Stopping'
      BY <1>24, Granted DEF StopCancel, PumpsOff, Streams, Finished, PumpsOff, Streams
    <2>6. NothingUnannounced'
      BY <1>24, Granted DEF StopCancel, PumpsOff, Streams, Finished
    <2>7. QED
      BY <2>1, <2>2, <2>3, <2>4, <2>5, <2>6
  <1>25. CASE StopReturn
    BY <1>25 DEF StopReturn
  <1>26. CASE Drain
    BY <1>26 DEF Drain
  <1>27. CASE ProcExit
    BY <1>27 DEF ProcExit
  <1>28. CASE Silence
    <2>0. Flags'
      BY <1>28 DEF Flags, Silence
    <2>1. TypeOK'
      BY <1>28, <2>0 DEF Flags, Silence
    <2>2. Where'
      BY <1>28 DEF Silence
    <2>3. Moves'
      BY <1>28 DEF Silence, PumpsOff, Streams
    <2>4. Breaker'
      BY <1>28 DEF Silence
    <2>5. Process' /\ Pumped' /\ Stopping'
      BY <1>28 DEF Silence, PumpsOff, Streams
    <2>6. NothingUnannounced'
      BY <1>28 DEF Silence
    <2>7. QED
      BY <2>1, <2>2, <2>3, <2>4, <2>5, <2>6
  <1>29. CASE Evict
    BY <1>29 DEF Evict
  <1>30. ASSUME NEW p \in Streams, PumpFails(p) \/ PumpFailSent(p) \/ PumpEof(p)
        PROVE  IInv'
    BY <1>30 DEF PumpFails, PumpFailSent, PumpEof, Pumping, PumpTo, Send, Streams
  <1>31. CASE UNCHANGED vars
    BY <1>31
  <1>32. QED
    BY <1>1, <1>2, <1>3, <1>4, <1>5, <1>6, <1>7, <1>8, <1>9, <1>10,
       <1>11, <1>12, <1>13, <1>14, <1>15, <1>16, <1>17, <1>18, <1>19, <1>20,
       <1>21, <1>22, <1>23, <1>24, <1>25, <1>26, <1>27, <1>28, <1>29, <1>30,
       <1>31
    DEF Next, Lifecycle, Pumps, Stop, Environment, Stopped

\* The invariant holds throughout.
THEOREM Invariance == Spec => []IInv
PROOF
  <1>1. Init => IInv
    BY InitInv
  <1>2. IInv /\ [Next]_vars => IInv'
    BY NextInv
  <1>3. QED
    BY <1>1, <1>2, PTL DEF Spec

-----------------------------------------------------------------------------
(* The properties.                                                         *)

\* Every variable keeps its type; in particular the failures in the breaker's
\* window never exceed max_failures and the channel never overflows.
THEOREM TypeCorrect == Spec => []TypeOK
PROOF
  <1>1. IInv => TypeOK
    BY DEF IInv
  <1>2. QED
    BY <1>1, Invariance, PTL

\* No ffmpeg is spawned on an open breaker (_lifecycle_loop, user_reset).
THEOREM BreakerRespected == Spec => []NeverSpawnOpen
PROOF
  <1>1. IInv => NeverSpawnOpen
    BY DEF IInv, Breaker, NeverSpawnOpen
  <1>2. QED
    BY <1>1, Invariance, PTL

\* What the table grants before the await of a _set_state it still grants behind it,
\* to the lifecycle task and to the stdout pump.
THEOREM MovesAccepted == Spec => []NoRefusedMove
PROOF
  <1>1. ASSUME IInv
        PROVE  NoRefusedMove
    <2> USE <1>1 DEF IInv, Where, Moves, Pushing, WS!Transition, WS!Transitions, WS!WorkerStates
    <2>1. CASE lc \in {"set_starting", "set_reconnecting", "set_failed_open"}
      BY <2>1 DEF Asks, NoRefusedMove, Pumped, PumpsOff, Streams
    <2>2. CASE lc \in {"set_restarting", "set_stopping", "set_idle"}
      BY <2>2 DEF Asks, NoRefusedMove, Pumped, PumpsOff, Streams
    <2>3. CASE Asks(lc) = "nothing"
      BY <2>3 DEF NoRefusedMove, Pumped
    <2>4. QED
      BY <2>1, <2>2, <2>3 DEF Asks
  <1>2. QED
    BY <1>1, Invariance, PTL

\* A drained channel leaves the supervisor with the worker's state.
THEOREM ChangesAnnounced == Spec => []NothingUnannounced
PROOF
  <1>1. IInv => NothingUnannounced
    BY DEF IInv
  <1>2. QED
    BY <1>1, Invariance, PTL

\* A lifecycle that ends by itself ends in IDLE behind a stop(), or in RECONNECTING
\* by the overflow of compute_backoff, and in either case holds no process.
THEOREM EndsClean == Spec => []CleanEnd
PROOF
  <1>1. IInv => CleanEnd
    BY DEF IInv, Where, Process, CleanEnd, LcPc
  <1>2. QED
    BY <1>1, Invariance, PTL

\* The steps that may put the lifecycle in front of a spawn are those that pass
\* the loop's test.
LEMMA SpawnNeedsTest ==
  ASSUME [Next]_vars, lc' = "spawn", lc # "spawn"
  PROVE  ~stopRequested
PROOF
  <1> USE DEF vars, life, AfterLoop, LcTo
  <1>1. CASE LcStarting \/ LcRestarting \/ LcBackoffOver
    BY <1>1 DEF LcStarting, LcRestarting, LcBackoffOver, EnterLoop
  <1>2. CASE LcSpawned \/ LcPumpsJoined \/ LcFailedOpen \/ LcStopping \/ LcIdle \/ Start
    BY <1>2 DEF LcSpawned, LcPumpsJoined, LcFailedOpen, LcStopping, LcIdle, Start
  <1>3. CASE LcSpawnError \/ LcExited \/ LcReconnecting \/ LcResetWoken
    BY <1>3 DEF LcSpawnError, LcExited, LcReconnecting, LcResetWoken, AfterSpawn, Route
  <1>4. CASE Pumps
    BY <1>4 DEF Pumps, Frame, BadChunk, FrameRunning, FrameSent, PumpFails,
                PumpFailSent, PumpEof, StallTick, StallTerminate
  <1>5. CASE UserReset \/ Drain \/ Environment \/ Stopped \/ UNCHANGED vars
    BY <1>5 DEF UserReset, Drain, Environment, ProcExit, Silence, Evict, Stopped
  <1>6. CASE Stop
    BY <1>6 DEF Stop, StopCall, StopProcessOver, StopKill, StopCancel, StopReturn
  <1>7. QED
    BY <1>1, <1>2, <1>3, <1>4, <1>5, <1>6 DEF Next, Lifecycle

\* Once stop() has been called the loop spawns no other ffmpeg.
THEOREM StopIsFinal == Spec => NoSpawnAfterStop
PROOF
  <1>1. [Next]_vars => [stopRequested /\ lc' = "spawn" => lc = "spawn"]_vars
    BY SpawnNeedsTest
  <1>2. QED
    BY <1>1, PTL DEF Spec, NoSpawnAfterStop

-----------------------------------------------------------------------------
(* The worker implements the domain's state machine.                       *)

\* A lifecycle step that assigns a state assigns what the table granted in a state
\* that is still there, so the step is one of the table's.
LEMMA LifecycleMoves ==
  ASSUME IInv, Lifecycle
  PROVE  [WS!Next]_state
PROOF
  <1> USE DEF IInv, Where, Moves, Pushing, WS!Next, WS!Step, WS!WorkerActions, WS!Verdicts,
              WS!Transition, WS!Transitions, WS!WorkerStates
  <1>1. CASE LcStarting
    BY <1>1, Assigned DEF LcStarting
  <1>2. CASE LcReconnecting
    BY <1>2, Assigned DEF LcReconnecting
  <1>3. CASE LcFailedOpen
    BY <1>3, Assigned DEF LcFailedOpen
  <1>4. CASE LcRestarting
    BY <1>4, Assigned DEF LcRestarting
  <1>5. CASE LcStopping
    BY <1>5, Assigned DEF LcStopping
  <1>6. CASE LcIdle
    BY <1>6, Assigned DEF LcIdle
  <1>7. CASE LcSpawned \/ LcSpawnError \/ LcPumpsJoined \/ LcExited \/ LcResetWoken
             \/ LcBackoffOver
    BY <1>7 DEF LcSpawned, LcSpawnError, LcPumpsJoined, LcExited, LcResetWoken,
                LcBackoffOver
  <1>8. QED
    BY <1>1, <1>2, <1>3, <1>4, <1>5, <1>6, <1>7 DEF Lifecycle

\* RUNNING is assigned from a state whose first frame may announce it.
LEMMA FrameMoves ==
  ASSUME IInv, FrameRunning
  PROVE  [WS!Next]_state
BY Assigned DEF IInv, Moves, Pumped, FrameRunning, Pumping, WS!Next, WS!Step, WS!WorkerActions,
                WS!Verdicts, WS!Transition, WS!Transitions, WS!WorkerStates

\* Only the lifecycle task and the first frame of a spawn assign the state.
LEMMA OthersKeepState ==
  ASSUME [Next]_vars
  PROVE  UNCHANGED state \/ Lifecycle \/ FrameRunning
PROOF
  <1> USE DEF vars
  <1>1. CASE Pumps
    BY <1>1 DEF Pumps, Frame, BadChunk, FrameSent, PumpFails, PumpFailSent,
                PumpEof, StallTick, StallTerminate
  <1>2. CASE Start \/ UserReset \/ Drain \/ Environment \/ Stopped \/ UNCHANGED vars
    BY <1>2 DEF Start, UserReset, Drain, Environment, ProcExit, Silence, Evict, Stopped
  <1>3. CASE Stop
    BY <1>3 DEF Stop, StopCall, StopProcessOver, StopKill, StopCancel, StopReturn
  <1>4. QED
    BY <1>1, <1>2, <1>3 DEF Next

\* Whatever the interleaving of the tasks, and although every move is granted
\* before an await and assigned after it, the state an observer sees follows the
\* transition table of app/domain/worker_state.py.
THEOREM Refinement == Spec => RefinesWorkerState
PROOF
  <1>1. Init => WS!Init
    BY DEF Init, WS!Init
  <1>2. IInv /\ [Next]_vars => [WS!Next]_state
    BY OthersKeepState, LifecycleMoves, FrameMoves
  <1>3. QED
    BY <1>1, <1>2, Invariance, PTL DEF Spec, WS!Spec, RefinesWorkerState

\* In FAILED_OPEN the only way to STARTING is the Retry of the lifecycle task.
LEMMA RestartOnly ==
  ASSUME IInv, [Next]_vars, state = "failed_open", state' = "starting"
  PROVE  LcRestarting
PROOF
  <1> USE DEF IInv, Where, Moves, Pushing, WS!WorkerStates
  <1>1. CASE Lifecycle
    <2>1. CASE LcStarting \/ LcReconnecting \/ LcFailedOpen
      BY <2>1 DEF LcStarting, LcReconnecting, LcFailedOpen
    <2>2. CASE LcStopping \/ LcIdle
      BY <2>2, Assigned DEF LcStopping, LcIdle
    <2>3. CASE LcSpawned \/ LcSpawnError \/ LcPumpsJoined \/ LcExited \/ LcResetWoken
               \/ LcBackoffOver
      BY <2>3 DEF LcSpawned, LcSpawnError, LcPumpsJoined, LcExited, LcResetWoken,
                  LcBackoffOver
    <2>4. QED
      BY <1>1, <2>1, <2>2, <2>3 DEF Lifecycle
  <1>2. CASE FrameRunning
    BY <1>2 DEF FrameRunning, Pumping
  <1>3. QED
    BY <1>1, <1>2, OthersKeepState

\* A worker leaves FAILED_OPEN for STARTING only after user_reset() has emptied
\* the breaker and zeroed the attempt counter.
THEOREM ResetNeedsUser == Spec => ResetByUserOnly
PROOF
  <1>1. IInv /\ [Next]_vars =>
          [state = "failed_open" /\ state' = "starting" => failures = 0 /\ attempt = 0]_vars
    BY RestartOnly DEF LcRestarting, IInv, Breaker
  <1>2. QED
    BY <1>1, Invariance, PTL DEF Spec, ResetByUserOnly
=============================================================================
