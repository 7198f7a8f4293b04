---------------------------- MODULE WorkerState ----------------------------
(***************************************************************************)
(* The per-worker state machine of app/domain/worker_state.py: a table of  *)
(* legal (state, action) pairs, plus the RECONNECT action, whose result is *)
(* routed by the circuit breaker's verdict.  The behaviour specification   *)
(* below is what a worker promises its observers: from "idle", only steps  *)
(* of the table.  FFmpegWorker is shown to implement it.                   *)
(***************************************************************************)
VARIABLE state

WorkerStates ==
  {"idle", "starting", "running", "reconnecting", "failed_open", "stopping"}

WorkerActions ==
  {"start", "process_healthy", "process_exited", "reconnect",
   "stop_requested", "stopped", "user_reset"}

Verdicts == {"closed", "open"}

\* _TRANSITIONS, as triples <<from, action, to>>.
Transitions ==
  { <<"idle",         "start",           "starting">>,
    <<"starting",     "process_healthy", "running">>,
    <<"starting",     "process_exited",  "reconnecting">>,
    <<"starting",     "stop_requested",  "stopping">>,
    <<"running",      "process_exited",  "reconnecting">>,
    <<"running",      "stop_requested",  "stopping">>,
    <<"reconnecting", "process_healthy", "running">>,
    <<"reconnecting", "stop_requested",  "stopping">>,
    <<"stopping",     "stopped",         "idle">>,
    <<"failed_open",  "user_reset",      "starting">>,
    <<"failed_open",  "stop_requested",  "stopping">> }

\* transition(state, action, verdict=...): the set of results, empty where the
\* code raises IllegalWorkerStateTransitionError.
Transition(s, a, verdict) ==
  IF a = "reconnect"
  THEN IF s # "reconnecting" THEN {}
       ELSE IF verdict = "open" THEN {"failed_open"} ELSE {"reconnecting"}
  ELSE {t \in WorkerStates : <<s, a, t>> \in Transitions}

-----------------------------------------------------------------------------
Init == state = "idle"

Step(a) == \E v \in Verdicts : state' \in Transition(state, a, v)

Next == \E a \in WorkerActions : Step(a)

Spec == Init /\ [][Next]_state
=============================================================================
