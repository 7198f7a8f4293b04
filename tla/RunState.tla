------------------------------ MODULE RunState ------------------------------
(***************************************************************************)
(* The system-wide run state machine of app/domain/run_state.py.  The      *)
(* behaviour specification is what the rest of the system may rely on;     *)
(* Supervisor is shown to implement it.                                    *)
(***************************************************************************)
VARIABLE runState

RunStates == {"offline", "starting", "armed", "live", "stopping", "error"}

RunActions ==
  {"start_requested", "workers_spawned", "obs_publish_began",
   "obs_publish_ended", "stop_requested", "workers_drained",
   "unrecoverable_failed", "error_cleared"}

\* _TRANSITIONS, as triples <<from, action, to>>.
Transitions ==
  { <<"offline",  "start_requested",      "starting">>,
    <<"starting", "workers_spawned",      "armed">>,
    <<"armed",    "obs_publish_began",    "live">>,
    <<"live",     "obs_publish_ended",    "armed">>,
    <<"starting", "stop_requested",       "stopping">>,
    <<"armed",    "stop_requested",       "stopping">>,
    <<"live",     "stop_requested",       "stopping">>,
    <<"stopping", "workers_drained",      "offline">>,
    <<"error",    "error_cleared",        "offline">>,
    <<"starting", "unrecoverable_failed", "error">>,
    <<"armed",    "unrecoverable_failed", "error">>,
    <<"live",     "unrecoverable_failed", "error">>,
    <<"stopping", "unrecoverable_failed", "error">> }

\* transition(state, action): the set of results, empty where the code raises.
Transition(s, a) == {t \in RunStates : <<s, a, t>> \in Transitions}

\* is_legal(state, action).
IsLegal(s, a) == Transition(s, a) # {}

-----------------------------------------------------------------------------
Init == runState = "offline"

Step(a) == runState' \in Transition(runState, a)

Next == \E a \in RunActions : Step(a)

Spec == Init /\ [][Next]_runState
=============================================================================
