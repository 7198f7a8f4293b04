-------------------------- MODULE ReconnectPolicy --------------------------
(***************************************************************************)
(* The reconnect policy of one worker in real time: what _lifecycle_loop   *)
(* does with the breaker and the backoff, against a platform that rejects  *)
(* the push (ffmpeg exits without a progress frame) or serves it for a     *)
(* while and drops it.                                                     *)
(*                                                                         *)
(* Only differences of times matter to the code, so the present is always  *)
(* instant 0: when d elapses, every recorded time moves d into the past.   *)
(***************************************************************************)
EXTENDS CircuitBreaker

CONSTANTS
  MaxAttempt,  \* the attempt for which 2 ** attempt is beyond a float: 1024
  Rejections,  \* how long a rejected ffmpeg may live before it exits
  Services     \* how long a served ffmpeg may push before it is dropped

ASSUME PolicyAssumption ==
  /\ MaxAttempt \in Nat
  /\ Rejections \subseteq Nat /\ Services \subseteq Nat

VARIABLES
  breaker,  \* _breaker
  attempt,  \* _attempt
  phase,    \* "spawned", "backoff", "failed_open", or "dead": the task has ended
  recent    \* history: every failure since the last clearing, within the window

vars == <<breaker, attempt, phase, recent>>

\* d time units go by.
Elapse(fs, d) == [i \in DOMAIN fs |-> fs[i] - d]

Aged(b, d) ==
  [failures |-> Elapse(b.failures, d),
   since    |-> IF b.since = NoTime THEN NoTime ELSE b.since - d]

RecentAfter(d) == {t - d : t \in recent} \cap ((0 - Window)..0)

\* The tail of an iteration of _lifecycle_loop: ffmpeg exited, the breaker (aged
\* to the exit) is b: record the failure, ask for the verdict, route.
ExitWith(b) ==
  LET failed == RecordFailure(b, 0)
  IN  /\ breaker' = failed
      /\ phase' = IF ShouldOpen(failed, 0) THEN "failed_open" ELSE "backoff"

\* The platform refuses: no frame is seen and ffmpeg exits after r.
Reject(r) ==
  /\ phase = "spawned"
  /\ ExitWith(Aged(breaker, r))
  /\ recent' = RecentAfter(r) \cup {0}
  /\ UNCHANGED attempt

\* The platform serves for r: the first frame zeroes _attempt and starts the
\* healthy clock, the last one finds it at r; then ffmpeg exits.
Serve(r) ==
  LET first == RecordHealthy(breaker, 0)
      last  == RecordHealthy(Aged(first, r), 0)
  IN  /\ phase = "spawned"
      /\ attempt' = 0
      /\ ExitWith(last)
      /\ recent' = (IF r >= ResetAfter THEN {} ELSE RecentAfter(r)) \cup {0}

\* The backoff before the next spawn; the attempt is counted.
BackOff ==
  /\ phase = "backoff"
  /\ attempt < MaxAttempt
  /\ \E d \in Backoffs(attempt) :
       /\ breaker' = Aged(breaker, d)
       /\ recent' = RecentAfter(d)
  /\ attempt' = attempt + 1
  /\ phase' = "spawned"

\* compute_backoff multiplies a float by 2 ** attempt and raises OverflowError: the
\* lifecycle task ends, in RECONNECTING.
Overflow ==
  /\ phase = "backoff"
  /\ attempt >= MaxAttempt
  /\ phase' = "dead"
  /\ UNCHANGED <<breaker, attempt, recent>>

\* Nothing restarts the task of a worker.
Dead == phase = "dead" /\ UNCHANGED vars

\* user_reset(), after any time in FAILED_OPEN.
Retry ==
  /\ phase = "failed_open"
  /\ breaker' = NewBreaker
  /\ attempt' = 0
  /\ recent' = {}
  /\ phase' = "spawned"

Init ==
  /\ breaker = NewBreaker
  /\ attempt = 0
  /\ phase = "spawned"
  /\ recent = {}

Next ==
  \/ \E r \in Rejections : Reject(r)
  \/ \E r \in Services : Serve(r)
  \/ BackOff
  \/ Overflow
  \/ Retry
  \/ Dead

Spec == Init /\ [][Next]_vars

\* ffmpeg against a platform that refuses every push, and nobody clicks Retry.
RefusedNext == (\E r \in Rejections : Reject(r)) \/ BackOff \/ Overflow \/ Dead

Refused == Init /\ [][RefusedNext]_vars /\ WF_vars(RefusedNext)

-----------------------------------------------------------------------------
\* The breaker is open exactly when MaxFailures failures lie within the window
\* that ends now: popping expired failures off the front, at the times the code
\* does it, keeps the deque equal to the sliding window, boundary included.
OpenIffWindowFull ==
  phase # "spawned" =>
    (phase = "failed_open" <=> Cardinality(recent) >= MaxFailures)

\* A target that rejects every connection trips the breaker (system-overview,
\* failure modes: "Target rejects connection (bad key)").
RejectionTrips == <>(phase = "failed_open")
=============================================================================
