--------------------------- MODULE CircuitBreaker ---------------------------
(***************************************************************************)
(* The worker's circuit breaker (app/domain/circuit_breaker.py) and the    *)
(* backoff schedule (app/fanout/backoff.py) as operators.  A breaker is a  *)
(* record: failures, the deque of failure times, oldest first, and since,  *)
(* _last_healthy_since, NoTime when it is None.  Times are integers in a   *)
(* unit of the model's choice.                                             *)
(***************************************************************************)
EXTENDS Integers, Sequences, FiniteSets

CONSTANTS
  MaxFailures,  \* policy.max_failures
  Window,       \* policy.window
  ResetAfter,   \* policy.healthy_reset_after
  Base,         \* BACKOFF_BASE
  Cap           \* BACKOFF_CAP

ASSUME BreakerAssumption ==
  /\ MaxFailures \in Nat \ {0}
  /\ Window \in Nat /\ ResetAfter \in Nat
  /\ Base \in Nat \ {0} /\ Cap \in Nat \ {0}

\* No time at all: later than every instant the models use.
NoTime == 1

NewBreaker == [failures |-> << >>, since |-> NoTime]

\* Seeded bug: a failure exactly one window old is dropped too.
EvictOld_Early(fs, now) ==
  LET stale == {i \in 1..Len(fs) : \A j \in 1..i : fs[j] <= now - Window}
  IN  SubSeq(fs, Cardinality(stale) + 1, Len(fs))

\* _evict_old: pop failures off the front while they are older than the window.
EvictOld(fs, now) ==
  LET stale == {i \in 1..Len(fs) : \A j \in 1..i : fs[j] < now - Window}
  IN  SubSeq(fs, Cardinality(stale) + 1, Len(fs))

\* record_failure.
RecordFailure(b, now) ==
  [failures |-> Append(EvictOld(b.failures, now), now), since |-> NoTime]

\* record_healthy: the first observation starts the clock, a later one clears
\* the failures when the clock has run for ResetAfter.
RecordHealthy(b, now) ==
  CASE b.since = NoTime              -> [b EXCEPT !.since = now]
    [] b.since # NoTime /\ now - b.since >= ResetAfter -> [b EXCEPT !.failures = << >>]
    [] OTHER                         -> b

\* should_open.
ShouldOpen(b, now) == Len(EvictOld(b.failures, now)) >= MaxFailures

\* 2 ** attempt, as a function: the provers know nothing of 2^n.
Pow2[n \in Nat] == IF n = 0 THEN 1 ELSE 2 * Pow2[n - 1]

\* compute_backoff without jitter: min(cap, base * 2 ** attempt), the doubling
\* followed no further than to the cap.
RawBackoff(attempt) ==
  IF \E e \in 0..attempt : Base * Pow2[e] >= Cap THEN Cap ELSE Base * Pow2[attempt]

\* ... and with it: plus or minus a fifth; the two ends of the range.
Backoffs(attempt) ==
  LET raw == RawBackoff(attempt) IN {raw - raw \div 5, raw + raw \div 5}
=============================================================================
