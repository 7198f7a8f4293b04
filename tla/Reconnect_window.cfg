\* A small clock: four failures within thirty units trip, seven healthy units
\* forgive, the backoff doubles from two to ten
\* and attempt five, the sixth, overflows.
CONSTANTS
  MaxFailures = 4
  Window = 30
  ResetAfter = 7
  Base = 2
  Cap = 10
  MaxAttempt = 5
  Rejections = {0, 1, 9}
  Services = {0, 6, 7, 12}
SPECIFICATION Spec
INVARIANT OpenIffWindowFull
