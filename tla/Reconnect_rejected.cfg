\* The values of the code, in units of 200 ms: 30 failures, a window of 5 min,
\* 60 s of health, a backoff from 1 s to 60 s; ffmpeg exits after 200 ms;
\* 2 ** 1024 is beyond a float.
CONSTANTS
  MaxFailures = 30
  Window = 1500
  ResetAfter = 300
  Base = 5
  Cap = 300
  MaxAttempt = 1024
  Rejections = {1}
  Services = {}
SPECIFICATION Refused
PROPERTY RejectionTrips
