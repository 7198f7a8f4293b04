\* One wrong guess fills a bucket; the clock passes the end of the window, of a
\* grant and of a session.
CONSTANTS
  Logins = {a, b}
  Requests = {x, y}
  Ips = {i, j}
  Names = {"admin", "guess"}
  Admin = "admin"
  Passwords = {"old", "new"}
  FirstPass = "old"
  Sessions = {1}
  Limit = 1
  Window = 2
  Ttl = 1
  Lifetime = 2
  MaxGrants = 1
  MaxTime = 2
SYMMETRY Symmetry
SPECIFICATION Spec
INVARIANTS TypeOK GuessesBounded RetryAfterIsEnough ChangeTakesHold GrantOnce
