---------------------------- MODULE AdminAccess ----------------------------
(***************************************************************************)
(* Who may act as the administrator: logins behind the failure limiter     *)
(* (app/auth/rate_limit.py, app/auth/sessions.py), sessions and API tokens *)
(* and what revokes them (app/api/auth.py, app/api/security_api.py,        *)
(* app/api/api_tokens_api.py), the change of the password, and the         *)
(* single-use grants that sensitive requests must show                     *)
(* (app/auth/reprompts.py).                                                *)
(*                                                                         *)
(* One user, one API token.  A login reads the user, verifies in a thread  *)
(* and writes; an authenticated request reads its session and the user,    *)
(* takes SQLite's write lock with touch_last_seen and keeps it to its      *)
(* commit.  The two kinds interleave at those points.  Time is one clock.  *)
(***************************************************************************)
EXTENDS Naturals, Sequences, FiniteSets

CONSTANTS
  Logins,      \* login requests
  Requests,    \* authenticated requests
  Ips,         \* client addresses
  Names,       \* user names that may be typed
  Admin,       \* the one that is in the users table
  Passwords,   \* what may be typed
  FirstPass,   \* the password the user row begins with
  Sessions,    \* cookies
  Limit,       \* DEFAULT_FAILURE_LIMIT
  Window,      \* DEFAULT_WINDOW_SECONDS
  Ttl,         \* REPROMPT_GRANT_TTL_SECONDS
  Lifetime,    \* SESSION_COOKIE_LIFETIME
  MaxGrants,   \* bound of the model: grants issued
  MaxTime      \* bound of the model: the clock stops here

ASSUME AdminAccessAssumption ==
  /\ FirstPass \in Passwords /\ Admin \in Names
  /\ Limit \in Nat \ {0} /\ Window \in Nat \ {0} /\ Ttl \in Nat \ {0} /\ Lifetime \in Nat \ {0}
  /\ MaxGrants \in Nat /\ MaxTime \in Nat
  /\ IsFiniteSet(Logins)

VARIABLES
  now,      \* the clock
  byIp,     \* LoginRateLimiter._by_ip: failure times of each address
  byName,   \* LoginRateLimiter._by_username: failure times of each name
  user,     \* users.password_hash: of which password, with which parameters
  session,  \* the session row of each cookie
  token,    \* the API token row: "none", "active" or "revoked"
  grants,   \* RepromptStore._grants
  login,    \* each login request: where it is and what it has read
  req,      \* each authenticated request: the same
  writer,   \* the request that holds SQLite's write lock
  chosen,   \* history: the password the operator set last
  reverted, \* history: a rehash has put back a password that had been changed
  issued,   \* history: grants issued so far
  uses      \* history: how often each grant has let a request through

limiter == <<byIp, byName>>
rows    == <<user, session, token>>
history == <<chosen, reverted, issued, uses>>
vars    == <<now, limiter, rows, grants, login, req, writer, history>>

None   == "none"
NoRow  == [pass |-> None, expires |-> 0, raced |-> FALSE]
Out    == [pc |-> "idle", ip |-> None, name |-> None, pass |-> None, weak |-> FALSE, raced |-> FALSE]

\* None is neither a password nor a request.
ASSUME NoneAssumption == None \notin Passwords \cup Requests

Scopes == {"change_password", "revoke_api_token"}

\* delete_all_for_user.
NoSessions == [s \in Sessions |-> NoRow]

Live(s) == session[s] # NoRow /\ session[s].expires > now

-----------------------------------------------------------------------------
(* The limiter.                                                            *)

\* What _prune leaves: it pops from the left until a failure is in the window.
Kept(bucket, at) == {i \in 1 .. Len(bucket) : \E j \in 1 .. i : bucket[j] + Window > at}

\* _prune.
Pruned(bucket, at) ==
  SubSeq(bucket, Len(bucket) - Cardinality(Kept(bucket, at)) + 1, Len(bucket))

Full(bucket, at) == Len(Pruned(bucket, at)) >= Limit

\* check().allowed
Allowed(ip, n, at) == ~Full(byIp[ip], at) /\ ~Full(byName[n], at)

\* Seeded bug: the bucket is read before it is pruned.
OldestExpiry_Unpruned(bucket, at) == (Head(bucket) + Window) - at

\* _oldest_expiry, of a bucket that is full.
OldestExpiry(bucket, at) == (Head(Pruned(bucket, at)) + Window) - at

FullBuckets(ip, n, at) == {b \in {byIp[ip], byName[n]} : Full(b, at)}

\* check().retry_after_seconds: the worse of the full buckets.  The code rounds up
\* to whole seconds, which this clock counts, and to one at least, as it is here.
RetryAfter(ip, n, at) ==
  LET waits == {OldestExpiry(b, at) : b \in FullBuckets(ip, n, at)}
  IN  CHOOSE w \in waits : \A v \in waits : w >= v

\* record_failure prunes both buckets and appends to both.
RecordFailure(ip, n) ==
  /\ byIp' = [byIp EXCEPT ![ip] = Append(Pruned(@, now), now)]
  /\ byName' = [byName EXCEPT ![n] = Append(Pruned(@, now), now)]

-----------------------------------------------------------------------------
(* POST /api/auth/login.                                                   *)

\* The user is read, or there is none; what verify_password will find is settled
\* then.  A wrong password is kept as None.
Attempt(ip, n, p) ==
  IF n = Admin /\ p = user.pass
  THEN [Out EXCEPT !.pc = "verify", !.pass = p, !.weak = user.weak]
  ELSE [Out EXCEPT !.pc = "verify", !.ip = ip, !.name = n]

Wrong(a) == login[a].pass = None

PruneBoth(ip, n) ==
  /\ byIp' = [byIp EXCEPT ![ip] = Pruned(@, now)]
  /\ byName' = [byName EXCEPT ![n] = Pruned(@, now)]

\* Seeded bug: only the address is counted.
LoginBegin_ByIp(a, ip, n, p) ==
  /\ login[a].pc = "idle"
  /\ login' = IF Full(byIp[ip], now) THEN login ELSE [login EXCEPT ![a] = Attempt(ip, n, p)]
  /\ PruneBoth(ip, n)
  /\ UNCHANGED <<now, rows, grants, req, writer, history>>

\* check(), and when it allows the attempt the user is read.
LoginBegin(a, ip, n, p) ==
  /\ login[a].pc = "idle"
  /\ login' = IF Allowed(ip, n, now) THEN [login EXCEPT ![a] = Attempt(ip, n, p)] ELSE login
  /\ PruneBoth(ip, n)
  /\ UNCHANGED <<now, rows, grants, req, writer, history>>

\* The verify thread ends: 401 and a recorded failure.
LoginFails(a) ==
  /\ login[a].pc = "verify" /\ Wrong(a)
  /\ RecordFailure(login[a].ip, login[a].name)
  /\ login' = [login EXCEPT ![a] = Out]
  /\ UNCHANGED <<now, rows, grants, req, writer, history>>

\* The password is right: insert the session, commit, and schedule the rehash of
\* a hash with weaker parameters.  The commit comes with the exit of get_db_session,
\* and whether that is before or after the rehash is the framework's choice: a
\* rehash that finds the write lock taken by its own login is one that fails.
LoginSucceeds(a, s) ==
  /\ login[a].pc = "verify" /\ ~Wrong(a)
  /\ writer = None /\ session[s] = NoRow
  /\ session' = [session EXCEPT ![s] = [pass |-> login[a].pass, expires |-> now + Lifetime,
                                        raced |-> login[a].raced]]
  /\ login' = [login EXCEPT ![a] = IF login[a].weak THEN [@ EXCEPT !.pc = "rehash", !.weak = FALSE] ELSE Out]
  /\ UNCHANGED <<now, limiter, user, token, grants, req, writer, history>>

\* busy_timeout: the INSERT fails because a request holds the write lock.
LoginBusy(a) ==
  /\ login[a].pc = "verify" /\ ~Wrong(a)
  /\ writer # None
  /\ login' = [login EXCEPT ![a] = Out]
  /\ UNCHANGED <<now, limiter, rows, grants, req, writer, history>>

\* _rehash_admin_password, in the background: the password of the login is hashed
\* anew and stored, whatever is stored by then.
Rehash(a) ==
  /\ login[a].pc = "rehash" /\ writer = None
  /\ user' = [pass |-> login[a].pass, weak |-> FALSE]
  /\ reverted' = (reverted \/ login[a].raced)
  /\ login' = [login EXCEPT ![a] = Out]
  /\ UNCHANGED <<now, limiter, session, token, grants, req, writer, chosen, issued, uses>>

\* Its hashing or its transaction fails, which is logged.
RehashFails(a) ==
  /\ login[a].pc = "rehash"
  /\ login' = [login EXCEPT ![a] = Out]
  /\ UNCHANGED <<now, limiter, rows, grants, req, writer, history>>

-----------------------------------------------------------------------------
(* What every authenticated request does first and last.                   *)

\* verify_cookie or verify_bearer finds an active row; the user comes with it.
Begin(x) ==
  /\ req[x] = "idle"
  /\ (\E s \in Sessions : Live(s)) \/ token = "active"
  /\ req' = [req EXCEPT ![x] = "touch"]
  /\ UNCHANGED <<now, limiter, rows, grants, login, writer, history>>

\* The WebSocket upgrade deletes a row that has expired, and commits that; where
\* verify_cookie does, the delete is rolled back with the 401.
ReapExpired(s) ==
  /\ session[s] # NoRow /\ ~Live(s) /\ writer = None
  /\ session' = [session EXCEPT ![s] = NoRow]
  /\ UNCHANGED <<now, limiter, user, token, grants, login, req, writer, history>>

\* touch_last_seen, touch_last_used: the UPDATE waits for the write lock.
Touch(x) ==
  /\ req[x] = "touch" /\ writer = None
  /\ writer' = x
  /\ req' = [req EXCEPT ![x] = "body"]
  /\ UNCHANGED <<now, limiter, rows, grants, login, history>>

\* busy_timeout.
Busy(x) ==
  /\ req[x] = "touch" /\ writer # None
  /\ req' = [req EXCEPT ![x] = "idle"]
  /\ UNCHANGED <<now, limiter, rows, grants, login, writer, history>>

\* Seeded bug: the transaction of a request that ended stays open.
Leave_Open(x) ==
  /\ req' = [req EXCEPT ![x] = "idle"]
  /\ UNCHANGED writer

\* get_db_session commits or rolls back.
Leave(x) ==
  /\ req' = [req EXCEPT ![x] = "idle"]
  /\ writer' = None

\* A 4xx of the body, or nothing to write.
Answer(x) ==
  /\ req[x] \in {"body", "verify"}
  /\ Leave(x)
  /\ UNCHANGED <<now, limiter, rows, grants, login, history>>

-----------------------------------------------------------------------------
(* Re-prompt grants.                                                       *)

\* issue().
NewGrant(scope) == [id |-> issued + 1, scope |-> scope, at |-> now]

\* POST /api/auth/reprompt: the password is right for the user as read, a grant
\* is issued.
Reprompt(x, scope) ==
  /\ req[x] = "body" /\ issued < MaxGrants
  /\ issued' = issued + 1
  /\ grants' = grants \cup {NewGrant(scope)}
  /\ Leave(x)
  /\ UNCHANGED <<now, limiter, rows, login, chosen, reverted, uses>>

Presented(g) == {k \in grants : k.id = g}

\* The grant g lets a request for scope through.
Good(g, scope) == \E k \in Presented(g) : k.scope = scope /\ now < k.at + Ttl

\* Seeded bug: the grant is removed only by the pruner.
Consume_Keeps(g, scope) ==
  /\ uses' = IF Good(g, scope) THEN [uses EXCEPT ![g] = @ + 1] ELSE uses
  /\ UNCHANGED grants

\* consume(): the grant is popped whether it is good or not.
Consume(g, scope) ==
  /\ grants' = grants \ Presented(g)
  /\ uses' = IF Good(g, scope) THEN [uses EXCEPT ![g] = @ + 1] ELSE uses

\* One turn of _reprompt_pruner_loop.
Prune ==
  /\ \E k \in grants : k.at + Ttl <= now
  /\ grants' = {k \in grants : k.at + Ttl > now}
  /\ UNCHANGED <<now, limiter, rows, login, req, writer, history>>

\* 403: the grant shown is not good, and is burnt.
Forbidden(x, g, scope) ==
  /\ req[x] = "body" /\ ~Good(g, scope)
  /\ Consume(g, scope)
  /\ Leave(x)
  /\ UNCHANGED <<now, limiter, rows, login, chosen, reverted, issued>>

-----------------------------------------------------------------------------
(* What the requests change.                                               *)

\* change_password: the grant, then the current password in a thread.
ChangeBegin(x, g) ==
  /\ req[x] = "body" /\ Good(g, "change_password")
  /\ Consume(g, "change_password")
  /\ req' = [req EXCEPT ![x] = "verify"]
  /\ UNCHANGED <<now, limiter, rows, login, writer, chosen, reverted, issued>>

\* What a change of the password does to a login that has read the user.
Overtaken == [a \in Logins |-> IF login[a].pc = "idle" \/ Wrong(a) THEN login[a] ELSE [login[a] EXCEPT !.raced = TRUE]]

\* Seeded bug: the sessions are kept.
ChangeCommit_KeepsSessions(x, p) ==
  /\ req[x] = "verify"
  /\ user' = [pass |-> p, weak |-> FALSE]
  /\ chosen' = p
  /\ login' = Overtaken
  /\ Leave(x)
  /\ UNCHANGED <<now, limiter, session, token, grants, reverted, issued, uses>>

\* It is right for the user as read: store the new hash, delete the sessions.
ChangeCommit(x, p) ==
  /\ req[x] = "verify"
  /\ user' = [pass |-> p, weak |-> FALSE]
  /\ chosen' = p
  /\ session' = NoSessions
  /\ login' = Overtaken
  /\ Leave(x)
  /\ UNCHANGED <<now, limiter, token, grants, reverted, issued, uses>>

\* logout-all.
LogoutAll(x) ==
  /\ req[x] = "body"
  /\ session' = NoSessions
  /\ Leave(x)
  /\ UNCHANGED <<now, limiter, user, token, grants, login, history>>

\* logout: the row of the cookie, of whatever age, without authentication.
Logout(s) ==
  /\ session[s] # NoRow /\ writer = None
  /\ session' = [session EXCEPT ![s] = NoRow]
  /\ UNCHANGED <<now, limiter, user, token, grants, login, req, writer, history>>

\* revoke_http_session of an active row.
RevokeSession(x, s) ==
  /\ req[x] = "body" /\ Live(s)
  /\ session' = [session EXCEPT ![s] = NoRow]
  /\ Leave(x)
  /\ UNCHANGED <<now, limiter, user, token, grants, login, history>>

\* create_token.
CreateToken(x) ==
  /\ req[x] = "body" /\ token = "none"
  /\ token' = "active"
  /\ Leave(x)
  /\ UNCHANGED <<now, limiter, user, session, grants, login, history>>

\* revoke_token: the grant first, then the row; one that is not active is a 404
\* that has burnt the grant.
RevokeToken(x, g) ==
  /\ req[x] = "body" /\ Good(g, "revoke_api_token")
  /\ Consume(g, "revoke_api_token")
  /\ token' = IF token = "active" THEN "revoked" ELSE token
  /\ Leave(x)
  /\ UNCHANGED <<now, limiter, user, session, login, chosen, reverted, issued>>

Tick ==
  /\ now < MaxTime
  /\ now' = now + 1
  /\ UNCHANGED <<limiter, rows, grants, login, req, writer, history>>

-----------------------------------------------------------------------------
Init ==
  /\ now = 0
  /\ byIp = [ip \in Ips |-> << >>] /\ byName = [n \in Names |-> << >>]
  /\ user = [pass |-> FirstPass, weak |-> TRUE]
  /\ session = NoSessions
  /\ token = "none"
  /\ grants = {}
  /\ login = [a \in Logins |-> Out]
  /\ req = [x \in Requests |-> "idle"]
  /\ writer = None
  /\ chosen = FirstPass /\ reverted = FALSE
  /\ issued = 0 /\ uses = [g \in 1 .. MaxGrants |-> 0]

Login(a) ==
  \/ LoginFails(a) \/ LoginBusy(a) \/ Rehash(a) \/ RehashFails(a)
  \/ \E s \in Sessions : LoginSucceeds(a, s)

Body(x) ==
  \/ Answer(x) \/ LogoutAll(x) \/ CreateToken(x)
  \/ \E s \in Sessions : RevokeSession(x, s)
  \/ \E scope \in Scopes : Reprompt(x, scope)
  \/ \E g \in 1 .. issued :
       \/ ChangeBegin(x, g) \/ RevokeToken(x, g)
       \/ \E scope \in Scopes : Forbidden(x, g, scope)
  \/ \E p \in Passwords : ChangeCommit(x, p)

Request(x) == Touch(x) \/ Busy(x) \/ Body(x)

Next ==
  \/ Tick \/ Prune
  \/ \E a \in Logins : Login(a) \/ \E ip \in Ips, n \in Names, p \in Passwords : LoginBegin(a, ip, n, p)
  \/ \E x \in Requests : Begin(x) \/ Request(x)
  \/ \E s \in Sessions : ReapExpired(s) \/ Logout(s)

Spec == Init /\ [][Next]_vars

-----------------------------------------------------------------------------
(* Properties.                                                             *)

Hashes == [pass : Passwords, weak : BOOLEAN]

\* Every variable has its type; who holds the write lock is at work.
TypeOK ==
  /\ now \in 0 .. MaxTime
  /\ \A ip \in Ips : byIp[ip] \in Seq(0 .. now)
  /\ \A n \in Names : byName[n] \in Seq(0 .. now)
  /\ user \in Hashes
  /\ session \in [Sessions -> {NoRow} \cup
       [pass : Passwords, expires : 0 .. now + Lifetime, raced : BOOLEAN]]
  /\ token \in {"none", "active", "revoked"}
  /\ grants \subseteq [id : 1 .. issued, scope : Scopes, at : 0 .. now]
  /\ \A a \in Logins : login[a].pc \in {"idle", "verify", "rehash"}
  /\ \A x \in Requests : req[x] \in {"idle", "touch", "body", "verify"}
  /\ \A x \in Requests : (writer = x) = (req[x] \in {"body", "verify"})
  /\ chosen \in Passwords /\ issued \in 0 .. MaxGrants

Recent(bucket) == Len(Pruned(bucket, now))

\* Within any window no more guesses are taken, from one address or in all, than
\* the limit and the logins that were under way beside the last allowed one.
\* (check and record_failure are apart by the verify thread.)
GuessesBounded ==
  \A b \in {byIp[ip] : ip \in Ips} \cup {byName[n] : n \in Names} :
    Recent(b) < Limit + Cardinality(Logins)

\* A client that waits as long as Retry-After says is let in, when nobody fails
\* meanwhile and no bucket has run over.  (check, _oldest_expiry, _prune)
RetryAfterIsEnough ==
  \A ip \in Ips, n \in Names :
    (~Allowed(ip, n, now) /\ \A b \in FullBuckets(ip, n, now) : Recent(b) = Limit)
      => Allowed(ip, n, now + RetryAfter(ip, n, now))

\* A change of the password takes hold: what is stored is the password the operator
\* set last, and no session is left that was opened with another one.  Excepted are
\* what a rehash has put back, and the session of a login that had read the user
\* before the change and inserted its row after it.
\* (change_password, revoke_all_for_user, _rehash_admin_password, _login_body)
ChangeTakesHold ==
  ~reverted =>
    /\ user.pass = chosen
    /\ \A s \in Sessions :
         session[s] # NoRow => session[s].pass = chosen \/ session[s].raced

\* A grant lets one request through, although several may show it.  (consume)
GrantOnce == \A g \in DOMAIN uses : uses[g] <= 1
=============================================================================
