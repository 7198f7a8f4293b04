------------------------------ MODULE KeyVault ------------------------------
(***************************************************************************)
(* The keys that protect the stream credentials: the key material of the   *)
(* process (app/auth/key_material.py), the salt on disk and the boot that  *)
(* reads it (app/main.py, app/db/schema_init.py), the requests that        *)
(* encrypt a credential (app/api/targets.py) and the rotation of the       *)
(* master passphrase (app/api/security_api.py), with the START that it     *)
(* must keep out (app/api/run.py).                                         *)
(*                                                                         *)
(* Derived keys are the pair of a passphrase and a salt; what is encrypted *)
(* or signed is stood for by the keys it was done under.  A request is cut *)
(* at its awaits.  SQLite lets one connection write: touch_last_seen, the  *)
(* first UPDATE of every authenticated request, takes the write lock, and  *)
(* the commit gives it back.  A SELECT takes no lock.                      *)
(***************************************************************************)
EXTENDS Naturals, FiniteSets

CONSTANTS
  Passes,      \* passphrases an operator may type
  FirstPass,   \* the one the operator chose first
  Targets,     \* targets that may have a credential
  Setters,     \* requests that set a credential
  Rotators,    \* requests that rotate the passphrase
  MaxSalts,    \* bound of the model: salts drawn
  MaxCrashes   \* bound of the model: crashes of the process

ASSUME KeyVaultAssumption ==
  /\ FirstPass \in Passes
  /\ Setters \cap Rotators = {}
  /\ MaxSalts \in Nat \ {0} /\ MaxCrashes \in Nat

VARIABLES
  phase,     \* how far the boot has come, or "down"
  schema,    \* the tables: "none", "begun" (version still 0) or "done"
  seeded,    \* the settings and admin rows are there
  saltFile,  \* .kdf_salt, 0 when absent
  newFile,   \* .kdf_salt.new
  logged,    \* salts that passphrase_rotation_orphaned has logged
  minted,    \* the last salt drawn
  km,        \* KeyMaterial: _state, _kdf_salt, _keys
  asked,     \* passphrases of unlock() calls that wait for its lock
  deriving,  \* the passphrase unlock() derives, under its lock
  cred,      \* the keys of each credential row
  session,   \* the MAC key of the session row of the operator's cookie
  writer,    \* the request that holds SQLite's write lock
  rotLock,   \* AuthState.rotation_lock
  run,       \* run_state(), with "scheduled" while START's task has not run
  req,       \* each request: where it is and what it has read
  crashes,   \* crashes so far
  pass,      \* history: the passphrase that goes with .kdf_salt
  torn,      \* history: keys of a rewrap whose salt has not been renamed in
  late,      \* history: targets written under other keys than those on disk, or
             \* after a rotation had read its rows
  retried,   \* history: a rotation staged its salt over a torn one
  raced      \* history: a rotation took its lock while a START was scheduled

disk    == <<saltFile, newFile, logged>>
boot    == <<phase, schema, seeded, crashes>>
keyring == <<km, asked, deriving>>
ghosts  == <<pass, torn, late, retried, raced>>
vars    == <<boot, disk, minted, keyring, cred, session, writer, rotLock, run, req, ghosts>>

None   == "none"
NoKeys == << >>
NoSalt == 0

Requests == Setters \cup Rotators

\* None is neither a passphrase nor a request.
ASSUME NoneAssumption == None \notin Passes \cup Requests

Idle     == [pc |-> "idle", keys |-> NoKeys, new |-> NoKeys, listed |-> {}]
Locked   == [state |-> "locked", salt |-> NoSalt, keys |-> NoKeys]

Rows == {t \in Targets : cred[t] # NoKeys}

-----------------------------------------------------------------------------
(* Boot and crash.                                                         *)

\* create_app: load_or_create_kdf_salt and a locked KeyMaterial.
BootSalt ==
  /\ phase = "down"
  /\ IF saltFile = NoSalt
     THEN /\ minted < MaxSalts
          /\ minted' = minted + 1
          /\ saltFile' = minted'
     ELSE UNCHANGED <<minted, saltFile>>
  /\ km' = [Locked EXCEPT !.salt = saltFile']
  /\ phase' = "schema"
  /\ UNCHANGED <<schema, seeded, crashes, newFile, logged, asked, deriving,
                 cred, session, writer, rotLock, run, req, ghosts>>

\* _sync_bootstrap_schema: a fresh database gets its tables, the script committing
\* statement by statement; one that has its version is left alone.
BootSchema ==
  /\ phase = "schema"
  /\ \/ schema = "none" /\ schema' = "begun" /\ phase' = "script"
     \/ schema = "done" /\ phase' = "recover" /\ UNCHANGED schema
  /\ UNCHANGED <<seeded, crashes, disk, minted, keyring, cred, session, writer, rotLock,
                 run, req, ghosts>>

\* The end of the script, and user_version.
BootVersion ==
  /\ phase = "script"
  /\ schema' = "done" /\ phase' = "seed"
  /\ UNCHANGED <<seeded, crashes, disk, minted, keyring, cred, session, writer, rotLock,
                 run, req, ghosts>>

\* _seed_initial_rows, in one transaction.
BootSeed ==
  /\ phase = "seed"
  /\ seeded' = TRUE /\ phase' = "recover"
  /\ UNCHANGED <<schema, crashes, disk, minted, keyring, cred, session, writer, rotLock,
                 run, req, ghosts>>

\* What an interrupted first boot leaves behind fails every later one: the script
\* finds its own tables, or _read_ingest_key_now misses the settings row.
BootFails ==
  /\ \/ phase = "schema" /\ schema = "begun"
     \/ phase = "recover" /\ ~seeded
  /\ phase' = "down" /\ km' = Locked
  /\ UNCHANGED <<schema, seeded, crashes, disk, minted, asked, deriving, cred, session,
                 writer, rotLock, run, req, ghosts>>

\* The rest of the lifespan: unlocked at once in env mode, locked in paste mode.
BootServe ==
  /\ phase = "recover" /\ seeded
  /\ phase' = "serving"
  /\ \/ UNCHANGED km
     \/ \E p \in Passes : km' = [km EXCEPT !.state = "ready", !.keys = <<p, km.salt>>]
  /\ UNCHANGED <<schema, seeded, crashes, disk, minted, asked, deriving, cred, session,
                 writer, rotLock, run, req, ghosts>>

\* The process dies; an open transaction is rolled back.
Crash ==
  /\ phase # "down" /\ crashes < MaxCrashes
  /\ crashes' = crashes + 1
  /\ phase' = "down"
  /\ km' = Locked /\ asked' = {} /\ deriving' = None
  /\ writer' = None /\ rotLock' = None /\ run' = "offline"
  /\ req' = [x \in Requests |-> Idle]
  /\ UNCHANGED <<schema, seeded, disk, minted, cred, session, ghosts>>

-----------------------------------------------------------------------------
(* KeyMaterial.unlock.                                                     *)

\* POST /api/unlock while not ready: the call queues on the lock.
UnlockCall(p) ==
  /\ phase = "serving" /\ km.state # "ready"
  /\ asked' = asked \cup {p}
  /\ UNCHANGED <<boot, disk, minted, km, deriving, cred, session, writer, rotLock, run,
                 req, ghosts>>

\* Seeded bug: the state is not looked at again under the lock.
UnlockEnter_Once(p) ==
  /\ p \in asked /\ deriving = None
  /\ asked' = asked \ {p}
  /\ deriving' = p
  /\ km' = [km EXCEPT !.state = "unlocking"]
  /\ UNCHANGED <<boot, disk, minted, cred, session, writer, rotLock, run, req, ghosts>>

\* The lock is had: the double check, then the derivation begins in a thread.
UnlockEnter(p) ==
  /\ p \in asked /\ deriving = None
  /\ asked' = asked \ {p}
  /\ IF km.state = "ready"
     THEN UNCHANGED <<km, deriving>>
     ELSE deriving' = p /\ km' = [km EXCEPT !.state = "unlocking"]
  /\ UNCHANGED <<boot, disk, minted, cred, session, writer, rotLock, run, req, ghosts>>

\* The derivation ends, or fails and the state is rolled back.
UnlockDone ==
  /\ deriving # None
  /\ deriving' = None
  /\ \/ km' = [km EXCEPT !.state = "ready", !.keys = <<deriving, km.salt>>]
     \/ km' = [km EXCEPT !.state = "locked"]
  /\ UNCHANGED <<boot, disk, minted, asked, cred, session, writer, rotLock, run, req, ghosts>>

-----------------------------------------------------------------------------
(* What every authenticated request does first.                            *)

\* require_unlocked_keys.
Unlocked == phase = "serving" /\ km.state = "ready"

\* The token hash of the cookie, made with the keys of the process, finds its row.
CookieValid == session = km.keys

\* A login of the operator: its row is signed with the keys of the process.
Login ==
  /\ Unlocked /\ writer = None
  /\ session' = km.keys
  /\ UNCHANGED <<boot, disk, minted, keyring, cred, writer, rotLock, run, req, ghosts>>

\* LockedModeMiddleware, require_unlocked_keys and the SELECT of verify_cookie.  The
\* keys are taken once, here; when they or the row change before the SELECT has
\* answered, the answer is 401, as if the request had not come.
Begin(x) ==
  /\ req[x].pc = "idle"
  /\ Unlocked /\ CookieValid
  /\ req' = [req EXCEPT ![x] = [Idle EXCEPT !.pc = "touch", !.keys = km.keys]]
  /\ UNCHANGED <<boot, disk, minted, keyring, cred, session, writer, rotLock, run, ghosts>>

\* touch_last_seen: an UPDATE, of no row when the session is gone.
Touch(x) ==
  /\ req[x].pc = "touch" /\ writer = None
  /\ writer' = x
  /\ req' = [req EXCEPT ![x].pc = "body"]
  /\ UNCHANGED <<boot, disk, minted, keyring, cred, session, rotLock, run, ghosts>>

\* busy_timeout: the UPDATE fails because another request still writes.
Busy(x) ==
  /\ req[x].pc = "touch" /\ writer # None
  /\ req' = [req EXCEPT ![x] = Idle]
  /\ UNCHANGED <<boot, disk, minted, keyring, cred, session, writer, rotLock, run, ghosts>>

Free(x) == IF writer = x THEN None ELSE writer

\* get_db_session: commit or rollback, whatever the answer is.
Leave(x) ==
  /\ req' = [req EXCEPT ![x] = Idle]
  /\ writer' = Free(x)

-----------------------------------------------------------------------------
(* PUT /api/targets/{id}/credential, and the end of a credential.          *)

\* A row that is replaced or removed is no longer one that a rotation has read.
Unlist(t) == [x \in Requests |-> [req[x] EXCEPT !.listed = @ \ {t}]]

\* set_credential: encrypt under the keys of the request, upsert and commit.
SetWrite(x, t) ==
  /\ x \in Setters /\ req[x].pc = "body"
  /\ cred' = [cred EXCEPT ![t] = req[x].keys]
  /\ late' = IF req[x].keys = <<pass, saltFile>> /\ torn = NoKeys
                  /\ \A r \in Rotators : req[r].pc # "rewrap"
             THEN late \ {t} ELSE late \cup {t}
  /\ req' = [Unlist(t) EXCEPT ![x] = Idle]
  /\ writer' = None
  /\ UNCHANGED <<boot, disk, minted, keyring, session, rotLock, run, pass, torn, retried, raced>>

\* delete_for_target and the delete of a target, in a transaction of their own.
ClearCredential(t) ==
  /\ phase = "serving" /\ writer = None /\ t \in Rows
  /\ cred' = [cred EXCEPT ![t] = NoKeys]
  /\ late' = late \ {t}
  /\ req' = Unlist(t)
  /\ UNCHANGED <<boot, disk, minted, keyring, session, writer, rotLock, run, pass, torn,
                 retried, raced>>

-----------------------------------------------------------------------------
(* POST /api/security/rotate-passphrase.                                   *)

\* Seeded bug: the run is not looked at.
RotEnter_AnyRun(x) ==
  /\ x \in Rotators /\ req[x].pc = "body"
  /\ rotLock = None
  /\ rotLock' = x
  /\ raced' = (raced \/ run = "scheduled")
  /\ req' = [req EXCEPT ![x].pc = "verify"]
  /\ UNCHANGED <<boot, disk, minted, keyring, cred, session, writer, run, pass, torn, late, retried>>

\* The run is offline, as far as run_state() says, and no rotation is going on.
RotEnter(x) ==
  /\ x \in Rotators /\ req[x].pc = "body"
  /\ run # "active" /\ rotLock = None
  /\ rotLock' = x
  /\ raced' = (raced \/ run = "scheduled")
  /\ req' = [req EXCEPT ![x].pc = "verify"]
  /\ UNCHANGED <<boot, disk, minted, keyring, cred, session, writer, run, pass, torn, late, retried>>

\* The request ends without effect: a rotation at 409, 403 or 422, a PUT at 404, a
\* refused key or a failed write.
Refuse(x) ==
  /\ req[x].pc = "body"
  /\ Leave(x)
  /\ UNCHANGED <<boot, disk, minted, keyring, cred, session, rotLock, run, ghosts>>

\* verify_passphrase says no, or the derivation or a file write fails.  The write
\* lock is kept through the floor sleep, longer than the rotation's; nobody sees
\* that, as whoever looks at the rotation's lock has had the write lock first.
RotReject(x) ==
  /\ x \in Rotators /\ req[x].pc = "verify"
  /\ rotLock' = None
  /\ Leave(x)
  /\ UNCHANGED <<boot, saltFile, newFile, logged, minted, keyring, cred, session, run, ghosts>>

\* Seeded bug: the new salt is kept in memory until it is renamed in.
RotVerify_Unstaged(x) ==
  /\ x \in Rotators /\ req[x].pc = "verify" /\ minted < MaxSalts
  /\ minted' = minted + 1
  /\ \E old, p \in Passes :
       /\ <<old, km.salt>> = km.keys /\ p # old
       /\ req' = [req EXCEPT ![x].pc = "list", ![x].new = <<p, minted'>>]
  /\ writer' = Free(x)
  /\ UNCHANGED <<boot, saltFile, newFile, logged, keyring, cred, session, rotLock, run, ghosts>>

\* The old passphrase is right: draw a salt, write it to .new, commit
\* what the request has written so far.
RotVerify(x) ==
  /\ x \in Rotators /\ req[x].pc = "verify" /\ minted < MaxSalts
  /\ minted' = minted + 1
  /\ \E old, p \in Passes :
       /\ <<old, km.salt>> = km.keys /\ p # old
       /\ req' = [req EXCEPT ![x].pc = "list", ![x].new = <<p, minted'>>]
  /\ newFile' = minted'
  /\ retried' = (retried \/ torn # NoKeys)
  /\ writer' = Free(x)
  /\ UNCHANGED <<boot, saltFile, logged, keyring, cred, session, rotLock, run, pass, torn,
                 late, raced>>

\* Seeded bug: the lock is let go of only at the end of the try block.
RotAbort_KeepsLock(x) ==
  /\ newFile' = NoSalt
  /\ Leave(x)
  /\ UNCHANGED <<rotLock, boot, saltFile, minted, keyring, cred, session, run, ghosts>>

\* The handler's except clause: unlink .new and let go of the lock.
RotAbort(x) ==
  /\ newFile' = NoSalt
  /\ rotLock' = None
  /\ Leave(x)
  /\ UNCHANGED <<boot, saltFile, minted, keyring, cred, session, run, ghosts>>

\* Seeded bug: a row that does not decrypt is passed over.
RotList_Skips(x) ==
  /\ x \in Rotators /\ req[x].pc = "list"
  /\ req' = [req EXCEPT ![x].pc = "rewrap", ![x].listed = {t \in Rows : cred[t] = req[x].keys}]
  /\ UNCHANGED <<boot, disk, minted, keyring, cred, session, writer, rotLock, run, ghosts>>

\* list_all_for_rewrap; one row that the keys of the request do not open ends it.
RotList(x) ==
  /\ x \in Rotators /\ req[x].pc = "list"
  /\ IF \E t \in Rows : cred[t] # req[x].keys
     THEN RotAbort(x) /\ UNCHANGED logged
     ELSE /\ req' = [req EXCEPT ![x].pc = "rewrap", ![x].listed = Rows]
          /\ UNCHANGED <<boot, disk, minted, keyring, cred, session, writer, rotLock, run, ghosts>>

\* One transaction: rewrap() every row read, delete all sessions and API tokens.
RotRewrap(x) ==
  /\ x \in Rotators /\ req[x].pc = "rewrap" /\ writer = None
  /\ cred' = [t \in Targets |-> IF t \in req[x].listed THEN req[x].new ELSE cred[t]]
  /\ session' = NoKeys
  /\ torn' = req[x].new
  /\ late' = late \ req[x].listed
  /\ req' = [req EXCEPT ![x].pc = "rename"]
  /\ UNCHANGED <<boot, disk, minted, keyring, writer, rotLock, run, pass, retried, raced>>

\* A statement of that transaction fails, a busy database included.
RotRewrapFails(x) ==
  /\ x \in Rotators /\ req[x].pc = "rewrap"
  /\ RotAbort(x)
  /\ UNCHANGED logged

\* Seeded bug: the salt of the process stays the old one.
RotRename_OldSalt(x) ==
  /\ x \in Rotators /\ req[x].pc = "rename"
  /\ saltFile' = newFile /\ newFile' = NoSalt
  /\ km' = [km EXCEPT !.keys = req[x].new]
  /\ pass' = req[x].new[1] /\ torn' = NoKeys
  /\ rotLock' = None
  /\ Leave(x)
  /\ UNCHANGED <<boot, logged, minted, asked, deriving, cred, session, run, late,
                 retried, raced>>

\* .new becomes .kdf_salt and rotate_in_place follows without a yield.
RotRename(x) ==
  /\ x \in Rotators /\ req[x].pc = "rename"
  /\ saltFile' = newFile /\ newFile' = NoSalt
  /\ km' = [km EXCEPT !.salt = req[x].new[2], !.keys = req[x].new]
  /\ pass' = req[x].new[1] /\ torn' = NoKeys
  /\ rotLock' = None
  /\ Leave(x)
  /\ UNCHANGED <<boot, logged, minted, asked, deriving, cred, session, run, late,
                 retried, raced>>

\* The rename fails: passphrase_rotation_orphaned logs both salts.
RotOrphaned(x) ==
  /\ x \in Rotators /\ req[x].pc = "rename"
  /\ logged' = logged \cup {saltFile, req[x].new[2]}
  /\ RotAbort(x)

-----------------------------------------------------------------------------
(* START and STOP.                                                         *)

\* POST /api/run/start: both tests pass and the task is scheduled.
StartApi ==
  /\ Unlocked
  /\ run = "offline" /\ rotLock = None
  /\ run' = "scheduled"
  /\ UNCHANGED <<boot, disk, minted, keyring, cred, session, writer, rotLock, req, ghosts>>

\* Supervisor.start_run has the control lock: from here run_state() is not OFFLINE.
StartRun ==
  /\ run = "scheduled"
  /\ run' = "active"
  /\ UNCHANGED <<boot, disk, minted, keyring, cred, session, writer, rotLock, req, ghosts>>

\* The run has come back to OFFLINE.
StopRun ==
  /\ run = "active"
  /\ run' = "offline"
  /\ UNCHANGED <<boot, disk, minted, keyring, cred, session, writer, rotLock, req, ghosts>>

-----------------------------------------------------------------------------
Init ==
  /\ phase = "down" /\ schema = "none" /\ seeded = FALSE /\ crashes = 0
  /\ saltFile = NoSalt /\ newFile = NoSalt /\ logged = {}
  /\ minted = NoSalt
  /\ km = Locked /\ asked = {} /\ deriving = None
  /\ cred = [t \in Targets |-> NoKeys] /\ session = NoKeys
  /\ writer = None /\ rotLock = None /\ run = "offline"
  /\ req = [x \in Requests |-> Idle]
  /\ pass = FirstPass
  /\ torn = NoKeys /\ late = {} /\ retried = FALSE /\ raced = FALSE

Boot == BootSalt \/ BootSchema \/ BootVersion \/ BootSeed \/ BootServe \/ BootFails

Unlock == UnlockDone \/ \E p \in Passes : UnlockEnter(p)

Rotate(x) ==
  \/ RotEnter(x) \/ RotVerify(x) \/ RotReject(x) \/ RotList(x)
  \/ RotRewrap(x) \/ RotRewrapFails(x) \/ RotRename(x) \/ RotOrphaned(x)

Request(x) ==
  \/ Touch(x) \/ Busy(x) \/ Refuse(x) \/ Rotate(x)
  \/ \E t \in Targets : SetWrite(x, t)

Next ==
  \/ Boot \/ Crash
  \/ Unlock \/ \E p \in Passes : UnlockCall(p)
  \/ Login
  \/ \E t \in Targets : ClearCredential(t)
  \/ StartApi \/ StartRun \/ StopRun
  \/ \E x \in Requests : Begin(x) \/ Request(x)

Spec == Init /\ [][Next]_vars

-----------------------------------------------------------------------------
(* Properties.                                                             *)

Keys == Passes \X (1 .. MaxSalts)

\* Every variable has its type; the write lock and the rotation lock are held by
\* requests that are under way.
TypeOK ==
  /\ phase \in {"down", "schema", "script", "seed", "recover", "serving"}
  /\ schema \in {"none", "begun", "done"} /\ seeded \in BOOLEAN
  /\ {saltFile, newFile} \subseteq 0 .. minted
  /\ logged \subseteq 1 .. minted /\ minted \in 0 .. MaxSalts
  /\ km.state \in {"locked", "unlocking", "ready"} /\ km.salt \in 0 .. minted
  /\ km.keys \in Keys \cup {NoKeys}
  /\ asked \subseteq Passes /\ deriving \in Passes \cup {None}
  /\ (km.state = "unlocking") = (deriving # None)
  /\ cred \in [Targets -> Keys \cup {NoKeys}]
  /\ {session, torn} \subseteq Keys \cup {NoKeys}
  /\ \A x \in Requests : req[x].keys \in Keys \cup {NoKeys} /\ req[x].listed \subseteq Targets
  /\ writer # None => writer \in Requests /\ req[writer].pc \in {"body", "verify"}
  /\ rotLock # None => rotLock \in Rotators /\ req[rotLock].pc \in {"verify", "list", "rewrap", "rename"}
  /\ run \in {"offline", "scheduled", "active"}
  /\ pass \in Passes /\ late \subseteq Targets

\* The keys a process holds are those it would derive after a restart: memory and
\* .kdf_salt never part, through rotations, failures and crashes.
\* (rotate_passphrase phases 3 and 4, rotate_in_place, load_or_create_kdf_salt)
KeysMatchDisk ==
  /\ phase # "down" => km.salt = saltFile
  /\ km.state = "ready" => km.keys[2] = saltFile

\* Unless a rotation stopped between its commit and its rename, the passphrase
\* and the salt on disk open every credential that was not written late: by a
\* request that read its keys before the rotation did its rows, or after an
\* unlock with another passphrase.  A rotation itself, refused, failed or repeated, strands none.
\* (list_all_for_rewrap, rewrap, set_credential)
OneKeyOpensAll ==
  torn = NoKeys => \A t \in Rows \ late : cred[t] = <<pass, saltFile>>

\* When a rotation did stop there, the salt of its rows can still be found, in
\* .kdf_salt.new or in the log, as long as nobody has tried to rotate again.
TornIsRecoverable ==
  (torn # NoKeys /\ ~retried /\ \E t \in Rows : cred[t] = torn)
    => torn[2] \in {saltFile, newFile} \cup logged

\* A run and a rotation overlap only when the START had been accepted before the
\* rotation took its lock and its task had not run: the window between the test
\* of rotation_lock in run.py and start_run, the tests of rotate_passphrase being
\* complete otherwise.
OverlapOnlyByWindow == (rotLock # None /\ run = "active") => raced

\* A process that is ready stays ready, and its keys change with the salt only:
\* two unlocks with different passphrases do not overwrite each other.  (unlock)
ReadyForGood ==
  [][km.state = "ready" =>
       \/ phase' = "down"
       \/ km'.state = "ready" /\ (km'.keys = km.keys \/ saltFile' # saltFile)]_vars
=============================================================================
