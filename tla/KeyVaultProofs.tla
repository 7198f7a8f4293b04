--------------------------- MODULE KeyVaultProofs ---------------------------
(***************************************************************************)
(* Proofs about KeyVault, for any passphrases, targets and requests, and   *)
(* any number of salts and crashes.  IInv is the inductive invariant:      *)
(* besides the properties it says that a process that does not serve has   *)
(* begun nothing (NotServing), where its salt comes from (SaltHeld), who   *)
(* holds the two locks (LocksHeld) and what a rotation has staged, read    *)
(* and rewrapped at each of its awaits (RotationHeld).                     *)
(***************************************************************************)
EXTENDS KeyVault, TLAPS

Phases == {"down", "schema", "script", "seed", "recover", "serving"}

\* The awaits of a request; at the last four it has the rotation lock.
Rotating == {"verify", "list", "rewrap", "rename"}
ReqPc == {"idle", "touch", "body"} \cup Rotating

AnyKeys == Keys \cup {NoKeys}

FileTypes ==
  /\ phase \in Phases
  /\ schema \in {"none", "begun", "done"} /\ seeded \in BOOLEAN
  /\ minted \in 0 .. MaxSalts /\ saltFile \in 0 .. minted /\ newFile \in 0 .. minted
  /\ logged \subseteq 1 .. minted

KeyTypes ==
  /\ km \in [state : {"locked", "unlocking", "ready"}, salt : 0 .. MaxSalts, keys : AnyKeys]
  /\ asked \subseteq Passes /\ deriving \in Passes \cup {None}
  /\ cred \in [Targets -> AnyKeys] /\ session \in AnyKeys
  /\ req \in [Requests -> [pc : ReqPc, keys : AnyKeys, new : AnyKeys, listed : SUBSET Targets]]
  /\ run \in {"offline", "scheduled", "active"}
  /\ pass \in Passes /\ torn \in AnyKeys /\ late \subseteq Targets
  /\ retried \in BOOLEAN /\ raced \in BOOLEAN

Types == FileTypes /\ KeyTypes

\* Before it serves the process has done nothing with its keys yet.
NotServing ==
  phase # "serving" =>
    /\ km.state = "locked" /\ asked = {} /\ deriving = None
    /\ writer = None /\ rotLock = None /\ run = "offline"
    /\ \A x \in Requests : req[x] = Idle

\* The salt of the process is the one on disk, which is there from the boot on and
\* before any credential; a derivation is going on while the state says so.
SaltHeld ==
  /\ IF phase = "down" THEN km.salt = NoSalt ELSE km.salt = saltFile /\ saltFile # NoSalt
  /\ km.state = "ready" => km.keys # NoKeys /\ km.keys[2] = saltFile
  /\ km.state = "unlocking" <=> deriving # None
  /\ saltFile = NoSalt => Rows = {}

\* Who holds the locks; a request under way has found the process ready.
LocksHeld ==
  /\ writer \in Requests \cup {None} /\ rotLock \in Rotators \cup {None}
  /\ \A x \in Requests :
       /\ writer = x <=> req[x].pc \in {"body", "verify"}
       /\ rotLock = x <=> req[x].pc \in Rotating
       /\ req[x].pc # "idle" => km.state = "ready"

\* What a rotation has staged, read and rewrapped.
RotationHeld ==
  \A x \in Requests :
    /\ req[x].pc \in {"list", "rewrap", "rename"} =>
         req[x].new # NoKeys /\ req[x].new[2] = newFile /\ newFile # saltFile
    /\ req[x].pc \in {"list", "rewrap"} /\ torn # NoKeys => retried
    /\ req[x].pc = "rewrap" => Rows \ req[x].listed \subseteq late
    /\ req[x].pc = "rename" => torn = req[x].new /\ \A t \in Rows \ late : cred[t] = torn

\* The salt of a torn rewrap is not lost before another rotation is tried.
TornHeld == torn # NoKeys /\ ~retried => torn[2] \in {saltFile, newFile} \cup logged

\* A START that a rotation has not seen had been accepted before it.
RunHeld == rotLock # None /\ run \in {"scheduled", "active"} => raced

Histories == OneKeyOpensAll /\ TornHeld /\ RunHeld

IInv ==
  /\ Types
  /\ NotServing
  /\ SaltHeld
  /\ LocksHeld
  /\ RotationHeld
  /\ Histories

-----------------------------------------------------------------------------
\* Keys are pairs, and none is NoKeys.
LEMMA KeysType ==
  /\ NoKeys \notin Keys
  /\ \A k \in Keys : k[1] \in Passes /\ k[2] \in 1 .. MaxSalts /\ k = <<k[1], k[2]>>
BY DEF Keys, NoKeys

\* Every passphrase makes keys with every salt.
LEMMA KeysMade ==
  ASSUME NEW p \in Passes, NEW s \in 1 .. MaxSalts
  PROVE  <<p, s>> \in Keys /\ <<p, s>>[2] = s
BY DEF Keys

\* Once the salt is read, the process has the one on disk, which is a salt.
LEMMA SaltRange ==
  ASSUME IInv, phase # "down"
  PROVE  km.salt = saltFile /\ saltFile \in 1 .. MaxSalts
PROOF
  <1>1. km.salt = saltFile /\ saltFile # NoSalt
    BY DEF IInv, SaltHeld
  <1>2. minted \in 0 .. MaxSalts /\ saltFile \in 0 .. minted
    BY DEF IInv, Types, FileTypes
  <1> QED BY <1>1, <1>2, KeyVaultAssumption DEF NoSalt

\* SaltHeld when the salts stay and the keys are those of the salt.
LEMMA SaltStays ==
  ASSUME IInv, phase # "down", phase' # "down", UNCHANGED <<saltFile, cred>>,
         \/ km' = km
         \/ km' = [km EXCEPT !.state = "locked"]
         \/ \E k \in Keys : k[2] = saltFile /\ km' = [km EXCEPT !.state = "ready", !.keys = k],
         km'.state = "unlocking" <=> deriving' # None
  PROVE  SaltHeld'
PROOF
  <1>1. km.salt = saltFile /\ saltFile # NoSalt
    BY DEF IInv, SaltHeld
  <1>2. km \in [state : {"locked", "unlocking", "ready"}, salt : 0 .. MaxSalts, keys : AnyKeys]
    BY DEF IInv, Types, KeyTypes
  <1>3. km'.salt = saltFile /\ (km'.state = "ready" => km'.keys # NoKeys /\ km'.keys[2] = saltFile)
    BY <1>1, <1>2, KeysType DEF IInv, SaltHeld
  <1> QED BY <1>1, <1>3 DEF SaltHeld, NoSalt

\* The initial states satisfy the invariant.
LEMMA InitInv ==
  ASSUME Init
  PROVE  IInv
PROOF
  <1> USE KeyVaultAssumption, NoneAssumption
      DEF Init, Idle, Locked, Requests, NoSalt, Rows
  <1>1. Types
    <2>1. FileTypes
      <3>1. phase \in Phases /\ schema \in {"none", "begun", "done"} /\ seeded \in BOOLEAN
        BY DEF Phases
      <3>2. /\ minted \in 0 .. MaxSalts /\ saltFile \in 0 .. minted /\ newFile \in 0 .. minted
            /\ logged \subseteq 1 .. minted
        OBVIOUS
      <3> QED BY <3>1, <3>2 DEF FileTypes
    <2>2. req \in [Requests -> [pc : ReqPc, keys : AnyKeys, new : AnyKeys, listed : SUBSET Targets]]
      BY DEF ReqPc, Rotating, AnyKeys
    <2>3. km \in [state : {"locked", "unlocking", "ready"}, salt : 0 .. MaxSalts, keys : AnyKeys]
      BY DEF AnyKeys
    <2>4. KeyTypes
      BY <2>2, <2>3 DEF KeyTypes, AnyKeys
    <2> QED BY <2>1, <2>4 DEF Types
  <1>2. NotServing /\ SaltHeld
    BY DEF NotServing, SaltHeld
  <1>3. LocksHeld /\ RotationHeld
    BY DEF LocksHeld, RotationHeld, Rotating
  <1>4. Histories
    BY DEF Histories, OneKeyOpensAll, TornHeld, RunHeld
  <1> QED BY <1>1, <1>2, <1>3, <1>4 DEF IInv

\* Every step keeps the invariant.
LEMMA NextInv ==
  ASSUME IInv, [Next]_vars
  PROVE  IInv'
PROOF
  <1> USE KeyVaultAssumption, NoneAssumption, KeysType
      DEF IInv, Types, FileTypes, KeyTypes, NotServing, SaltHeld, LocksHeld, RotationHeld,
          Histories, OneKeyOpensAll, TornHeld, RunHeld, Rows, Idle, Locked, Requests, Phases, ReqPc, Rotating, AnyKeys,
          NoSalt, disk, boot, keyring, ghosts
  (* The boot and its end. *)
  <1>1. CASE BootSalt
    <2>1. /\ saltFile' \in 1 .. minted' /\ minted' \in minted .. MaxSalts
          /\ km' = [state |-> "locked", salt |-> saltFile', keys |-> NoKeys]
      BY <1>1 DEF BootSalt
    <2>2. Types'
      BY <1>1, <2>1 DEF BootSalt
    <2>3. NotServing'
      BY <1>1, <2>1 DEF BootSalt
    <2>4. SaltHeld'
      BY <1>1, <2>1 DEF BootSalt
    <2>5. LocksHeld' /\ RotationHeld'
      BY <1>1, <2>1 DEF BootSalt
    <2>6. Histories'
      BY <1>1, <2>1 DEF BootSalt
    <2> QED BY <2>2, <2>3, <2>4, <2>5, <2>6
  <1>2. CASE BootSchema
    <2>1. Types' /\ NotServing' /\ SaltHeld'
      BY <1>2 DEF BootSchema
    <2>2. LocksHeld' /\ RotationHeld' /\ Histories'
      BY <1>2 DEF BootSchema
    <2> QED BY <2>1, <2>2
  <1>3. CASE BootVersion
    BY <1>3 DEF BootVersion
  <1>4. CASE BootSeed
    BY <1>4 DEF BootSeed
  <1>5. CASE BootFails
    <2>1. Types'
      BY <1>5 DEF BootFails
    <2>2. NotServing'
      BY <1>5 DEF BootFails
    <2>3. SaltHeld'
      BY <1>5 DEF BootFails
    <2>4. LocksHeld' /\ RotationHeld'
      BY <1>5 DEF BootFails
    <2>5. Histories'
      BY <1>5 DEF BootFails
    <2> QED BY <2>1, <2>2, <2>3, <2>4, <2>5
  <1>6. CASE BootServe
    <2>0. km.salt = saltFile /\ saltFile \in 1 .. MaxSalts
      <3> HIDE DEF IInv
      <3> QED BY <1>6, SaltRange DEF BootServe
    <2>1. ASSUME NEW p \in Passes PROVE <<p, km.salt>> \in Keys /\ <<p, km.salt>>[2] = saltFile
      BY <2>0, KeysMade
    <2>2. \/ km' = km
          \/ \E k \in Keys : k[2] = saltFile /\ km' = [km EXCEPT !.state = "ready", !.keys = k]
      BY <1>6, <2>1 DEF BootServe
    <2>3. Types'
      BY <1>6, <2>2, ZenonT(40) DEF BootServe
    <2>4. SaltHeld'
      <3>1. /\ UNCHANGED <<saltFile, cred, deriving>> /\ phase' # "down" /\ phase # "down"
            /\ deriving = None /\ km'.state # "unlocking"
        BY <1>6, <2>2 DEF BootServe
      <3> HIDE DEF IInv, SaltHeld
      <3> QED BY <2>2, <3>1, SaltStays
    <2>5. NotServing' /\ LocksHeld' /\ RotationHeld' /\ Histories'
      BY <1>6 DEF BootServe
    <2> QED BY <2>3, <2>4, <2>5
  <1>7. CASE Crash
    BY <1>7 DEF Crash
  (* unlock. *)
  <1>8. CASE UnlockDone
    <2>1. phase = "serving" /\ deriving \in Passes /\ km.state = "unlocking"
      BY <1>8 DEF UnlockDone
    <2>2. <<deriving, km.salt>> \in Keys /\ <<deriving, km.salt>>[2] = saltFile
      BY <2>1, KeysMade
    <2>3. \/ km' = [km EXCEPT !.state = "locked"]
          \/ \E k \in Keys : k[2] = saltFile /\ km' = [km EXCEPT !.state = "ready", !.keys = k]
      BY <1>8, <2>2 DEF UnlockDone
    <2>4. Types'
      BY <1>8, <2>3, ZenonT(40) DEF UnlockDone
    <2>5. SaltHeld'
      <3>1. /\ UNCHANGED <<saltFile, cred, phase>> /\ phase # "down"
            /\ deriving' = None /\ km'.state # "unlocking"
        BY <1>8, <2>1, <2>3 DEF UnlockDone
      <3> HIDE DEF IInv, SaltHeld
      <3> QED BY <2>3, <3>1, SaltStays
    <2>6. NotServing' /\ LocksHeld' /\ RotationHeld' /\ Histories'
      BY <1>8, <2>1 DEF UnlockDone
    <2> QED BY <2>4, <2>5, <2>6
  <1>9. ASSUME NEW p \in Passes, UnlockCall(p) PROVE IInv'
    BY <1>9 DEF UnlockCall
  <1>10. ASSUME NEW p \in Passes, UnlockEnter(p) PROVE IInv'
    BY <1>10 DEF UnlockEnter
  (* Requests begin, write and end. *)
  <1>11. CASE Login
    BY <1>11 DEF Login, Unlocked
  <1>12. ASSUME NEW x \in Requests, Begin(x) PROVE IInv'
    <2>1. Types' /\ NotServing' /\ SaltHeld'
      BY <1>12 DEF Begin, Unlocked
    <2>2. LocksHeld' /\ RotationHeld'
      BY <1>12 DEF Begin, Unlocked
    <2>3. Histories'
      BY <1>12 DEF Begin
    <2> QED BY <2>1, <2>2, <2>3
  <1>13. ASSUME NEW x \in Requests, Touch(x) PROVE IInv'
    BY <1>13 DEF Touch
  <1>14. ASSUME NEW x \in Requests, Busy(x) PROVE IInv'
    BY <1>14 DEF Busy
  <1>15. ASSUME NEW x \in Requests, NEW t \in Targets, SetWrite(x, t) PROVE IInv'
    BY <1>15 DEF SetWrite, Unlist
  <1>16. ASSUME NEW t \in Targets, ClearCredential(t) PROVE IInv'
    BY <1>16 DEF ClearCredential, Unlist
  (* The rotation. *)
  <1>17. ASSUME NEW x \in Requests, RotEnter(x) PROVE IInv'
    <2>1. Types' /\ NotServing' /\ SaltHeld'
      BY <1>17 DEF RotEnter
    <2>2. LocksHeld' /\ RotationHeld'
      BY <1>17 DEF RotEnter
    <2>3. Histories'
      BY <1>17 DEF RotEnter
    <2> QED BY <2>1, <2>2, <2>3
  <1>18. ASSUME NEW x \in Requests, Refuse(x) PROVE IInv'
    BY <1>18 DEF Refuse, Leave, Free
  <1>19. ASSUME NEW x \in Requests, RotReject(x) PROVE IInv'
    BY <1>19 DEF RotReject, Leave, Free
  <1>20. ASSUME NEW x \in Requests, RotVerify(x) PROVE IInv'
    <2>1. /\ req[x].pc = "verify" /\ minted' = minted + 1 /\ minted' \in 1 .. MaxSalts
          /\ newFile' = minted' /\ newFile' # saltFile
      BY <1>20 DEF RotVerify
    <2>2. PICK p \in Passes : req' = [req EXCEPT ![x].pc = "list", ![x].new = <<p, minted'>>]
      BY <1>20 DEF RotVerify
    <2>3. PICK k \in Keys :
            k[2] = newFile' /\ req' = [req EXCEPT ![x].pc = "list", ![x].new = k]
      BY <2>1, <2>2, KeysMade
    <2>4. Types'
      <3>1. req' \in [Requests -> [pc : ReqPc, keys : AnyKeys, new : AnyKeys, listed : SUBSET Targets]]
        BY <2>3
      <3>2. FileTypes'
        BY <1>20, <2>1 DEF RotVerify
      <3> QED BY <1>20, <2>1, <3>1, <3>2 DEF RotVerify
    <2>5. NotServing' /\ SaltHeld'
      BY <1>20, <2>1, <2>3 DEF RotVerify
    <2>6. LocksHeld'
      BY <1>20, <2>1, <2>3 DEF RotVerify, Free
    <2>7. RotationHeld'
      <3>1. \A y \in Requests \ {x} : req'[y] = req[y] /\ req[y].pc \notin Rotating
        BY <2>1, <2>3
      <3>2. req'[x].pc = "list" /\ req'[x].new = k /\ k # NoKeys
        BY <2>3
      <3> QED BY <1>20, <2>1, <2>3, <3>1, <3>2 DEF RotVerify
    <2>8. Histories'
      BY <1>20, <2>1 DEF RotVerify
    <2> QED BY <2>4, <2>5, <2>6, <2>7, <2>8
  <1>21. ASSUME NEW x \in Requests, RotList(x) PROVE IInv'
    BY <1>21 DEF RotList, RotAbort, Leave, Free
  <1>22. ASSUME NEW x \in Requests, RotRewrap(x) PROVE IInv'
    BY <1>22 DEF RotRewrap
  <1>23. ASSUME NEW x \in Requests, RotRewrapFails(x) PROVE IInv'
    BY <1>23 DEF RotRewrapFails, RotAbort, Leave, Free
  <1>24. ASSUME NEW x \in Requests, RotRename(x) PROVE IInv'
    <2>1. /\ req[x].pc = "rename" /\ rotLock = x /\ km.state = "ready" /\ phase = "serving"
          /\ req[x].new \in Keys /\ req[x].new[2] = newFile /\ newFile \in 1 .. MaxSalts
          /\ torn = req[x].new
      BY <1>24 DEF RotRename
    <2>2. km' = [km EXCEPT !.salt = newFile, !.keys = req[x].new] /\ pass' \in Passes
      BY <1>24, <2>1 DEF RotRename
    <2>3. Types'
      <3>1. req' \in [Requests -> [pc : ReqPc, keys : AnyKeys, new : AnyKeys, listed : SUBSET Targets]]
        BY <1>24 DEF RotRename, Leave
      <3>2. km' \in [state : {"locked", "unlocking", "ready"}, salt : 0 .. MaxSalts, keys : AnyKeys]
        <4>1. km \in [state : {"locked", "unlocking", "ready"}, salt : 0 .. MaxSalts, keys : AnyKeys]
          OBVIOUS
        <4>2. newFile \in 0 .. MaxSalts /\ req[x].new \in AnyKeys
          BY <2>1
        <4> HIDE DEF IInv, AnyKeys
        <4> QED BY <2>2, <4>1, <4>2
      <3>3. FileTypes'
        BY <1>24, <2>1 DEF RotRename
      <3> QED BY <1>24, <2>2, <3>1, <3>2, <3>3 DEF RotRename
    <2>4. NotServing' /\ SaltHeld'
      BY <1>24, <2>1, <2>2 DEF RotRename
    <2>5. LocksHeld' /\ RotationHeld'
      BY <1>24, <2>1, <2>2 DEF RotRename, Leave, Free
    <2>6. Histories'
      BY <1>24, <2>1 DEF RotRename
    <2> QED BY <2>3, <2>4, <2>5, <2>6
  <1>25. ASSUME NEW x \in Requests, RotOrphaned(x) PROVE IInv'
    BY <1>25 DEF RotOrphaned, RotAbort, Leave, Free
  (* START and STOP. *)
  <1>26. CASE StartApi
    BY <1>26 DEF StartApi, Unlocked
  <1>27. CASE StartRun \/ StopRun
    BY <1>27 DEF StartRun, StopRun
  <1>28. CASE UNCHANGED vars
    <2>1. Types'
      BY <1>28 DEF vars
    <2>2. NotServing' /\ SaltHeld'
      BY <1>28 DEF vars
    <2>3. LocksHeld' /\ RotationHeld' /\ Histories'
      BY <1>28 DEF vars
    <2> QED BY <2>1, <2>2, <2>3
  <1> HIDE DEF IInv, Types, NotServing, SaltHeld, LocksHeld, RotationHeld, Histories
  <1>29. ASSUME NEW x \in Requests, Rotate(x) PROVE IInv'
    BY <1>29, <1>17, <1>18, <1>19, <1>20, <1>21, <1>22, <1>23, <1>24, <1>25 DEF Rotate
  <1> QED
    BY <1>1, <1>2, <1>3, <1>4, <1>5, <1>6, <1>7, <1>8, <1>9, <1>10, <1>11, <1>12, <1>13, <1>14,
       <1>15, <1>16, <1>18, <1>26, <1>27, <1>28, <1>29
       DEF Next, Boot, Unlock, Request

\* The inductive invariant is one.
THEOREM Inductive == Spec => []IInv
BY InitInv, NextInv, PTL DEF Spec

-----------------------------------------------------------------------------
\* Every variable keeps its type, and the locks are held by requests under way.
THEOREM TypeCorrect == Spec => []TypeOK
PROOF
  <1>1. ASSUME IInv PROVE TypeOK
    <2>1. /\ phase \in {"down", "schema", "script", "seed", "recover", "serving"}
          /\ schema \in {"none", "begun", "done"} /\ seeded \in BOOLEAN
          /\ {saltFile, newFile} \subseteq 0 .. minted
          /\ logged \subseteq 1 .. minted /\ minted \in 0 .. MaxSalts
      BY <1>1 DEF IInv, Types, FileTypes, Phases
    <2>2. /\ km.state \in {"locked", "unlocking", "ready"} /\ km.keys \in Keys \cup {NoKeys}
          /\ asked \subseteq Passes /\ deriving \in Passes \cup {None}
          /\ cred \in [Targets -> Keys \cup {NoKeys}]
          /\ {session, torn} \subseteq Keys \cup {NoKeys}
          /\ run \in {"offline", "scheduled", "active"}
          /\ pass \in Passes /\ late \subseteq Targets
      BY <1>1 DEF IInv, Types, KeyTypes, AnyKeys
    <2>3. km.salt \in 0 .. minted
      BY <1>1, <2>1, KeyVaultAssumption DEF IInv, SaltHeld, NoSalt
    <2>4. \A x \in Requests : req[x].keys \in Keys \cup {NoKeys} /\ req[x].listed \subseteq Targets
      BY <1>1 DEF IInv, Types, KeyTypes, AnyKeys
    <2>5. /\ writer # None => writer \in Requests /\ req[writer].pc \in {"body", "verify"}
          /\ rotLock # None =>
               rotLock \in Rotators /\ req[rotLock].pc \in {"verify", "list", "rewrap", "rename"}
      BY <1>1 DEF IInv, LocksHeld, Requests, Rotating
    <2>6. (km.state = "unlocking") = (deriving # None)
      BY <1>1 DEF IInv, SaltHeld
    <2> QED BY <2>1, <2>2, <2>3, <2>4, <2>5, <2>6 DEF TypeOK
  <1> QED BY <1>1, Inductive, PTL

\* Memory and .kdf_salt never part.
THEOREM KeysAreThoseOnDisk == Spec => []KeysMatchDisk
PROOF
  <1>1. IInv => KeysMatchDisk
    BY DEF IInv, SaltHeld, KeysMatchDisk
  <1> QED BY <1>1, Inductive, PTL

\* The passphrase and the salt on disk open every credential that was not written
\* late, unless a rotation was cut between its commit and its rename.
THEOREM PassphraseOpensAll == Spec => []OneKeyOpensAll
PROOF
  <1>1. IInv => OneKeyOpensAll
    BY DEF IInv, Histories
  <1> QED BY <1>1, Inductive, PTL

\* The salt of a torn rotation is on disk or in the log.
THEOREM TornSaltKept == Spec => []TornIsRecoverable
PROOF
  <1>1. IInv => TornIsRecoverable
    BY DEF IInv, Histories, TornHeld, TornIsRecoverable
  <1> QED BY <1>1, Inductive, PTL

\* The window of run.py is the only way for a run and a rotation to overlap.
THEOREM OnlyTheWindow == Spec => []OverlapOnlyByWindow
PROOF
  <1>1. IInv => OverlapOnlyByWindow
    BY DEF IInv, Histories, RunHeld, OverlapOnlyByWindow
  <1> QED BY <1>1, Inductive, PTL

\* A ready process stays ready, and its keys change with the salt only.
THEOREM ReadyStays == Spec => ReadyForGood
PROOF
  <1> DEFINE Stays == km.state = "ready" =>
               \/ phase' = "down"
               \/ km'.state = "ready" /\ (km'.keys = km.keys \/ saltFile' # saltFile)
  <1>1. ASSUME IInv, [Next]_vars PROVE Stays
    <2> USE <1>1
    <2> SUFFICES ASSUME km.state = "ready"
                 PROVE  \/ phase' = "down"
                        \/ km'.state = "ready" /\ (km'.keys = km.keys \/ saltFile' # saltFile)
      OBVIOUS
    <2>1. phase = "serving" /\ deriving = None
      BY DEF IInv, NotServing, SaltHeld
    <2>2. CASE UNCHANGED km
      BY <2>2
    <2>3. ASSUME NEW x \in Requests, RotRename(x) PROVE km'.state = "ready" /\ saltFile' # saltFile
      BY <2>3 DEF RotRename, IInv, Types, RotationHeld
    <2>4. CASE Boot
      BY <2>1, <2>4 DEF Boot, BootSalt, BootSchema, BootVersion, BootSeed, BootServe, BootFails
    <2>5. CASE Crash
      BY <2>5 DEF Crash
    <2>6. CASE Unlock
      BY <2>1, <2>6 DEF Unlock, UnlockDone, UnlockEnter
    <2>7. ASSUME NEW x \in Requests, Rotate(x) PROVE RotRename(x) \/ UNCHANGED km
      BY <2>7
         DEF Rotate, RotEnter, RotVerify, RotReject, RotList, RotRewrap,
             RotRewrapFails, RotOrphaned, RotAbort, keyring
    <2>8. CASE \/ \E p \in Passes : UnlockCall(p)
               \/ Login \/ StartApi \/ StartRun \/ StopRun
               \/ \E t \in Targets : ClearCredential(t)
               \/ \E x \in Requests : Begin(x) \/ Touch(x) \/ Busy(x) \/ Refuse(x) \/ \E t \in Targets : SetWrite(x, t)
               \/ UNCHANGED vars
      BY <2>8
         DEF UnlockCall, Login, StartApi, StartRun, StopRun, ClearCredential, Begin, Touch, Busy,
             Refuse, SetWrite, vars, keyring
    <2> QED BY <2>2, <2>3, <2>4, <2>5, <2>6, <2>7, <2>8 DEF Next, Request
  <1>2. IInv /\ [Next]_vars => [Stays]_vars
    BY <1>1
  <1> QED BY <1>2, Inductive, PTL DEF Spec, ReadyForGood
=============================================================================
