-------------------------- MODULE SupervisorProofs --------------------------
(***************************************************************************)
(* Proofs about Supervisor, for any targets, keys, requests and faults.    *)
(* The lock first: what each step does to the queue is one of four moves,  *)
(* each of which keeps LockDiscipline.  With it a task under the lock is   *)
(* alone there, and the rest of IInv can be kept: where start_run and      *)
(* stop_run are parked, the run is in the state they put it in (RunHeld),  *)
(* a transient state has a task that will leave it (TransientsOwned), a    *)
(* session belongs to a run or to the task that gives it up (SessionHeld), *)
(* and the index and the registry speak of running workers (WorkersInv).   *)
(***************************************************************************)
EXTENDS Supervisor, SequenceTheorems, TLAPS

\* The awaits of a task that is in the lock's queue, and all awaits.
Inside == Locked \cup Waiting

Pcs == {"idle"} \cup Locked \cup Waiting \cup Unlocked

-----------------------------------------------------------------------------
(* The lock's queue.                                                       *)

InQueue(q, x) == \E i \in DOMAIN q : q[i] = x

Distinct(q) == \A i, j \in DOMAIN q : q[i] = q[j] => i = j

\* Whoever asks for the lock comes last, and first when nobody is there.
LEMMA QueueAppend ==
  ASSUME NEW S, NEW q \in Seq(S), NEW x \in S
  PROVE  /\ Append(q, x) \in Seq(S)
         /\ Append(q, x) # << >>
         /\ Head(Append(q, x)) = IF q = << >> THEN x ELSE Head(q)
         /\ \A y : InQueue(Append(q, x), y) <=> InQueue(q, y) \/ y = x
         /\ Distinct(q) /\ ~InQueue(q, x) => Distinct(Append(q, x))
PROOF
  <1> DEFINE r == Append(q, x)
  <1>1. /\ r \in Seq(S)
        /\ r # << >>
        /\ Len(r) = Len(q) + 1
        /\ \A i \in 1 .. Len(q) : r[i] = q[i]
        /\ r[Len(q) + 1] = x
    BY AppendProperties
  <1>2. /\ DOMAIN q = 1 .. Len(q) 
        /\ DOMAIN r = 1 .. Len(r)
        /\ Len(q) \in Nat
    BY <1>1, LenProperties
  <1>3. Head(r) = IF q = << >> THEN x ELSE Head(q)
    BY HeadTailAppend
  <1>4. ASSUME NEW y
        PROVE  InQueue(r, y) <=> InQueue(q, y) \/ y = x
    <2>1. ASSUME InQueue(r, y) PROVE InQueue(q, y) \/ y = x
      BY <2>1, <1>1, <1>2 DEF InQueue
    <2>2. ASSUME InQueue(q, y) PROVE InQueue(r, y)
      BY <2>2, <1>1, <1>2 DEF InQueue
    <2>3. InQueue(r, x)
      BY <1>1, <1>2 DEF InQueue
    <2> QED BY <2>1, <2>2, <2>3
  <1>5. ASSUME Distinct(q), ~InQueue(q, x)
        PROVE  Distinct(r)
    BY <1>5, <1>1, <1>2 DEF Distinct, InQueue
  <1> QED BY <1>1, <1>3, <1>4, <1>5

\* Whoever releases the lock leaves the queue, and nobody else does.
LEMMA QueueTail ==
  ASSUME NEW S, NEW q \in Seq(S), q # << >>, Distinct(q)
  PROVE  /\ Tail(q) \in Seq(S)
         /\ InQueue(q, Head(q))
         /\ \A y : InQueue(Tail(q), y) <=> InQueue(q, y) /\ y # Head(q)
         /\ Distinct(Tail(q))
PROOF
  <1> DEFINE r == Tail(q)
  <1>1. /\ r \in Seq(S)
        /\ Len(r) = Len(q) - 1
        /\ \A i \in 1 .. Len(r) : r[i] = q[i + 1]
    BY HeadTailProperties
  <1>2. /\ DOMAIN q = 1 .. Len(q)
        /\ DOMAIN r = 1 .. Len(r)
        /\ Len(q) \in Nat \ {0}
        /\ Head(q) = q[1]
    BY <1>1, LenProperties, EmptySeq
  <1>3. InQueue(q, Head(q))
    BY <1>2 DEF InQueue
  <1>4. ASSUME NEW y
        PROVE  InQueue(r, y) <=> InQueue(q, y) /\ y # Head(q)
    <2>1. ASSUME InQueue(r, y) PROVE InQueue(q, y) /\ y # Head(q)
      <3>1. PICK i \in 1 .. Len(r) : r[i] = y
        BY <2>1, <1>2 DEF InQueue
      <3>2. i + 1 \in DOMAIN q /\ i + 1 # 1 /\ 1 \in DOMAIN q /\ q[i + 1] = y
        BY <3>1, <1>1, <1>2
      <3> QED BY <3>2, <1>2 DEF InQueue, Distinct
    <2>2. ASSUME InQueue(q, y), y # Head(q) PROVE InQueue(r, y)
      <3>1. PICK i \in 1 .. Len(q) : q[i] = y
        BY <2>2, <1>2 DEF InQueue
      <3>2. i - 1 \in DOMAIN r /\ r[i - 1] = q[(i - 1) + 1] /\ (i - 1) + 1 = i
        BY <3>1, <2>2, <1>1, <1>2
      <3> QED BY <3>1, <3>2 DEF InQueue
    <2> QED BY <2>1, <2>2
  <1>5. Distinct(r)
    <2> SUFFICES ASSUME NEW i \in DOMAIN r, NEW j \in DOMAIN r, r[i] = r[j]
                 PROVE  i = j
      BY DEF Distinct
    <2>1. /\ i + 1 \in DOMAIN q
          /\ j + 1 \in DOMAIN q
          /\ q[i + 1] = q[j + 1]
          /\ i \in Nat /\ j \in Nat
      BY <1>1, <1>2
    <2>2. i + 1 = j + 1
      BY <2>1 DEF Distinct
    <2> QED BY <2>1, <2>2
  <1> QED BY <1>1, <1>3, <1>4, <1>5

-----------------------------------------------------------------------------
(* The moves of a task with respect to the lock; to is where it goes.      *)

Stays(k, to) ==
  /\ queue' = queue
  /\ to \in Inside <=> pc[k] \in Inside
  /\ to \in Locked => pc[k] \in Locked \/ Holds(k)

Joins(k, to) ==
  /\ pc[k] \notin Inside
  /\ queue' = Append(queue, k)
  /\ to \in IF queue = << >> THEN Inside ELSE Waiting

Leaves(k, to) ==
  /\ pc[k] \in Locked \/ Holds(k)
  /\ queue' = Tail(queue)
  /\ to \notin Inside

\* disable_target returns and enable_target follows.
Rejoins(k, to) ==
  /\ pc[k] \in Locked \/ Holds(k)
  /\ queue' = Append(Tail(queue), k)
  /\ to \in IF Tail(queue) = << >> THEN Inside ELSE Waiting

LockMove(k, to) == Stays(k, to) \/ Joins(k, to) \/ Leaves(k, to) \/ Rejoins(k, to)

LockType ==
  /\ queue \in Seq(Tasks)
  /\ pc \in [Tasks -> Pcs]

\* LockDiscipline, with the operators of the lemmas.
LEMMA LockForm ==
  LockDiscipline <=>
    /\ \A k \in Tasks : pc[k] \in Locked => Holds(k)
    /\ \A k \in Tasks : pc[k] \in Inside <=> InQueue(queue, k)
    /\ Distinct(queue)
BY DEF LockDiscipline, Inside, InQueue, Distinct

\* An await is in or out of the lock's queue, not both.
LEMMA Awaits ==
  /\ Locked \cap Waiting = {}
  /\ Unlocked \cap Inside = {}
  /\ "idle" \notin Inside
  /\ "idle" \notin Unlocked
  /\ Pcs = {"idle"} \cup Inside \cup Unlocked
BY DEF Locked, Waiting, Unlocked, Inside, Pcs

\* Every move keeps the discipline.
LEMMA MoveKeepsLock ==
  ASSUME LockType, LockDiscipline, NEW k \in Tasks, NEW to \in Pcs,
         pc' = [pc EXCEPT ![k] = to], LockMove(k, to)
  PROVE  LockType' /\ LockDiscipline'
PROOF
  <1>1. /\ \A j \in Tasks : pc[j] \in Locked => Holds(j)
        /\ \A j \in Tasks : pc[j] \in Inside <=> InQueue(queue, j)
        /\ Distinct(queue)
    BY LockForm
  <1>2. pc' \in [Tasks -> Pcs] /\ pc'[k] = to /\ \A j \in Tasks \ {k} : pc'[j] = pc[j]
    BY DEF LockType
  <1>3. Locked \subseteq Inside /\ Waiting \subseteq Inside /\ Locked \cap Waiting = {}
    BY Awaits DEF Inside
  <1>4. queue \in Seq(Tasks)
    BY DEF LockType
  <1> SUFFICES /\ queue' \in Seq(Tasks)
               /\ \A j \in Tasks : pc'[j] \in Locked => queue' # << >> /\ Head(queue') = j
               /\ \A j \in Tasks : pc'[j] \in Inside <=> InQueue(queue', j)
               /\ Distinct(queue')
    BY <1>2 DEF LockType, LockDiscipline, Holds, Inside, InQueue, Distinct
  <1>5. CASE Stays(k, to)
    BY <1>1, <1>2, <1>3, <1>4, <1>5 DEF Stays, Holds
  <1>6. CASE Joins(k, to)
    <2>1. ~InQueue(queue, k)
      BY <1>1, <1>6 DEF Joins
    <2>2. /\ queue' \in Seq(Tasks)
          /\ queue' # << >>
          /\ Head(queue') = IF queue = << >> THEN k ELSE Head(queue)
          /\ \A y : InQueue(queue', y) <=> InQueue(queue, y) \/ y = k
          /\ Distinct(queue')
      BY <1>1, <1>4, <1>6, <2>1, QueueAppend DEF Joins
    <2>3. \A j \in Tasks : pc'[j] \in Inside <=> InQueue(queue', j)
      BY <1>1, <1>2, <1>3, <1>6, <2>2 DEF Joins
    <2>4. \A j \in Tasks : pc'[j] \in Locked => Head(queue') = j
      BY <1>1, <1>2, <1>3, <1>6, <2>2 DEF Joins, Holds
    <2> QED BY <2>2, <2>3, <2>4
  <1>7. ASSUME pc[k] \in Locked \/ Holds(k)
        PROVE  /\ queue # << >>
               /\ Head(queue) = k
               /\ Tail(queue) \in Seq(Tasks)
               /\ \A y : InQueue(Tail(queue), y) <=> InQueue(queue, y) /\ y # k
               /\ Distinct(Tail(queue))
               /\ \A j \in Tasks \ {k} : pc'[j] \notin Locked
    <2>1. queue # << >> /\ Head(queue) = k
      BY <1>1, <1>7 DEF Holds
    <2> QED BY <1>1, <1>2, <1>4, <2>1, QueueTail DEF Holds
  <1>8. CASE Leaves(k, to)
    BY <1>1, <1>2, <1>3, <1>7, <1>8 DEF Leaves
  <1>9. CASE Rejoins(k, to)
    <2>1. ~InQueue(Tail(queue), k)
      BY <1>7, <1>9 DEF Rejoins
    <2>2. /\ queue' \in Seq(Tasks)
          /\ queue' # << >>
          /\ Head(queue') = IF Tail(queue) = << >> THEN k ELSE Head(Tail(queue))
          /\ \A y : InQueue(queue', y) <=> InQueue(Tail(queue), y) \/ y = k
          /\ Distinct(queue')
      BY <1>7, <1>9, <2>1, QueueAppend, ZenonT(40) DEF Rejoins
    <2>3. \A j \in Tasks : pc'[j] \in Inside <=> InQueue(queue', j)
      BY <1>1, <1>2, <1>3, <1>7, <1>9, <2>2 DEF Rejoins
    <2>4. \A j \in Tasks : pc'[j] \in Locked => Head(queue') = j
      BY <1>1, <1>2, <1>3, <1>7, <1>9, <2>2 DEF Rejoins
    <2> QED BY <2>2, <2>3, <2>4
  <1> QED BY <1>5, <1>6, <1>8, <1>9 DEF LockMove

-----------------------------------------------------------------------------
(* Every action of a task is such a move.                                  *)

Moves(k) ==
  /\ pc' = [pc EXCEPT ![k] = pc'[k]]
  /\ pc'[k] \in Pcs
  /\ LockMove(k, pc'[k])

\* A step of k to the await `to` is a move, if the queue follows.
LEMMA MoveTo ==
  ASSUME LockType, NEW k \in Tasks, NEW to \in Pcs,
         pc' = [pc EXCEPT ![k] = to], LockMove(k, to)
  PROVE  Moves(k)
BY DEF LockType, Moves

\* enable_target, by a task that gives up the lock first.
LEMMA EnableLeaves ==
  ASSUME LockType, NEW k \in Tasks, pc[k] \in Locked \/ Holds(k),
         EnableTarget(k, Tail(queue))
  PROVE  Moves(k)
PROOF
  <1>1. CASE runState \notin Active
    <2>1. pc' = [pc EXCEPT ![k] = "idle"] /\ Leaves(k, "idle")
      BY <1>1, Awaits DEF EnableTarget, Goto, Park, Leaves
    <2> QED BY <2>1, MoveTo DEF Pcs, LockMove
  <1>2. CASE runState \in Active
    <2> DEFINE to == IF Tail(queue) = << >> THEN "enable_load" ELSE "enable_wait"
    <2>1. pc' = [pc EXCEPT ![k] = to] /\ queue' = Append(Tail(queue), k)
      BY <1>2 DEF EnableTarget, Goto, Park
    <2>2. to \in Pcs /\ to \in IF Tail(queue) = << >> THEN Inside ELSE Waiting
      BY DEF Pcs, Inside, Locked, Waiting
    <2>3. LockMove(k, to)
      BY <2>1, <2>2 DEF LockMove, Rejoins
    <2> QED BY <2>1, <2>2, <2>3, MoveTo
  <1> QED BY <1>1, <1>2

\* enable_target, by a task that has nothing to do with the lock.
LEMMA EnableJoins ==
  ASSUME LockType, NEW k \in Tasks, pc[k] \notin Inside, EnableTarget(k, queue)
  PROVE  Moves(k)
PROOF
  <1>1. CASE runState \notin Active
    <2>1. pc' = [pc EXCEPT ![k] = "idle"] /\ Stays(k, "idle")
      BY <1>1, Awaits DEF EnableTarget, Goto, Park, Stays, Inside
    <2> QED BY <2>1, MoveTo DEF Pcs, LockMove
  <1>2. CASE runState \in Active
    <2> DEFINE to == IF queue = << >> THEN "enable_load" ELSE "enable_wait"
    <2>1. pc' = [pc EXCEPT ![k] = to] /\ queue' = Append(queue, k)
      BY <1>2 DEF EnableTarget, Goto, Park
    <2>2. to \in Pcs /\ to \in IF queue = << >> THEN Inside ELSE Waiting
      BY DEF Pcs, Inside, Locked, Waiting
    <2>3. LockMove(k, to)
      BY <2>1, <2>2 DEF LockMove, Joins
    <2> QED BY <2>1, <2>2, <2>3, MoveTo
  <1> QED BY <1>1, <1>2

\* disable_target returns to a handler that holds the lock till then.
LEMMA AfterDisableMoves ==
  ASSUME LockType, NEW k \in Tasks, pc[k] \in Locked \/ Holds(k),
         AfterDisable(k, Tail(queue))
  PROVE  Moves(k)
PROOF
  <1>1. CASE loc[k].then = "enable"
    BY <1>1, EnableLeaves DEF AfterDisable
  <1>2. CASE loc[k].then # "enable"
    <2>1. PICK to \in {"delete_row", "idle"} :
             pc' = [pc EXCEPT ![k] = to] /\ queue' = Tail(queue)
      BY <1>2 DEF AfterDisable, Goto, Park
    <2>2. to \in Pcs /\ to \notin Inside
      BY DEF Pcs, Inside, Locked, Waiting, Unlocked
    <2>3. LockMove(k, to)
      BY <2>1, <2>2 DEF LockMove, Leaves
    <2> QED BY <2>1, <2>2, <2>3, MoveTo
  <1> QED BY <1>1, <1>2

\* disable_target, by a task that has nothing to do with the lock: at once when
\* it is free, which may end without the lock again.
LEMMA DisableMoves ==
  ASSUME LockType, NEW k \in Tasks, pc[k] \notin Inside, DisableTarget(k)
  PROVE  Moves(k)
PROOF
  <1>1. CASE queue # << >>
    <2>1. pc' = [pc EXCEPT ![k] = "disable_wait"] /\ Joins(k, "disable_wait")
      BY <1>1 DEF DisableTarget, Joined, Goto, Park, Joins, Waiting
    <2> QED BY <2>1, MoveTo DEF Pcs, Waiting, LockMove
  <1>2. CASE queue = << >>
    <2>1. Tail(Append(queue, k)) = queue
      BY <1>2, HeadTailAppend DEF LockType
    <2>2. CASE WorkersOf(loc[k].t) # {}
      <3>1. pc' = [pc EXCEPT ![k] = "disable_stop"] /\ Joins(k, "disable_stop")
        BY <1>2, <2>2 DEF DisableTarget, DisableLocked, Joined, Goto, Park, Joins, Inside, Locked
      <3> QED BY <3>1, MoveTo DEF Pcs, Locked, LockMove
    <2>3. CASE WorkersOf(loc[k].t) = {}
      <3>1. AfterDisable(k, queue)
        BY <1>2, <2>1, <2>3 DEF DisableTarget, DisableLocked, Joined
      <3>2. CASE loc[k].then = "enable"
        BY <3>1, <3>2, EnableJoins DEF AfterDisable
      <3>3. CASE loc[k].then # "enable"
        <4>1. PICK to \in {"delete_row", "idle"} :
                 pc' = [pc EXCEPT ![k] = to] /\ queue' = queue
          BY <3>1, <3>3 DEF AfterDisable, Goto, Park
        <4>2. to \in Pcs /\ to \notin Inside /\ to \notin Locked
          BY DEF Pcs, Inside, Locked, Waiting, Unlocked
        <4>3. LockMove(k, to)
          BY <4>1, <4>2 DEF LockMove, Stays
        <4> QED BY <4>1, <4>2, <4>3, MoveTo
      <3> QED BY <3>2, <3>3
    <2> QED BY <2>2, <2>3
  <1> QED BY <1>1, <1>2

\* A request that arrives is not at the lock yet.
LEMMA ArrivalParks ==
  ASSUME LockType, NEW k \in Tasks, Arrival(k)
  PROVE  /\ pc[k] = "idle"
         /\ queue' = queue
         /\ pc'[k] \in Unlocked
         /\ pc' = [pc EXCEPT ![k] = pc'[k]]
PROOF
  <1>1. /\ pc[k] = "idle"
        /\ queue' = queue
        /\ \E to \in Unlocked : pc' = [pc EXCEPT ![k] = to]
    <2>1. CASE ApiStart(k) \/ ApiStop(k)
      BY <2>1 DEF ApiStart, ApiStop, Goto, Park, Unlocked
    <2>2. ASSUME NEW op, NEW t, NEW l, NEW to \in Unlocked, Request(k, op, t, l, to)
          PROVE  pc[k] = "idle" /\ pc' = [pc EXCEPT ![k] = to]
      BY <2>2 DEF Request, Park
    <2>3. "audit" \in Unlocked /\ "delete_call" \in Unlocked
      BY DEF Unlocked
    <2>4. ASSUME NEW t \in Targets, NEW want, UpdateTarget(k, t, want)
          PROVE  pc[k] = "idle" /\ pc' = [pc EXCEPT ![k] = "audit"]
      BY <2>2, <2>3, <2>4 DEF UpdateTarget
    <2>5. ASSUME NEW t \in Targets, NEW new, \/ SetCredential(k, t, new) \/ ClearCredential(k, t)
                                             \/ CreateTarget(k, t, new)
          PROVE  pc[k] = "idle" /\ pc' = [pc EXCEPT ![k] = "audit"]
      BY <2>2, <2>3, <2>5 DEF SetCredential, ClearCredential, CreateTarget
    <2>6. ASSUME NEW t \in Targets, DeleteTarget(k, t)
          PROVE  pc[k] = "idle" /\ pc' = [pc EXCEPT ![k] = "delete_call"]
      BY <2>2, <2>3, <2>6 DEF DeleteTarget
    <2>7. queue' = queue
      BY DEF Arrival, ApiStart, ApiStop, UpdateTarget, SetCredential, ClearCredential,
             CreateTarget, DeleteTarget
    <2> QED BY <2>1, <2>3, <2>4, <2>5, <2>6, <2>7 DEF Arrival
  <1> QED BY <1>1 DEF LockType

LEMMA ArrivalMoves ==
  ASSUME LockType, NEW k \in Tasks, Arrival(k)
  PROVE  Moves(k)
PROOF
  <1>1. pc[k] = "idle" /\ queue' = queue
    BY ArrivalParks
  <1>2. PICK to \in Unlocked : pc' = [pc EXCEPT ![k] = to]
    BY ArrivalParks
  <1>3. to \in Pcs /\ LockMove(k, to)
    BY <1>1, Awaits DEF LockMove, Stays, Inside
  <1> QED BY <1>2, <1>3, MoveTo

LEMMA StartMoves ==
  ASSUME LockType, NEW k \in Tasks, StartRun(k)
  PROVE  Moves(k)
PROOF
  <1> USE DEF Pcs, Inside, Locked, Waiting, LockMove
  <1>1. CASE StartCall(k)
    <2>1. CASE queue # << >>
      <3>1. pc' = [pc EXCEPT ![k] = "start_wait"] /\ Joins(k, "start_wait")
        BY <1>1, <2>1 DEF StartCall, Joined, Goto, Park, Joins
      <3> QED BY <3>1, MoveTo
    <2>2. CASE queue = << >> /\ runState = "offline"
      <3>1. pc' = [pc EXCEPT ![k] = "start_open"] /\ Joins(k, "start_open")
        BY <1>1, <2>2 DEF StartCall, StartLocked, Joined, Goto, Park, Joins
      <3> QED BY <3>1, MoveTo
    <2>3. CASE queue = << >> /\ runState # "offline"
      <3>1. Tail(Append(queue, k)) = queue
        BY <2>3, HeadTailAppend DEF LockType
      <3>2. pc' = [pc EXCEPT ![k] = "idle"] /\ Stays(k, "idle")
        BY <1>1, <2>3, <3>1 DEF StartCall, StartLocked, Joined, Goto, Park, Stays
      <3> QED BY <3>2, MoveTo
    <2> QED BY <2>1, <2>2, <2>3
  <1>2. CASE StartWoken(k)
    <2>1. CASE runState = "offline"
      <3>1. pc' = [pc EXCEPT ![k] = "start_open"] /\ Stays(k, "start_open")
        BY <1>2, <2>1 DEF StartWoken, StartLocked, Goto, Park, Stays
      <3> QED BY <3>1, MoveTo
    <2>2. CASE runState # "offline"
      <3>1. pc' = [pc EXCEPT ![k] = "idle"] /\ Leaves(k, "idle")
        BY <1>2, <2>2 DEF StartWoken, StartLocked, Goto, Park, Leaves
      <3> QED BY <3>1, MoveTo
    <2> QED BY <2>1, <2>2
  <1>3. CASE StartOpened(k) \/ StartLoaded(k) \/ StartSpawned(k) \/ StartUndone(k)
    <2>1. PICK to \in {"start_load", "start_spawn", "start_audit", "start_undo", "start_close"} :
             pc' = [pc EXCEPT ![k] = to]
      BY <1>3 DEF StartOpened, StartLoaded, StartSpawned, StartUndone, Goto, Park
    <2>2. queue' = queue /\ pc[k] \in Locked
      BY <1>3 DEF StartOpened, StartLoaded, StartSpawned, StartUndone, Goto, Park
    <2>3. Stays(k, to)
      BY <2>2 DEF Stays
    <2> QED BY <2>1, <2>3, MoveTo
  <1>4. CASE StartAudited(k) \/ StartClosed(k)
    BY <1>4, MoveTo DEF StartAudited, StartClosed, Stays, Leaves, Goto, Park
  <1> QED BY <1>1, <1>2, <1>3, <1>4 DEF StartRun

LEMMA StopMoves ==
  ASSUME LockType, NEW k \in Tasks, StopRun(k)
  PROVE  Moves(k)
PROOF
  <1> USE DEF Pcs, Inside, Locked, Waiting, LockMove
  <1> DEFINE refused == runState \in {"offline", "stopping", "error"}
  <1>1. CASE StopCall(k)
    <2>1. CASE queue # << >>
      <3>1. pc' = [pc EXCEPT ![k] = "stop_wait"] /\ Joins(k, "stop_wait")
        BY <1>1, <2>1 DEF StopCall, Joined, Goto, Park, Joins
      <3> QED BY <3>1, MoveTo
    <2>2. CASE queue = << >> /\ ~refused
      <3>1. pc' = [pc EXCEPT ![k] = "stop_drain"] /\ Joins(k, "stop_drain")
        BY <1>1, <2>2 DEF StopCall, StopLocked, Joined, Goto, Park, Joins
      <3> QED BY <3>1, MoveTo
    <2>3. CASE queue = << >> /\ refused
      <3>1. Tail(Append(queue, k)) = queue
        BY <2>3, HeadTailAppend DEF LockType
      <3>2. pc' = [pc EXCEPT ![k] = "idle"] /\ Stays(k, "idle")
        BY <1>1, <2>3, <3>1 DEF StopCall, StopLocked, Joined, Goto, Park, Stays
      <3> QED BY <3>2, MoveTo
    <2> QED BY <2>1, <2>2, <2>3
  <1>2. CASE StopWoken(k)
    <2>1. CASE ~refused
      <3>1. pc' = [pc EXCEPT ![k] = "stop_drain"] /\ Stays(k, "stop_drain")
        BY <1>2, <2>1 DEF StopWoken, StopLocked, Goto, Park, Stays
      <3> QED BY <3>1, MoveTo
    <2>2. CASE refused
      <3>1. pc' = [pc EXCEPT ![k] = "idle"] /\ Leaves(k, "idle")
        BY <1>2, <2>2 DEF StopWoken, StopLocked, Goto, Park, Leaves
      <3> QED BY <3>1, MoveTo
    <2> QED BY <2>1, <2>2
  <1>3. CASE StopDrained(k) \/ StopWiped(k) \/ StopClosed(k)
    <2>1. PICK to \in {"stop_wipe", "stop_close", "stop_audit"} : pc' = [pc EXCEPT ![k] = to]
      BY <1>3 DEF StopDrained, StopWiped, StopClosed, Goto, Park
    <2>2. queue' = queue /\ pc[k] \in Locked
      BY <1>3 DEF StopDrained, StopWiped, StopClosed, Goto, Park
    <2>3. Stays(k, to)
      BY <2>2 DEF Stays
    <2> QED BY <2>1, <2>3, MoveTo
  <1>4. CASE StopAudited(k)
    BY <1>4, MoveTo DEF StopAudited, Leaves, Goto, Park
  <1> QED BY <1>1, <1>2, <1>3, <1>4 DEF StopRun

LEMMA ControlMoves ==
  ASSUME LockType, NEW k \in Tasks, TargetControl(k)
  PROVE  Moves(k)
PROOF
  <1>1. CASE EnableWoken(k)
    <2>1. pc' = [pc EXCEPT ![k] = "enable_load"] /\ Stays(k, "enable_load")
      BY <1>1 DEF EnableWoken, Goto, Park, Stays, Inside, Locked, Waiting
    <2> QED BY <2>1, MoveTo DEF Pcs, Locked, LockMove
  <1>2. CASE EnableLoaded(k) \/ EnableSpawned(k)
    BY <1>2, MoveTo DEF EnableLoaded, EnableSpawned, Goto, Park, Pcs, Inside, Locked, Waiting,
                        LockMove, Stays, Leaves
  <1>3. CASE DisableWoken(k)
    <2>1. CASE WorkersOf(loc[k].t) = {}
      BY <1>3, <2>1, AfterDisableMoves DEF DisableWoken, DisableLocked
    <2>2. CASE WorkersOf(loc[k].t) # {}
      <3>1. pc' = [pc EXCEPT ![k] = "disable_stop"] /\ Stays(k, "disable_stop")
        BY <1>3, <2>2 DEF DisableWoken, DisableLocked, Goto, Park, Stays, Inside, Locked, Waiting
      <3> QED BY <3>1, MoveTo DEF Pcs, Locked, LockMove
    <2> QED BY <2>1, <2>2
  <1>4. CASE DisableStopped(k)
    <2>1. pc[k] \in Locked
      BY <1>4 DEF DisableStopped, Locked
    <2>2. CASE AfterDisable(k, Tail(queue))
      BY <2>1, <2>2, AfterDisableMoves
    <2>3. CASE UNCHANGED <<queue, pc, loc>>
      <3>1. pc' = [pc EXCEPT ![k] = pc[k]] /\ pc[k] \in Pcs /\ Stays(k, pc[k])
        BY <2>1, <2>3 DEF LockType, Stays
      <3> QED BY <3>1, MoveTo DEF LockMove
    <2> QED BY <1>4, <2>2, <2>3 DEF DisableStopped
  <1> QED BY <1>1, <1>2, <1>3, <1>4 DEF TargetControl

LEMMA HandlerMoves ==
  ASSUME LockType, NEW k \in Tasks, Handler(k)
  PROVE  Moves(k)
PROOF
  <1>1. CASE DeleteRow(k)
    <2>1. pc' = [pc EXCEPT ![k] = "idle"]
      BY <1>1 DEF DeleteRow, Goto, Park
    <2>2. queue' = queue /\ pc[k] \in Unlocked
      BY <1>1 DEF DeleteRow, Unlocked
    <2> QED BY <2>1, <2>2, Awaits, MoveTo DEF LockMove, Stays, Inside
  <1>2. CASE DeleteCall(k)
    BY <1>2, DisableMoves DEF DeleteCall, Inside, Locked, Waiting
  <1>3. CASE Audited(k)
    <2>1. pc[k] \notin Inside
      BY <1>3 DEF Audited, Inside, Locked, Waiting
    <2>2. CASE EnableTarget(k, queue) \/ DisableTarget(k)
      BY <2>1, <2>2, EnableJoins, DisableMoves
    <2>3. CASE UNCHANGED queue /\ Goto(k, "idle")
      <3>1. pc' = [pc EXCEPT ![k] = "idle"] /\ Stays(k, "idle")
        BY <2>1, <2>3 DEF Goto, Park, Stays, Inside, Locked, Waiting
      <3> QED BY <3>1, MoveTo DEF Pcs, LockMove
    <2> QED BY <1>3, <2>2, <2>3 DEF Audited
  <1> QED BY <1>1, <1>2, <1>3 DEF Handler

-----------------------------------------------------------------------------
(* The inductive invariant.                                                *)

\* What the variables that no worker hangs on hold.
DataType ==
  /\ runState \in RS!RunStates
  /\ row \in [Targets -> {"absent", "enabled", "disabled", "deleted"}]
  /\ cred \in [Targets -> Keys \cup {NoKey}]
  /\ openRows \in Nat
  /\ targets \subseteq Targets
  /\ curRun \in {"none", "open", "unsaved"}
  /\ obs \in BOOLEAN
  /\ used \subseteq Targets

LocType == loc \in [Tasks -> Locals]

\* Where start_run and stop_run are parked, the run is in the state they put it in.
RunHeld ==
  \A k \in Tasks :
    /\ pc[k] \in {"start_open", "start_load", "start_spawn"} => runState = "starting"
    /\ pc[k] = "start_audit" => runState \in {"armed", "live"}
    /\ pc[k] = "start_undo" => runState \in {"starting", "armed", "live"}
    /\ pc[k] = "start_close" => runState = "error"
    /\ pc[k] \in {"stop_drain", "stop_wipe", "stop_close"} => runState = "stopping"

\* A transient state belongs to a task that will leave it.
TransientsOwned ==
  /\ runState = "starting" =>
       \E k \in Tasks : pc[k] \in {"start_open", "start_load", "start_spawn", "start_undo"}
  /\ runState = "stopping" =>
       \E k \in Tasks : pc[k] \in {"stop_drain", "stop_wipe", "stop_close"}

\* The session of a run is open from _open_run_session on, and what is left of it
\* after a failed start is given up by the task that failed.
SessionHeld ==
  /\ \A k \in Tasks :
       /\ pc[k] = "start_open" => curRun = "none"
       /\ pc[k] \in {"start_load", "start_spawn", "start_audit"} => curRun = "open"
  /\ curRun = "open" => openRows > 0
  /\ runState \in {"armed", "live"} => curRun = "open"
  /\ curRun = "unsaved" => \E k \in Tasks : pc[k] \in {"start_undo", "start_close"}
  /\ curRun # "none" /\ runState \in {"offline", "error"} =>
       \E k \in Tasks : pc[k] = "start_close"

\* The three records of a worker: _target_to_workers names running workers only,
\* and the registry holds keys of running workers only.
WorkersInv ==
  /\ workers \in [WorkerIds -> Keys \cup {NoKey}]
  /\ registry \subseteq Keys
  /\ t2w \subseteq Running
  /\ NoOrphanSecrets

ControlInv == RunHeld /\ TransientsOwned /\ SessionHeld

IInv ==
  /\ LockType
  /\ LockDiscipline
  /\ LocType
  /\ DataType
  /\ WorkersInv
  /\ ControlInv

-----------------------------------------------------------------------------
(* The operators the actions are built from.                               *)

\* What the _set_run_state calls of start_run and stop_run do.
LEMMA RunMoves ==
  /\ RS!Transition("starting", "workers_spawned") = {"armed"}
  /\ \A s \in {"starting", "armed", "live"} :
       /\ RS!Transition(s, "unrecoverable_failed") = {"error"}
       /\ RS!Transition(s, "stop_requested") = {"stopping"}
  /\ RS!Transition("stopping", "workers_drained") = {"offline"}
BY DEF RS!Transition, RS!Transitions, RS!RunStates

\* The locals of a task that has none are locals.
LEMMA NoLocalsType == NoLocals \in Locals
BY SupervisorAssumption DEF NoLocals, Locals

\* A stretch that ends by Goto keeps the locals or drops them.
LEMMA GotoLocals ==
  ASSUME LocType, NEW k \in Tasks, NEW to, Goto(k, to)
  PROVE  LocType'
BY NoLocalsType DEF LocType, Goto, Park

LEMMA ParkLocals ==
  ASSUME LocType, NEW k \in Tasks, NEW to, NEW l \in Locals, Park(k, to, l)
  PROVE  LocType'
BY DEF LocType, Park

\* enable_target and disable_target park their caller with the locals it has.
LEMMA ControlLocals ==
  ASSUME LocType, NEW k \in Tasks, NEW q,
         EnableTarget(k, q) \/ AfterDisable(k, q) \/ DisableLocked(k, q) \/ DisableTarget(k)
  PROVE  LocType'
PROOF
  <1>1. ASSUME NEW p, EnableTarget(k, p) PROVE LocType'
    BY <1>1, GotoLocals DEF EnableTarget
  <1>2. ASSUME NEW p, AfterDisable(k, p) PROVE LocType'
    BY <1>1, <1>2, GotoLocals DEF AfterDisable
  <1>3. ASSUME NEW p, DisableLocked(k, p) PROVE LocType'
    BY <1>2, <1>3, GotoLocals DEF DisableLocked
  <1>4. ASSUME DisableTarget(k) PROVE LocType'
    BY <1>3, <1>4, GotoLocals DEF DisableTarget
  <1> QED BY <1>1, <1>2, <1>3, <1>4

\* A load yields a key, or none, for every target, and none outside what it loads.
LEMMA DecryptedType ==
  ASSUME DataType, NEW S, NEW got \in Decrypted(S)
  PROVE  /\ got \in [Targets -> Keys \cup {NoKey}]
         /\ \A t \in Targets : got[t] # NoKey => t \in S
BY DEF Decrypted, DataType

\* The two worker ids of a target are worker ids, and nothing else is.
LEMMA WorkerIdsTargets == \A w \in WorkerIds : w[1] \in Targets
BY SupervisorAssumption DEF WorkerIds

\* Spawning keeps the three records consistent, whatever the index is cut down to.
LEMMA SpawnKeeps ==
  ASSUME DataType, WorkersInv, LocType, NEW k \in Tasks, NEW S, NEW ids, ids \subseteq t2w,
         Spawn(k, S, ids)
  PROVE  WorkersInv' /\ used' \subseteq Targets
PROOF
  <1> DEFINE new == {w \in WorkerIds : w[1] \in S /\ loc[k].got[w[1]] # NoKey /\ workers[w] = NoKey}
  <1>1. /\ workers' = [w \in WorkerIds |-> IF w \in new THEN loc[k].got[w[1]] ELSE workers[w]]
        /\ t2w' = ids \cup new
        /\ registry' = registry \cup {loc[k].got[w[1]] : w \in new}
        /\ used' = used \cup {w[1] : w \in {v \in new : cred[v[1]] = loc[k].got[v[1]]}}
    BY DEF Spawn, Registered
  <1>2. loc[k].got \in [Targets -> Keys \cup {NoKey}]
    BY DEF LocType, Locals
  <1>3. \A w \in new : w[1] \in Targets /\ loc[k].got[w[1]] \in Keys /\ loc[k].got[w[1]] # NoKey
    BY <1>2, WorkerIdsTargets
  <1>4. workers' \in [WorkerIds -> Keys \cup {NoKey}]
    BY <1>1, <1>3 DEF WorkersInv
  <1>5. registry' \subseteq Keys /\ used' \subseteq Targets
    BY <1>1, <1>3 DEF WorkersInv, DataType
  <1>6. \A w \in Running : w \in Running' /\ workers'[w] = workers[w]
    BY <1>1 DEF Running
  <1>7. \A w \in new : w \in Running' /\ workers'[w] = loc[k].got[w[1]]
    BY <1>1, <1>3 DEF Running
  <1>8. t2w' \subseteq Running'
    BY <1>1, <1>6, <1>7 DEF WorkersInv
  <1>9. registry' \subseteq {workers'[w] : w \in Running'}
    <2> SUFFICES ASSUME NEW key \in registry'
                 PROVE  \E w \in Running' : workers'[w] = key
      OBVIOUS
    <2>1. CASE key \in registry
      <3>1. PICK w \in Running : workers[w] = key
        BY <2>1 DEF WorkersInv, NoOrphanSecrets
      <3> QED BY <3>1, <1>6
    <2>2. CASE key \in {loc[k].got[w[1]] : w \in new}
      BY <2>2, <1>7
    <2> QED BY <1>1, <2>1, <2>2
  <1> QED BY <1>4, <1>5, <1>8, <1>9 DEF WorkersInv, NoOrphanSecrets

\* Tearing down any set of workers does.
LEMMA TearDownKeeps ==
  ASSUME WorkersInv, NEW W, TearDown(W)
  PROVE  WorkersInv'
PROOF
  <1>1. /\ workers' = [w \in WorkerIds |-> IF w \in W THEN NoKey ELSE workers[w]]
        /\ t2w' = t2w \ W
        /\ registry' = registry \ {workers[w] : w \in W}
    BY DEF TearDown, Unregistered
  <1>2. \A w \in Running \ W : w \in Running' /\ workers'[w] = workers[w]
    BY <1>1 DEF Running
  <1>3. workers' \in [WorkerIds -> Keys \cup {NoKey}]
    BY <1>1 DEF WorkersInv
  <1>4. t2w' \subseteq Running' /\ registry' \subseteq Keys
    BY <1>1, <1>2 DEF WorkersInv
  <1>5. registry' \subseteq {workers'[w] : w \in Running'}
    BY <1>1, <1>2 DEF WorkersInv, NoOrphanSecrets
  <1> QED BY <1>3, <1>4, <1>5 DEF WorkersInv, NoOrphanSecrets

LEMMA TearDownAllKeeps ==
  ASSUME WorkersInv, TearDownAll
  PROVE  WorkersInv'
PROOF
  <1>1. CASE TearDown(Running)
    BY <1>1, TearDownKeeps
  <1>2. CASE UNCHANGED <<workers, t2w, registry>>
    BY <1>2 DEF WorkersInv, NoOrphanSecrets, Running
  <1> QED BY <1>1, <1>2 DEF TearDownAll

\* A step that leaves the workers alone.
LEMMA NoWorkerTouched ==
  ASSUME WorkersInv, UNCHANGED <<workers, t2w, registry>>
  PROVE  WorkersInv'
BY DEF WorkersInv, NoOrphanSecrets, Running

-----------------------------------------------------------------------------
(* Steps away from the run.                                                *)

\* The awaits that ControlInv speaks of.
RunAwaits ==
  {"start_open", "start_load", "start_spawn", "start_audit", "start_undo",
   "start_close", "stop_drain", "stop_wipe", "stop_close"}

\* A task that is at none of them, before and after, disturbs no claim on the run.
LEMMA Elsewhere ==
  ASSUME LockType, ControlInv, NEW k \in Tasks, Moves(k),
         pc[k] \notin RunAwaits, pc'[k] \notin RunAwaits,
         UNCHANGED <<runState, curRun, openRows>>
  PROVE  ControlInv'
PROOF
  <1>1. \A j \in Tasks : pc'[j] = pc[j] \/ (pc[j] \notin RunAwaits /\ pc'[j] \notin RunAwaits)
    BY DEF Moves, LockType
  <1>2. RunHeld'
    BY <1>1 DEF ControlInv, RunHeld, RunAwaits
  <1>3. TransientsOwned'
    BY <1>1 DEF ControlInv, TransientsOwned, RunAwaits
  <1>4. SessionHeld'
    BY <1>1 DEF ControlInv, SessionHeld, RunAwaits
  <1> QED BY <1>2, <1>3, <1>4 DEF ControlInv

\* Only one task is at an await under the lock.
LEMMA Alone ==
  ASSUME LockDiscipline, NEW k \in Tasks, pc[k] \in Locked \/ Holds(k)
  PROVE  \A j \in Tasks \ {k} : pc[j] \notin Locked
BY DEF LockDiscipline, Holds

-----------------------------------------------------------------------------
(* Every step keeps the invariant.                                         *)

LEMMA InitInv ==
  ASSUME Init
  PROVE  IInv
PROOF
  <1>1. LockType /\ LockDiscipline
    BY DEF Init, LockType, LockDiscipline, Pcs, Locked, Waiting
  <1>2. LocType
    BY NoLocalsType DEF Init, LocType
  <1>3. DataType
    BY SupervisorAssumption DEF Init, DataType, RS!RunStates
  <1>4. WorkersInv
    BY DEF Init, WorkersInv, NoWorkers, NoOrphanSecrets, Running
  <1>5. ControlInv
    BY DEF Init, ControlInv, RunHeld, TransientsOwned, SessionHeld
  <1> QED BY <1>1, <1>2, <1>3, <1>4, <1>5 DEF IInv

\* A move keeps the lock's part.
LEMMA MovesKeepLock ==
  ASSUME LockType, LockDiscipline, NEW k \in Tasks, Moves(k)
  PROVE  LockType' /\ LockDiscipline'
BY MoveKeepsLock DEF Moves

\* What a step of k does to the awaits of the others, and where it is alone.
LEMMA OthersStay ==
  ASSUME LockType, LockDiscipline, NEW k \in Tasks, Moves(k)
  PROVE  /\ \A j \in Tasks \ {k} : pc'[j] = pc[j]
         /\ pc[k] \in Locked \/ Holds(k) \/ pc'[k] \in Locked
              => \A j \in Tasks \ {k} : pc[j] \notin Locked /\ pc'[j] \notin Locked
PROOF
  <1>1. \A j \in Tasks \ {k} : pc'[j] = pc[j]
    BY DEF LockType, Moves
  <1>2. CASE pc[k] \in Locked \/ Holds(k)
    BY <1>1, <1>2, Alone
  <1>3. CASE pc'[k] \in Locked
    BY <1>1, <1>3, MovesKeepLock DEF LockDiscipline, Holds
  <1> QED BY <1>1, <1>2, <1>3

\* A request that arrives.
LEMMA ArrivalKeeps ==
  ASSUME IInv, NEW k \in Tasks, Arrival(k)
  PROVE  IInv'
PROOF
  <1>1. LockType /\ LockDiscipline /\ LocType /\ DataType /\ WorkersInv /\ ControlInv
    BY DEF IInv
  <1>2. Moves(k)
    BY <1>1, ArrivalMoves
  <1>3. LockType' /\ LockDiscipline'
    BY <1>1, <1>2, MovesKeepLock
  <1>4. WorkersInv'
    BY <1>1, NoWorkerTouched
       DEF Arrival, ApiStart, ApiStop, UpdateTarget, SetCredential, ClearCredential, CreateTarget,
           DeleteTarget, mem
  <1>5. ControlInv'
    <2>1. pc[k] \notin RunAwaits /\ pc'[k] \notin RunAwaits
      BY <1>1, ArrivalParks DEF Unlocked, RunAwaits
    <2>2. UNCHANGED <<runState, curRun, openRows>>
      BY DEF Arrival, ApiStart, ApiStop, UpdateTarget, SetCredential, ClearCredential, CreateTarget,
             DeleteTarget, db, mem
    <2> QED BY <1>1, <1>2, <2>1, <2>2, Elsewhere
  <1>6. DataType'
    <2>1. UNCHANGED <<runState, openRows, targets, curRun, obs>>
      BY DEF Arrival, ApiStart, ApiStop, UpdateTarget, SetCredential, ClearCredential,
             CreateTarget, DeleteTarget, db, mem
    <2>2. row' \in [Targets -> {"absent", "enabled", "disabled", "deleted"}]
      BY <1>1 DEF Arrival, ApiStart, ApiStop, UpdateTarget, SetCredential, ClearCredential,
             CreateTarget, DeleteTarget, db, DataType
    <2>3. cred' \in [Targets -> Keys \cup {NoKey}] /\ used' \subseteq Targets
      BY <1>1 DEF Arrival, ApiStart, ApiStop, UpdateTarget, SetCredential, ClearCredential,
             CreateTarget, DeleteTarget, db, DataType
    <2> QED BY <1>1, <2>1, <2>2, <2>3 DEF DataType
  <1>7. LocType'
    <2>1. CASE ApiStart(k) \/ ApiStop(k)
      BY <1>1, <2>1, GotoLocals DEF ApiStart, ApiStop
    <2>2. ASSUME NEW t \in Targets, NEW l \in Locals, NEW op, NEW to, Request(k, op, t, l, to)
          PROVE  LocType'
      <3>1. [l EXCEPT !.t = t] \in Locals
        BY <2>2 DEF Locals
      <3> QED BY <1>1, <2>2, <3>1, ParkLocals DEF Request
    <2>3. ASSUME NEW t \in Targets, NEW want \in {"enabled", "disabled", "same"},
                 UpdateTarget(k, t, want)
          PROVE  LocType'
      <3> DEFINE calls == CASE want = "enabled"  /\ row[t] = "disabled" -> <<"enable", "end">>
                            [] want = "disabled" /\ row[t] = "enabled"  -> <<"disable", "end">>
                            [] want = "same"     /\ row[t] = "enabled"  -> <<"disable", "enable">>
                            [] OTHER                                     -> <<"end", "end">>
      <3>1. calls[1] \in {"end", "enable", "disable"} /\ calls[2] \in {"end", "enable"}
        OBVIOUS
      <3>2. [NoLocals EXCEPT !.next = calls[1], !.then = calls[2]] \in Locals
        BY <3>1, NoLocalsType DEF Locals
      <3> QED BY <2>2, <2>3, <3>2 DEF UpdateTarget
    <2>4. ASSUME NEW t \in Targets, NEW key \in Keys, SetCredential(k, t, key)
          PROVE  LocType'
      <3>1. [NoLocals EXCEPT !.next = IF row[t] = "enabled" THEN "enable" ELSE "end"] \in Locals
        BY NoLocalsType DEF Locals
      <3> QED BY <2>2, <2>4, <3>1 DEF SetCredential
    <2>5. ASSUME NEW t \in Targets, ClearCredential(k, t)
          PROVE  LocType'
      <3>1. [NoLocals EXCEPT !.next = "disable"] \in Locals
        BY NoLocalsType DEF Locals
      <3> QED BY <2>2, <2>5, <3>1 DEF ClearCredential
    <2>6. ASSUME NEW t \in Targets, NEW as \in {"enabled", "disabled"}, CreateTarget(k, t, as)
          PROVE  LocType'
      <3>1. [NoLocals EXCEPT !.next = IF as = "enabled" THEN "enable" ELSE "end"] \in Locals
        BY NoLocalsType DEF Locals
      <3> QED BY <2>2, <2>6, <3>1 DEF CreateTarget
    <2>7. ASSUME NEW t \in Targets, DeleteTarget(k, t)
          PROVE  LocType'
      <3>1. [NoLocals EXCEPT !.then = "delete"] \in Locals
        BY NoLocalsType DEF Locals
      <3> QED BY <2>2, <2>7, <3>1 DEF DeleteTarget
    <2> QED BY <2>1, <2>3, <2>4, <2>5, <2>6, <2>7 DEF Arrival
  <1> QED BY <1>3, <1>4, <1>5, <1>6, <1>7 DEF IInv

\* The handlers of app/api/targets.py.
LEMMA HandlerKeeps ==
  ASSUME IInv, NEW k \in Tasks, Handler(k)
  PROVE  IInv'
PROOF
  <1>1. LockType /\ LockDiscipline /\ LocType /\ DataType /\ WorkersInv /\ ControlInv
    BY DEF IInv
  <1>2. Moves(k)
    BY <1>1, HandlerMoves
  <1>3. LockType' /\ LockDiscipline'
    BY <1>1, <1>2, MovesKeepLock
  <1>4. WorkersInv'
    BY <1>1, NoWorkerTouched
       DEF Handler, DeleteCall, DeleteRow, Audited, mem
  <1>5. ControlInv'
    <2>1. pc[k] \notin RunAwaits
      BY DEF Handler, DeleteCall, DeleteRow, Audited, RunAwaits
    <2>2. pc'[k] \notin RunAwaits
      BY <1>1 DEF Handler, DeleteCall, DeleteRow, Audited, DisableTarget,
             DisableLocked, AfterDisable, EnableTarget, Goto, Park, RunAwaits, LockType
    <2>3. UNCHANGED <<runState, curRun, openRows>>
      BY DEF Handler, DeleteCall, DeleteRow, Audited, db, mem
    <2> QED BY <1>1, <1>2, <2>1, <2>2, <2>3, Elsewhere
  <1>6. loc[k] \in Locals
    BY <1>1 DEF LocType
  <1>7. DataType'
    BY <1>1, <1>6, SupervisorAssumption
       DEF Handler, DeleteCall, DeleteRow, Audited, db, mem, DataType,
           Exists, Locals
  <1>8. LocType'
    <2>1. CASE DeleteCall(k)
      BY <1>1, <2>1, ControlLocals DEF DeleteCall
    <2>2. CASE DeleteRow(k)
      BY <1>1, <2>2, GotoLocals DEF DeleteRow
    <2>3. CASE Audited(k)
      BY <1>1, <2>3, GotoLocals, ControlLocals DEF Audited
    <2> QED BY <2>1, <2>2, <2>3 DEF Handler
  <1> QED BY <1>3, <1>4, <1>5, <1>7, <1>8 DEF IInv

\* enable_target and disable_target under the lock.
LEMMA TargetControlKeeps ==
  ASSUME IInv, NEW k \in Tasks, TargetControl(k)
  PROVE  IInv'
PROOF
  <1>1. LockType /\ LockDiscipline /\ LocType /\ DataType /\ WorkersInv /\ ControlInv
    BY DEF IInv
  <1>2. Moves(k)
    BY <1>1, ControlMoves
  <1>3. LockType' /\ LockDiscipline'
    BY <1>1, <1>2, MovesKeepLock
  <1>4. ControlInv'
    <2>1. pc[k] \notin RunAwaits
      BY DEF TargetControl, EnableWoken, EnableLoaded, EnableSpawned, DisableWoken, DisableStopped,
             RunAwaits
    <2>2. pc'[k] \notin RunAwaits
      BY <1>1, <2>1
         DEF TargetControl, EnableWoken, EnableLoaded, EnableSpawned, DisableWoken, DisableStopped,
             DisableLocked, AfterDisable, EnableTarget, Goto, Park, RunAwaits, LockType
    <2>3. UNCHANGED <<runState, curRun, openRows>>
      BY DEF TargetControl, EnableWoken, EnableLoaded, EnableSpawned, DisableWoken, DisableStopped,
             db, mem
    <2> QED BY <1>1, <1>2, <2>1, <2>2, <2>3, Elsewhere
  <1>5. loc[k] \in Locals
    BY <1>1 DEF LocType
  <1>6. CASE EnableWoken(k) \/ DisableWoken(k)
    <2>1. WorkersInv' /\ DataType'
      BY <1>1, <1>6, NoWorkerTouched DEF EnableWoken, DisableWoken, db, mem, DataType
    <2>2. LocType'
      BY <1>1, <1>6, GotoLocals, ControlLocals DEF EnableWoken, DisableWoken
    <2> QED BY <1>3, <1>4, <2>1, <2>2 DEF IInv
  <1>7. CASE EnableLoaded(k)
    <2>1. WorkersInv' /\ DataType'
      BY <1>1, <1>7, NoWorkerTouched DEF EnableLoaded, db, mem, DataType
    <2>2. ASSUME NEW S, NEW got \in Decrypted(S) PROVE [loc[k] EXCEPT !.got = got] \in Locals
      <3>1. got \in [Targets -> Keys \cup {NoKey}]
        BY <1>1, <2>2, DecryptedType
      <3> QED BY <1>5, <3>1 DEF Locals
    <2>3. LocType'
      BY <1>1, <1>7, <2>2, ParkLocals, GotoLocals DEF EnableLoaded
    <2> QED BY <1>3, <1>4, <2>1, <2>3 DEF IInv
  <1>8. CASE EnableSpawned(k)
    <2>1. WorkersInv' /\ used' \subseteq Targets
      <3>1. PICK S : Spawn(k, S, t2w)
        BY <1>8 DEF EnableSpawned
      <3> QED BY <1>1, <3>1, SpawnKeeps
    <2>2. DataType'
      BY <1>1, <1>5, <1>8, <2>1 DEF EnableSpawned, DataType, Locals
    <2>3. LocType'
      BY <1>1, <1>8, GotoLocals DEF EnableSpawned
    <2> QED BY <1>3, <1>4, <2>1, <2>2, <2>3 DEF IInv
  <1>9. CASE DisableStopped(k)
    <2>1. WorkersInv'
      BY <1>1, <1>9, TearDownKeeps DEF DisableStopped
    <2>2. DataType'
      BY <1>1, <1>9 DEF DisableStopped, DataType, db
    <2>3. LocType'
      BY <1>1, <1>9, ControlLocals DEF DisableStopped, LocType
    <2> QED BY <1>3, <1>4, <2>1, <2>2, <2>3 DEF IInv
  <1> QED BY <1>6, <1>7, <1>8, <1>9 DEF TargetControl

\* stop_run.
LEMMA StopRunKeeps ==
  ASSUME IInv, NEW k \in Tasks, StopRun(k)
  PROVE  IInv'
PROOF
  <1>1. LockType /\ LockDiscipline /\ LocType /\ DataType /\ WorkersInv /\ ControlInv
    BY DEF IInv
  <1>2. Moves(k)
    BY <1>1, StopMoves
  <1>3. LockType' /\ LockDiscipline'
    BY <1>1, <1>2, MovesKeepLock
  <1>4. \A j \in Tasks \ {k} : pc'[j] = pc[j]
    BY <1>1, <1>2, OthersStay
  <1>5. pc[k] \in Locked \/ Holds(k) \/ pc'[k] \in Locked =>
           \A j \in Tasks \ {k} : pc[j] \notin Locked /\ pc'[j] \notin Locked
    BY <1>1, <1>2, OthersStay
  <1>6. LocType'
    BY <1>1, GotoLocals
       DEF StopRun, StopCall, StopWoken, StopLocked, StopDrained, StopWiped, StopClosed, StopAudited
  <1>7. CASE StopCall(k) \/ StopWoken(k)
    <2>1. WorkersInv'
      BY <1>1, <1>7, NoWorkerTouched DEF StopCall, StopWoken, StopLocked, mem
    <2>2. CASE runState' = runState /\ pc'[k] \notin RunAwaits
      <3>1. ControlInv'
        BY <1>1, <1>2, <1>7, <2>2, Elsewhere
           DEF StopCall, StopWoken, StopLocked, db, mem, RunAwaits
      <3>2. DataType'
        BY <1>1, <1>7, <2>2 DEF StopCall, StopWoken, StopLocked, db, mem, DataType
      <3> QED BY <1>3, <1>6, <2>1, <3>1, <3>2 DEF IInv
    <2>3. CASE StopLocked(k, queue') /\ runState \notin {"offline", "stopping", "error"}
      <3>1. runState' = "stopping" /\ pc'[k] = "stop_drain" /\ UNCHANGED <<db, mem, obs>>
        BY <1>1, <2>3, RunMoves
           DEF StopLocked, Goto, Park, DataType, RS!RunStates, LockType
      <3>2. \A j \in Tasks \ {k} : pc'[j] \notin Locked
        BY <1>5, <3>1 DEF Locked
      <3>3. UNCHANGED <<curRun, openRows>> /\ curRun # "unsaved"
        <4>1. UNCHANGED <<curRun, openRows>>
          BY <3>1 DEF db, mem
        <4>2. \A j \in Tasks \ {k} : pc[j] \notin Locked
          BY <1>5, <3>1 DEF Locked
        <4>3. pc[k] \notin Locked
          BY <1>7 DEF StopCall, StopWoken, Locked
        <4> QED BY <1>1, <4>1, <4>2, <4>3 DEF ControlInv, SessionHeld, Locked
      <3>4. ControlInv'
        <4>1. RunHeld' /\ TransientsOwned'
          BY <3>1, <3>2 DEF RunHeld, TransientsOwned, Locked
        <4>2. SessionHeld'
          BY <1>1, <3>1, <3>2, <3>3 DEF ControlInv, SessionHeld, Locked
        <4> QED BY <4>1, <4>2 DEF ControlInv
      <3>5. DataType'
        BY <1>1, <3>1 DEF DataType, RS!RunStates, db, mem
      <3> QED BY <1>3, <1>6, <2>1, <3>4, <3>5 DEF IInv
    <2> QED
      BY <1>1, <1>7, <2>2, <2>3
         DEF StopCall, StopWoken, StopLocked, Goto, Park, LockType, RunAwaits
  <1>8. CASE StopDrained(k) \/ StopWiped(k)
    <2>1. /\ pc[k] \in {"stop_drain", "stop_wipe"}
          /\ pc'[k] \in {"stop_wipe", "stop_close"}
          /\ UNCHANGED <<runState, curRun, openRows>>
      BY <1>1, <1>8 DEF StopDrained, StopWiped, Goto, Park, LockType, db, mem
    <2>2. WorkersInv'
      BY <1>1, <1>8, TearDownAllKeeps, NoWorkerTouched DEF StopDrained, StopWiped, mem
    <2>3. ControlInv'
      BY <1>1, <1>4, <2>1 DEF ControlInv, RunHeld, TransientsOwned, SessionHeld
    <2>4. DataType'
      BY <1>1, <1>8 DEF StopDrained, StopWiped, DataType, db, mem
    <2> QED BY <1>3, <1>6, <2>2, <2>3, <2>4 DEF IInv
  <1>9. CASE StopClosed(k)
    <2>1. /\ pc[k] = "stop_close"
          /\ pc'[k] = "stop_audit"
          /\ runState = "stopping"
          /\ runState' = "offline"
          /\ curRun' = "none"
      BY <1>1, <1>9, RunMoves
         DEF StopClosed, Goto, Park, LockType, ControlInv, RunHeld, CloseRunSession
    <2>2. WorkersInv'
      BY <1>1, <1>9, NoWorkerTouched DEF StopClosed
    <2>3. \A j \in Tasks \ {k} : pc'[j] \notin Locked
      BY <1>5, <2>1 DEF Locked
    <2>4. ControlInv'
      BY <2>1, <2>3 DEF ControlInv, RunHeld, TransientsOwned, SessionHeld, Locked
    <2>5. openRows' \in Nat
      BY <1>1, <1>9 DEF StopClosed, CloseRunSession, EndedRow, DataType, ControlInv, SessionHeld
    <2>6. DataType'
      BY <1>1, <1>9, <2>1, <2>5 DEF StopClosed, DataType, RS!RunStates
    <2> QED BY <1>3, <1>6, <2>2, <2>4, <2>6 DEF IInv
  <1>10. CASE StopAudited(k)
    <2>1. WorkersInv' /\ DataType'
      BY <1>1, <1>10, NoWorkerTouched DEF StopAudited, db, mem, DataType
    <2>2. ControlInv'
      BY <1>1, <1>2, <1>10, Elsewhere DEF StopAudited, Goto, Park, LockType, RunAwaits, db, mem
    <2> QED BY <1>3, <1>6, <2>1, <2>2 DEF IInv
  <1> QED BY <1>7, <1>8, <1>9, <1>10 DEF StopRun

\* start_run.
LEMMA StartRunKeeps ==
  ASSUME IInv, NEW k \in Tasks, StartRun(k)
  PROVE  IInv'
PROOF
  <1>1. LockType /\ LockDiscipline /\ LocType /\ DataType /\ WorkersInv /\ ControlInv
    BY DEF IInv
  <1>2. Moves(k)
    BY <1>1, StartMoves
  <1>3. LockType' /\ LockDiscipline'
    BY <1>1, <1>2, MovesKeepLock
  <1>4. \A j \in Tasks \ {k} : pc'[j] = pc[j]
    BY <1>1, <1>2, OthersStay
  <1>5. pc[k] \in Locked \/ Holds(k) \/ pc'[k] \in Locked =>
           \A j \in Tasks \ {k} : pc[j] \notin Locked /\ pc'[j] \notin Locked
    BY <1>1, <1>2, OthersStay
  <1>6. CASE StartCall(k) \/ StartWoken(k)
    <2>1. WorkersInv' /\ LocType'
      BY <1>1, <1>6, NoWorkerTouched, GotoLocals DEF StartCall, StartWoken, StartLocked, mem
    <2>2. CASE runState' = runState /\ pc'[k] \notin RunAwaits
      <3>1. ControlInv'
        BY <1>1, <1>2, <1>6, <2>2, Elsewhere
           DEF StartCall, StartWoken, StartLocked, db, mem, RunAwaits
      <3>2. DataType'
        BY <1>1, <1>6, <2>2 DEF StartCall, StartWoken, StartLocked, db, mem, DataType
      <3> QED BY <1>3, <2>1, <3>1, <3>2 DEF IInv
    <2>3. CASE StartLocked(k, queue') /\ runState = "offline"
      <3>1. runState' = "starting" /\ pc'[k] = "start_open" /\ UNCHANGED <<db, mem, obs>>
        BY <1>1, <2>3 DEF StartLocked, Goto, Park, LockType
      <3>2. \A j \in Tasks \ {k} : pc'[j] \notin Locked
        BY <1>5, <3>1 DEF Locked
      <3>3. UNCHANGED <<curRun, openRows>> /\ curRun = "none"
        <4>1. UNCHANGED <<curRun, openRows>>
          BY <3>1 DEF db, mem
        <4>2. \A j \in Tasks \ {k} : pc[j] \notin Locked
          BY <1>5, <3>1 DEF Locked
        <4>3. pc[k] \notin Locked
          BY <1>6 DEF StartCall, StartWoken, Locked
        <4> QED BY <1>1, <2>3, <4>1, <4>2, <4>3 DEF ControlInv, SessionHeld, Locked
      <3>4. ControlInv'
        <4>1. RunHeld' /\ TransientsOwned'
          BY <3>1, <3>2 DEF RunHeld, TransientsOwned, Locked
        <4>2. SessionHeld'
          BY <1>1, <3>1, <3>2, <3>3 DEF ControlInv, SessionHeld, Locked
        <4> QED BY <4>1, <4>2 DEF ControlInv
      <3>5. DataType'
        BY <1>1, <3>1 DEF DataType, RS!RunStates, db, mem
      <3> QED BY <1>3, <2>1, <3>4, <3>5 DEF IInv
    <2> QED
      BY <1>1, <1>6, <2>2, <2>3
         DEF StartCall, StartWoken, StartLocked, Goto, Park, LockType, RunAwaits
  <1>7. CASE StartOpened(k)
    <2>1. /\ pc[k] = "start_open"
          /\ curRun = "none"
          /\ \/ pc'[k] = "start_load" /\ curRun' = "open" /\ openRows' = openRows + 1
             \/ pc'[k] = "start_undo" /\ curRun' \in {"none", "unsaved"} /\ UNCHANGED openRows
          /\ runState = "starting"
          /\ runState' = runState
      BY <1>1, <1>7
         DEF StartOpened, StartedRow, Goto, Park, LockType, ControlInv, RunHeld, SessionHeld
    <2>2. ControlInv'
      <3>1. RunHeld' /\ TransientsOwned'
        BY <1>1, <1>4, <2>1 DEF ControlInv, RunHeld, TransientsOwned
      <3>2. SessionHeld'
        <4>1. \A j \in Tasks \ {k} : pc'[j] \notin Locked
          BY <1>5, <2>1 DEF Locked
        <4>2. openRows \in Nat /\ openRows + 1 > 0
          BY <1>1 DEF DataType
        <4> QED BY <1>1, <2>1, <4>1, <4>2 DEF ControlInv, SessionHeld, Locked
      <3> QED BY <3>1, <3>2 DEF ControlInv
    <2>3. WorkersInv' /\ LocType'
      BY <1>1, <1>7, NoWorkerTouched, GotoLocals DEF StartOpened
    <2>4. DataType'
      <3>1. openRows' \in Nat
        BY <1>1, <2>1 DEF DataType
      <3>2. curRun' \in {"none", "open", "unsaved"}
        BY <1>1, <2>1 DEF DataType
      <3> QED BY <1>1, <1>7, <3>1, <3>2 DEF StartOpened, DataType
    <2> QED BY <1>3, <2>2, <2>3, <2>4 DEF IInv
  <1>8. CASE StartLoaded(k)
    <2>1. /\ pc[k] = "start_load"
          /\ pc'[k] \in {"start_spawn", "start_undo"}
          /\ runState = "starting"
          /\ UNCHANGED <<runState, curRun, openRows>>
      BY <1>1, <1>8 DEF StartLoaded, Goto, Park, LockType, ControlInv, RunHeld, db, mem
    <2>2. ControlInv'
      BY <1>1, <1>4, <2>1 DEF ControlInv, RunHeld, TransientsOwned, SessionHeld
    <2>3. WorkersInv' /\ DataType'
      BY <1>1, <1>8, NoWorkerTouched DEF StartLoaded, db, mem, DataType
    <2>4. ASSUME NEW S \in SUBSET Targets, NEW got \in Decrypted(S)
          PROVE  [loc[k] EXCEPT !.known = S, !.got = got] \in Locals
      <3>1. got \in [Targets -> Keys \cup {NoKey}] /\ loc[k] \in Locals
        BY <1>1, <2>4, DecryptedType DEF LocType
      <3> QED BY <3>1 DEF Locals
    <2>5. LocType'
      BY <1>1, <1>8, <2>4, ParkLocals, GotoLocals DEF StartLoaded
    <2> QED BY <1>3, <2>2, <2>3, <2>5 DEF IInv
  <1>9. CASE StartSpawned(k)
    <2>1. /\ pc[k] = "start_spawn"
          /\ \/ pc'[k] = "start_audit" /\ runState' = "armed"
             \/ pc'[k] = "start_undo" /\ runState' = runState
          /\ runState = "starting"
          /\ curRun = "open"
          /\ UNCHANGED <<curRun, openRows>>
      BY <1>1, <1>9, RunMoves
         DEF StartSpawned, Goto, Park, LockType, ControlInv, RunHeld, SessionHeld
    <2>2. \A j \in Tasks \ {k} : pc'[j] \notin Locked
      BY <1>5, <2>1 DEF Locked
    <2>3. ControlInv'
      BY <1>1, <2>1, <2>2 DEF ControlInv, RunHeld, TransientsOwned, SessionHeld, Locked
    <2>4. PICK S : Spawn(k, S, {})
      BY <1>9 DEF StartSpawned
    <2>5. WorkersInv' /\ used' \subseteq Targets
      BY <1>1, <2>4, SpawnKeeps
    <2>6. loc[k].known \subseteq Targets
      BY <1>1 DEF LocType, Locals
    <2>7. DataType' /\ LocType'
      BY <1>1, <1>9, <2>1, <2>5, <2>6, GotoLocals DEF StartSpawned, DataType, RS!RunStates
    <2> QED BY <1>3, <2>3, <2>5, <2>7 DEF IInv
  <1>10. CASE StartAudited(k)
    <2>1. /\ pc[k] = "start_audit"
          /\ pc'[k] \in {"idle", "start_undo"}
          /\ runState \in {"armed", "live"}
          /\ UNCHANGED <<runState, curRun, openRows>>
      BY <1>1, <1>10 DEF StartAudited, Goto, Park, LockType, ControlInv, RunHeld, db, mem
    <2>2. ControlInv'
      BY <1>1, <1>4, <2>1 DEF ControlInv, RunHeld, TransientsOwned, SessionHeld
    <2>3. WorkersInv' /\ DataType' /\ LocType'
      BY <1>1, <1>10, NoWorkerTouched, GotoLocals DEF StartAudited, db, mem, DataType
    <2> QED BY <1>3, <2>2, <2>3 DEF IInv
  <1>11. CASE StartUndone(k)
    <2>1. /\ pc[k] = "start_undo"
          /\ pc'[k] = "start_close"
          /\ runState' = "error"
          /\ UNCHANGED <<curRun, openRows>>
      BY <1>1, <1>11, RunMoves DEF StartUndone, Goto, Park, LockType, ControlInv, RunHeld, db
    <2>2. \A j \in Tasks \ {k} : pc'[j] \notin Locked
      BY <1>5, <2>1 DEF Locked
    <2>3. ControlInv'
      BY <1>1, <2>1, <2>2 DEF ControlInv, RunHeld, TransientsOwned, SessionHeld, Locked
    <2>4. WorkersInv'
      BY <1>1, <1>11, TearDownAllKeeps DEF StartUndone
    <2>5. DataType' /\ LocType'
      BY <1>1, <1>11, <2>1, GotoLocals DEF StartUndone, DataType, RS!RunStates, db
    <2> QED BY <1>3, <2>3, <2>4, <2>5 DEF IInv
  <1>12. CASE StartClosed(k)
    <2>1. /\ pc[k] = "start_close"
          /\ pc'[k] = "idle"
          /\ runState = "error"
          /\ runState' = runState
          /\ curRun' = "none"
      BY <1>1, <1>12
         DEF StartClosed, Goto, Park, LockType, ControlInv, RunHeld, CloseRunSession
    <2>2. \A j \in Tasks \ {k} : pc'[j] \notin Locked
      BY <1>5, <2>1 DEF Locked
    <2>3. ControlInv'
      BY <2>1, <2>2 DEF ControlInv, RunHeld, TransientsOwned, SessionHeld, Locked
    <2>4. openRows' \in Nat
      BY <1>1, <1>12 DEF StartClosed, CloseRunSession, EndedRow, DataType, ControlInv, SessionHeld
    <2>5. WorkersInv' /\ DataType' /\ LocType'
      BY <1>1, <1>12, <2>1, <2>4, NoWorkerTouched, GotoLocals DEF StartClosed, DataType
    <2> QED BY <1>3, <2>3, <2>5 DEF IInv
  <1> QED BY <1>6, <1>7, <1>8, <1>9, <1>10, <1>11, <1>12 DEF StartRun

\* OBS comes and goes.
LEMMA ObsKeeps ==
  ASSUME IInv, ObsPublish \/ ObsPublishDone
  PROVE  IInv'
PROOF
  <1>1. LockType /\ LockDiscipline /\ LocType /\ DataType /\ WorkersInv /\ ControlInv
    BY DEF IInv
  <1>2. /\ UNCHANGED <<queue, pc, loc, db, mem>>
        /\ \/ runState \in {"armed", "live"} /\ runState' \in {"armed", "live"}
           \/ runState' = runState
    BY DEF ObsPublish, ObsPublishDone, NotifyObsPublishBegan, NotifyObsPublishEnded
  <1>3. LockType' /\ LockDiscipline' /\ LocType' /\ WorkersInv'
    BY <1>1, <1>2, NoWorkerTouched DEF LockType, LockDiscipline, Holds, LocType, mem
  <1>4. ControlInv'
    BY <1>1, <1>2 DEF ControlInv, RunHeld, TransientsOwned, SessionHeld, db, mem
  <1>5. obs' \in BOOLEAN
    BY DEF ObsPublish, ObsPublishDone
  <1>6. DataType'
    BY <1>1, <1>2, <1>5 DEF DataType, RS!RunStates, db, mem
  <1> QED BY <1>3, <1>4, <1>6 DEF IInv

\* A crash leaves nothing but rows.
LEMMA CrashKeeps ==
  ASSUME IInv, Crash
  PROVE  IInv'
PROOF
  <1>1. LockType' /\ LockDiscipline'
    BY DEF Crash, LockType, LockDiscipline, Pcs, Locked, Waiting
  <1>2. LocType'
    BY NoLocalsType DEF Crash, LocType
  <1>3. DataType'
    BY DEF IInv, Crash, DataType, RS!RunStates
  <1>4. WorkersInv'
    BY DEF Crash, WorkersInv, NoWorkers, NoOrphanSecrets, Running
  <1>5. ControlInv'
    BY DEF Crash, ControlInv, RunHeld, TransientsOwned, SessionHeld
  <1> QED BY <1>1, <1>2, <1>3, <1>4, <1>5 DEF IInv

LEMMA NextInv ==
  ASSUME IInv, [Next]_vars
  PROVE  IInv'
PROOF
  <1>1. ASSUME NEW k \in Tasks, Arrival(k) PROVE IInv'
    BY <1>1, ArrivalKeeps
  <1>2. ASSUME NEW k \in Tasks, Progress(k) PROVE IInv'
    BY <1>2, StartRunKeeps, StopRunKeeps, TargetControlKeeps, HandlerKeeps DEF Progress
  <1>3. CASE ObsPublish \/ ObsPublishDone
    BY <1>3, ObsKeeps
  <1>4. CASE Crash
    BY <1>4, CrashKeeps
  <1>5. CASE UNCHANGED vars
    BY <1>5, NoWorkerTouched
       DEF vars, db, mem, IInv, LockType, LockDiscipline, Holds, LocType, DataType, ControlInv,
           RunHeld, TransientsOwned, SessionHeld
  <1> QED BY <1>1, <1>2, <1>3, <1>4, <1>5 DEF Next

\* The inductive invariant is one.
THEOREM Inductive == Spec => []IInv
BY InitInv, NextInv, PTL DEF Spec

-----------------------------------------------------------------------------
(* What follows from it, whatever users do and whatever fails.             *)

\* Every variable keeps its type.
THEOREM TypeCorrect == Spec => []TypeOK
PROOF
  <1>1. IInv => TypeOK
    BY DEF IInv, LockType, Pcs, LocType, DataType, WorkersInv, Running, TypeOK
  <1> QED BY <1>1, Inductive, PTL

\* The supervisor's lock: one task inside at a time, every exit passes it on.
THEOREM LockWorks == Spec => []LockDiscipline
PROOF
  <1>1. IInv => LockDiscipline
    BY DEF IInv
  <1> QED BY <1>1, Inductive, PTL

\* No _set_run_state of start_run or stop_run is refused.
THEOREM RunMovesAccepted == Spec => []RunMovesLegal
PROOF
  <1>1. ASSUME NEW s \in {"starting", "armed", "live"}
        PROVE  RS!IsLegal(s, "unrecoverable_failed")
    BY RunMoves DEF RS!IsLegal
  <1>2. IInv => RunMovesLegal
    BY <1>1 DEF IInv, ControlInv, RunHeld, RunMovesLegal
  <1> QED BY <1>2, Inductive, PTL

\* unregister leaves no orphan plaintext in CredentialRegistry, even when a stop
\* raises.
THEOREM NoSecretOrphaned == Spec => []NoOrphanSecrets
PROOF
  <1>1. IInv => NoOrphanSecrets
    BY DEF IInv, WorkersInv
  <1> QED BY <1>1, Inductive, PTL

\* A run owns an open session row, and gives it up.
THEOREM SessionsTrackRuns == Spec => []SessionTracksRun
PROOF
  <1>1. ASSUME IInv, queue = << >>, NEW k \in Tasks
        PROVE  pc[k] \notin Locked
    BY <1>1 DEF IInv, LockDiscipline, Holds
  <1>2. IInv => SessionTracksRun
    BY <1>1 DEF IInv, ControlInv, SessionHeld, SessionTracksRun, Locked
  <1> QED BY <1>2, Inductive, PTL

\* Nobody is left in STARTING or STOPPING without the task that put it there.
THEOREM NoTransientAbandoned == Spec => []TransientsOwned
PROOF
  <1>1. IInv => TransientsOwned
    BY DEF IInv, ControlInv
  <1> QED BY <1>1, Inductive, PTL

\* _target_to_workers never names a worker that does not run, whatever fails.
THEOREM NoDanglingIndex == Spec => [](t2w \subseteq Running)
PROOF
  <1>1. IInv => t2w \subseteq Running
    BY DEF IInv, WorkersInv
  <1> QED BY <1>1, Inductive, PTL

-----------------------------------------------------------------------------
(* The refinement of the run state machine.                                *)

\* The moves the supervisor makes are transitions of app/domain/run_state.py.
LEMMA RunStepIs ==
  ASSUME \/ runState = "offline" /\ runState' = "starting"
         \/ runState = "starting" /\ runState' = "armed"
         \/ runState = "armed" /\ runState' = "live"
         \/ runState = "live" /\ runState' = "armed"
         \/ runState \in {"starting", "armed", "live"} /\ runState' \in {"stopping", "error"}
         \/ runState = "stopping" /\ runState' = "offline"
  PROVE  RS!Next
PROOF
  <1> USE DEF RS!Next, RS!Step, RS!RunActions, RS!Transition, RS!Transitions, RS!RunStates
  <1>1. CASE runState = "offline" /\ runState' = "starting"
    <2>1. RS!Step("start_requested")
      BY <1>1
    <2> QED BY <2>1
  <1>2. CASE runState = "starting" /\ runState' = "armed"
    <2>1. RS!Step("workers_spawned")
      BY <1>2
    <2> QED BY <2>1
  <1>3. CASE runState = "armed" /\ runState' = "live"
    <2>1. RS!Step("obs_publish_began")
      BY <1>3
    <2> QED BY <2>1
  <1>4. CASE runState = "live" /\ runState' = "armed"
    <2>1. RS!Step("obs_publish_ended")
      BY <1>4
    <2> QED BY <2>1
  <1>5. CASE runState \in {"starting", "armed", "live"} /\ runState' = "stopping"
    <2>1. RS!Step("stop_requested")
      BY <1>5
    <2> QED BY <2>1
  <1>6. CASE runState \in {"starting", "armed", "live"} /\ runState' = "error"
    <2>1. RS!Step("unrecoverable_failed")
      BY <1>6
    <2> QED BY <2>1
  <1>7. CASE runState = "stopping" /\ runState' = "offline"
    <2>1. RS!Step("workers_drained")
      BY <1>7
    <2> QED BY <2>1
  <1> QED BY <1>1, <1>2, <1>3, <1>4, <1>5, <1>6, <1>7

LEMMA NextRefines ==
  ASSUME IInv, [Next]_vars
  PROVE  Crash \/ [RS!Next]_runState
PROOF
  <1>1. LockType /\ DataType /\ ControlInv
    BY DEF IInv
  <1>2. CASE UNCHANGED vars
    BY <1>2 DEF vars
  <1>3. ASSUME NEW k \in Tasks, Arrival(k) \/ TargetControl(k) \/ Handler(k)
        PROVE  runState' = runState
    BY <1>3
       DEF Arrival, ApiStart, ApiStop, UpdateTarget, SetCredential, ClearCredential, CreateTarget,
           DeleteTarget, TargetControl, EnableWoken, EnableLoaded, EnableSpawned, DisableWoken,
           DisableStopped, Handler, DeleteCall, DeleteRow, Audited
  <1>4. ASSUME NEW k \in Tasks, StartRun(k)
        PROVE  [RS!Next]_runState
    <2>1. CASE StartCall(k) \/ StartWoken(k)
      BY <2>1, RunStepIs DEF StartCall, StartWoken, StartLocked
    <2>2. CASE StartOpened(k) \/ StartLoaded(k) \/ StartAudited(k) \/ StartClosed(k)
      BY <2>2 DEF StartOpened, StartLoaded, StartAudited, StartClosed
    <2>3. CASE StartSpawned(k)
      BY <1>1, <2>3, RunMoves, RunStepIs DEF StartSpawned, ControlInv, RunHeld
    <2>4. CASE StartUndone(k)
      BY <1>1, <2>4, RunMoves, RunStepIs DEF StartUndone, ControlInv, RunHeld
    <2> QED BY <1>4, <2>1, <2>2, <2>3, <2>4 DEF StartRun
  <1>5. ASSUME NEW k \in Tasks, StopRun(k)
        PROVE  [RS!Next]_runState
    <2>1. CASE StopCall(k) \/ StopWoken(k)
      BY <1>1, <2>1, RunMoves, RunStepIs
         DEF StopCall, StopWoken, StopLocked, DataType, RS!RunStates
    <2>2. CASE StopDrained(k) \/ StopWiped(k) \/ StopAudited(k)
      BY <2>2 DEF StopDrained, StopWiped, StopAudited
    <2>3. CASE StopClosed(k)
      BY <1>1, <2>3, RunMoves, RunStepIs DEF StopClosed, ControlInv, RunHeld
    <2> QED BY <1>5, <2>1, <2>2, <2>3 DEF StopRun
  <1>6. CASE ObsPublish \/ ObsPublishDone
    BY <1>6, RunStepIs
       DEF ObsPublish, ObsPublishDone, NotifyObsPublishBegan, NotifyObsPublishEnded
  <1> QED BY <1>2, <1>3, <1>4, <1>5, <1>6 DEF Next, Progress

\* Between crashes every step of the supervisor is a transition of the run state
\* machine, or leaves the run state alone.
THEOREM RefinesBetweenCrashes == Spec => [][Crash \/ RS!Next]_runState
BY Inductive, NextRefines, PTL DEF Spec

\* Where the process does not crash the supervisor implements the run state machine.
THEOREM RefinesRunStateMachine ==
  ASSUME "crash" \notin Faults
  PROVE  Spec => RefinesRunState
PROOF
  <1>1. Init => RS!Init
    BY DEF Init, RS!Init
  <1>2. ASSUME IInv, [Next]_vars PROVE [RS!Next]_runState
    BY <1>2, NextRefines DEF Crash
  <1> QED BY <1>1, <1>2, Inductive, PTL DEF Spec, RefinesRunState, RS!Spec
=============================================================================
