------------------------- MODULE StatusStreamProofs -------------------------
(***************************************************************************)
(* Proofs about StatusStream, for any clients, roles and capacities (a     *)
(* queue being shorter than the bus).  What a dashboard will show in the   *)
(* end is settled by the last frame on its way that carries a field: Says  *)
(* and Silent speak of that for one sequence, Ends for the chain of the    *)
(* bus, the queue, and what is shown or being sent.  IInv says that the    *)
(* bus never ends in a lie (Current), and that the chain of a live         *)
(* connection ends in the truth, or the bus has dropped an event since its *)
(* snapshot and is still full (Truth).                                     *)
(*                                                                         *)
(* The last part shows that the stream implements RunFeed.  What RunFeed   *)
(* has ahead of a connection are the run states of the frames on its way;  *)
(* RunsConcat lets them be taken apart where the frames are (Way): what is *)
(* being sent, the queue, the bus.                                         *)
(***************************************************************************)
EXTENDS StatusStream, SequenceTheorems, FiniteSetTheorems, TLAPS

-----------------------------------------------------------------------------
(* Sequences of frames.                                                    *)

\* No frame of s carries f.
Silent(s, f) == \A i \in 1 .. Len(s) : f \notin DOMAIN s[i]

\* The last frame of s that carries f says x.
Says(s, f, x) ==
  \E i \in 1 .. Len(s) :
    /\ f \in DOMAIN s[i] /\ s[i][f] = x
    /\ \A j \in 1 .. Len(s) : j > i => f \notin DOMAIN s[j]

\* A frame at the end settles what it carries and leaves the rest.
LEMMA AppendSays ==
  ASSUME NEW S, NEW s \in Seq(S), NEW u \in S, NEW f, NEW x
  PROVE  /\ f \in DOMAIN u /\ u[f] = x => Says(Append(s, u), f, x)
         /\ f \notin DOMAIN u /\ Says(s, f, x) => Says(Append(s, u), f, x)
         /\ f \notin DOMAIN u /\ Silent(s, f) => Silent(Append(s, u), f)
PROOF
  <1> DEFINE t == Append(s, u)
             n == Len(s)
  <1>1. /\ n \in Nat /\ Len(t) = n + 1 /\ t[n + 1] = u
        /\ \A i \in 1 .. n : t[i] = s[i]
    BY AppendProperties, LenProperties
  <1> HIDE DEF t
  <1>2. ASSUME f \in DOMAIN u, u[f] = x PROVE Says(t, f, x)
    BY <1>1, <1>2 DEF Says
  <1>3. ASSUME f \notin DOMAIN u, Says(s, f, x) PROVE Says(t, f, x)
    <2>1. PICK i \in 1 .. n :
            /\ f \in DOMAIN s[i] /\ s[i][f] = x
            /\ \A j \in 1 .. n : j > i => f \notin DOMAIN s[j]
      BY <1>3 DEF Says
    <2>2. i \in 1 .. Len(t) /\ f \in DOMAIN t[i] /\ t[i][f] = x
      BY <1>1, <2>1
    <2>3. ASSUME NEW j \in 1 .. Len(t), j > i PROVE f \notin DOMAIN t[j]
      BY <1>1, <1>3, <2>1, <2>3
    <2> QED BY <2>2, <2>3 DEF Says
  <1>4. ASSUME f \notin DOMAIN u, Silent(s, f) PROVE Silent(t, f)
    BY <1>1, <1>4 DEF Silent
  <1> QED BY <1>2, <1>3, <1>4 DEF t

\* What a sequence says, its first frame or the rest of it says.
LEMMA TailSays ==
  ASSUME NEW S, NEW s \in Seq(S), s # << >>, NEW f, NEW x
  PROVE  /\ Says(s, f, x) =>
              \/ Says(Tail(s), f, x)
              \/ Silent(Tail(s), f) /\ f \in DOMAIN Head(s) /\ Head(s)[f] = x
         /\ Silent(s, f) => Silent(Tail(s), f) /\ f \notin DOMAIN Head(s)
PROOF
  <1> DEFINE t == Tail(s)
             n == Len(s)
  <1>1. /\ n \in Nat \ {0} /\ Len(t) = n - 1 /\ Head(s) = s[1]
        /\ \A i \in 1 .. n - 1 : t[i] = s[i + 1]
    BY HeadTailProperties, LenProperties, EmptySeq
  <1> HIDE DEF t
  <1>2. ASSUME Says(s, f, x)
        PROVE  \/ Says(t, f, x)
               \/ Silent(t, f) /\ f \in DOMAIN Head(s) /\ Head(s)[f] = x
    <2>1. PICK i \in 1 .. n :
            /\ f \in DOMAIN s[i] /\ s[i][f] = x
            /\ \A j \in 1 .. n : j > i => f \notin DOMAIN s[j]
      BY <1>2 DEF Says
    <2>2. CASE i = 1
      <3>1. ASSUME NEW j \in 1 .. Len(t) PROVE f \notin DOMAIN t[j]
        <4>1. j + 1 \in 1 .. n /\ j + 1 > i /\ t[j] = s[j + 1]
          BY <1>1, <2>2, <3>1
        <4> QED BY <2>1, <4>1
      <3> QED BY <1>1, <2>1, <2>2, <3>1 DEF Silent
    <2>3. CASE i # 1
      <3>1. i - 1 \in 1 .. Len(t) /\ t[i - 1] = s[i]
        BY <1>1, <2>3
      <3>2. ASSUME NEW j \in 1 .. Len(t), j > i - 1 PROVE f \notin DOMAIN t[j]
        <4>1. j + 1 \in 1 .. n /\ j + 1 > i /\ t[j] = s[j + 1]
          BY <1>1, <3>2
        <4> QED BY <2>1, <4>1
      <3> QED BY <2>1, <3>1, <3>2 DEF Says
    <2> QED BY <2>2, <2>3
  <1>3. ASSUME Silent(s, f) PROVE Silent(t, f) /\ f \notin DOMAIN Head(s)
    <2>1. ASSUME NEW j \in 1 .. Len(t) PROVE f \notin DOMAIN t[j]
      <3>1. j + 1 \in 1 .. n /\ t[j] = s[j + 1]
        BY <1>1, <2>1
      <3> QED BY <1>3, <3>1 DEF Silent
    <2>2. f \notin DOMAIN s[1]
      BY <1>1, <1>3 DEF Silent
    <2> QED BY <1>1, <2>1, <2>2 DEF Silent
  <1> QED BY <1>2, <1>3 DEF t

\* Of two sequences the later one settles what it carries.
LEMMA ConcatSays ==
  ASSUME NEW S, NEW s \in Seq(S), NEW t \in Seq(S), NEW f, NEW x
  PROVE  /\ Says(t, f, x) => Says(s \o t, f, x)
         /\ Silent(t, f) /\ Says(s, f, x) => Says(s \o t, f, x)
         /\ Silent(t, f) /\ Silent(s, f) => Silent(s \o t, f)
PROOF
  <1> DEFINE r == s \o t
             n == Len(s)
             m == Len(t)
  <1>1. /\ n \in Nat /\ m \in Nat /\ Len(r) = n + m
        /\ \A i \in 1 .. n + m : r[i] = IF i <= n THEN s[i] ELSE t[i - n]
    BY ConcatProperties, LenProperties
  <1> HIDE DEF r, n, m
  <1>2. \A i \in 1 .. n : i \in 1 .. Len(r) /\ r[i] = s[i]
    BY <1>1
  <1>3. \A i \in 1 .. m : i + n \in 1 .. Len(r) /\ r[i + n] = t[i]
    <2> TAKE i \in 1 .. m
    <2>1. i + n \in 1 .. n + m /\ ~(i + n <= n) /\ (i + n) - n = i
      BY <1>1
    <2> QED BY <1>1, <2>1
  <1>4. \A j \in 1 .. Len(r) : j \in 1 .. n \/ (j - n \in 1 .. m /\ r[j] = t[j - n])
    BY <1>1
  <1>5. ASSUME Says(t, f, x) PROVE Says(r, f, x)
    <2>1. PICK i \in 1 .. m :
            /\ f \in DOMAIN t[i] /\ t[i][f] = x
            /\ \A j \in 1 .. m : j > i => f \notin DOMAIN t[j]
      BY <1>5 DEF Says, m
    <2>2. ASSUME NEW j \in 1 .. Len(r), j > i + n PROVE f \notin DOMAIN r[j]
      <3>1. j - n \in 1 .. m /\ r[j] = t[j - n] /\ j - n > i
        BY <1>1, <1>4, <2>2
      <3> QED BY <2>1, <3>1
    <2> QED BY <1>3, <2>1, <2>2 DEF Says
  <1>6. ASSUME Silent(t, f), Says(s, f, x) PROVE Says(r, f, x)
    <2>1. PICK i \in 1 .. n :
            /\ f \in DOMAIN s[i] /\ s[i][f] = x
            /\ \A j \in 1 .. n : j > i => f \notin DOMAIN s[j]
      BY <1>6 DEF Says, n
    <2>2. ASSUME NEW j \in 1 .. Len(r), j > i PROVE f \notin DOMAIN r[j]
      BY <1>2, <1>4, <1>6, <2>1, <2>2 DEF Silent, m
    <2> QED BY <1>2, <2>1, <2>2 DEF Says
  <1>7. ASSUME Silent(t, f), Silent(s, f) PROVE Silent(r, f)
    BY <1>2, <1>4, <1>7 DEF Silent, n, m
  <1> QED BY <1>5, <1>6, <1>7 DEF r

-----------------------------------------------------------------------------
(* The inductive invariant.                                                *)

Types ==
  /\ runState \in RS!RunStates /\ snap \in Snaps
  /\ buf \in Seq(Frames) /\ Len(buf) <= BusCapacity
  /\ dropped \in 0 .. MaxDrops /\ alerted \in 0 .. dropped
  /\ notify \in BOOLEAN /\ drainer \in {"waiting", "ready"}

ClientTypes ==
  /\ pc \in [Clients -> {"off", "send", "get"}]
  /\ frame \in [Clients -> Frames] /\ view \in [Clients -> Fulls \cup {Blank}]
  /\ queue \in [Clients -> Seq(Frames)]
  /\ \A c \in Clients : Len(queue[c]) <= QueueCapacity
  /\ overflowed \in [Clients -> BOOLEAN] /\ gone \in [Clients -> BOOLEAN]
  /\ base \in [Clients -> Nat] /\ \A c \in Clients : base[c] <= dropped

\* What c shows once the frame it is being sent has arrived.
Shown(c) == IF pc[c] = "send" THEN Applied(frame[c], view[c]) ELSE view[c]

\* A connection that is off has nothing; one whose peer is there shows a whole
\* snapshot, or is about to.
SnapshotFirst ==
  \A c \in Clients :
    /\ pc[c] = "off" =>
         queue[c] = << >> /\ ~overflowed[c] /\ ~gone[c] /\ view[c] = Blank /\ frame[c] = Blank
    /\ pc[c] # "off" /\ ~gone[c] => Shown(c) \in Fulls

\* A browser that shows v is brought to x by the queue q and then the bus b.
Ends(b, q, v, f, x) ==
  Says(b, f, x) \/ (Silent(b, f) /\ (Says(q, f, x) \/ (Silent(q, f) /\ v[f] = x)))

\* The last word of the bus about a field is true.
Current ==
  /\ Silent(buf, "run") \/ Says(buf, "run", runState)
  /\ snap # NoSnapshots => Silent(buf, "target") \/ Says(buf, "target", TargetView(snap))

Missed(c) == dropped > base[c] /\ Len(buf) = BusCapacity

Truth ==
  \A c \in Clients : Live(c) =>
    \/ Missed(c)
    \/ /\ Ends(buf, queue[c], Shown(c), "run", runState)
       /\ snap # NoSnapshots => Ends(buf, queue[c], Shown(c), "target", TargetView(snap))

IInv ==
  /\ Types
  /\ ClientTypes
  /\ SnapshotFirst
  /\ Current
  /\ Truth

-----------------------------------------------------------------------------
(* Frames.                                                                 *)

TargetViews == {TargetView(s) : s \in Snaps}

\* The frames that are published are frames, and a snapshot is a full one.
LEMMA FramesMade ==
  /\ Blank \in Frames /\ DOMAIN Blank = {} /\ Fulls \subseteq Frames
  /\ \A r \in RS!RunStates : [run |-> r] \in Frames
  /\ \A v \in TargetViews : [target |-> v] \in Frames
  /\ \A n \in 0 .. MaxDrops : [dropped |-> n] \in Frames
  /\ \A r \in RS!RunStates, v \in TargetViews, n \in 0 .. MaxDrops :
       [run |-> r, target |-> v, dropped |-> n] \in Fulls
  /\ \A u \in Fulls : DOMAIN u = Fields
BY DEF Frames, Fulls, Blank, TargetViews, Fields

\* Applying a frame: to a full view gives a full one, and so does applying a full
\* frame to anything.
LEMMA AppliedType ==
  ASSUME NEW u \in Frames, NEW v \in Fulls \cup {Blank}, u \in Fulls \/ v \in Fulls
  PROVE  Applied(u, v) \in Fulls
PROOF
  <1> DEFINE w == Applied(u, v)
  <1>1. DOMAIN w = {"run", "target", "dropped"}
    BY DEF Applied, Frames, Fulls, Blank
  <1>2. /\ w["run"] \in RS!RunStates
        /\ w["target"] \in TargetViews
        /\ w["dropped"] \in 0 .. MaxDrops
    BY DEF Applied, Frames, Fulls, Blank, TargetViews
  <1>3. w = [run |-> w["run"], target |-> w["target"], dropped |-> w["dropped"]]
    BY <1>1 DEF Applied
  <1> HIDE DEF w
  <1>4. w \in Fulls
    BY <1>2, <1>3 DEF Fulls, TargetViews
  <1> QED BY <1>4 DEF w

\* The initial states satisfy the invariant.
LEMMA InitInv ==
  ASSUME Init
  PROVE  IInv
PROOF
  <1> USE StatusStreamAssumption DEF Init
  <1>1. Types
    <2>1. snap \in Snaps
      BY DEF Snaps, NoSnapshots
    <2>2. FirstRun \in RS!RunStates
      BY DEF RS!RunStates
    <2>3. buf \in Seq(Frames) /\ Len(buf) = 0
      BY EmptySeq
    <2>4. Len(buf) <= BusCapacity /\ dropped \in 0 .. MaxDrops /\ alerted \in 0 .. dropped
      BY <2>3
    <2>5. notify \in BOOLEAN /\ drainer \in {"waiting", "ready"}
      OBVIOUS
    <2> QED BY <2>1, <2>2, <2>3, <2>4, <2>5 DEF Types
  <1>2. ClientTypes
    <2>1. << >> \in Seq(Frames) /\ Len(<< >>) = 0
      BY EmptySeq
    <2> QED BY <2>1, FramesMade DEF ClientTypes
  <1>3. SnapshotFirst
    BY DEF SnapshotFirst
  <1>4. Current
    <2>1. Len(<< >>) = 0
      OBVIOUS
    <2> QED BY <2>1 DEF Current, Silent
  <1>5. Truth
    BY DEF Truth, Live
  <1> QED BY <1>1, <1>2, <1>3, <1>4, <1>5 DEF IInv

-----------------------------------------------------------------------------
(* The bus.                                                                *)

\* What a step outside the handlers leaves alone.
Handlers == <<pc, frame, queue, overflowed, gone, view, base>>

\* Something true is put on the bus.
LEMMA PutKeeps ==
  ASSUME IInv, NEW u \in Frames, Put(u), UNCHANGED Handlers, UNCHANGED drainer,
         runState' \in RS!RunStates, snap' \in Snaps, alerted' \in 0 .. dropped,
         \/ "run" \in DOMAIN u /\ u["run"] = runState'
         \/ "run" \notin DOMAIN u /\ runState' = runState,
         \/ "target" \in DOMAIN u /\ u["target"] = TargetView(snap)'
         \/ "target" \notin DOMAIN u /\ snap' = snap
  PROVE  IInv'
PROOF
  <1> USE StatusStreamAssumption
  <1> DEFINE old == IF Len(buf) >= BusCapacity THEN Tail(buf) ELSE buf
  <1>1. buf \in Seq(Frames) /\ Len(buf) \in Nat /\ Len(buf) <= BusCapacity /\ BusCapacity \in Nat \ {0}
    BY LenProperties DEF IInv, Types
  <1>2. /\ buf' = Append(old, u) /\ notify' = TRUE
        /\ dropped' = IF Len(buf) >= BusCapacity THEN dropped + 1 ELSE dropped
        /\ Len(buf) >= BusCapacity => dropped < MaxDrops
    BY DEF Put
  <1>3. /\ old \in Seq(Frames)
        /\ Len(old) = IF Len(buf) >= BusCapacity THEN BusCapacity - 1 ELSE Len(buf)
    <2>1. CASE Len(buf) >= BusCapacity
      <3>1. buf # << >>
        BY <1>1, <2>1, EmptySeq
      <3> QED BY <1>1, <2>1, <3>1, HeadTailProperties
    <2>2. CASE ~(Len(buf) >= BusCapacity)
      BY <1>1, <2>2
    <2> QED BY <2>1, <2>2
  <1>4. \A f, x : /\ Silent(buf, f) => Silent(old, f)
                  /\ Says(buf, f, x) => Says(old, f, x) \/ Silent(old, f)
    <2>1. CASE Len(buf) >= BusCapacity
      <3>1. buf # << >>
        BY <1>1, <2>1, EmptySeq
      <3> QED BY <1>1, <2>1, <3>1, TailSays
    <2>2. CASE ~(Len(buf) >= BusCapacity)
      BY <2>2
    <2> QED BY <2>1, <2>2
  <1> HIDE DEF old
  <1>5. \A f, x : /\ f \in DOMAIN u /\ u[f] = x => Says(buf', f, x)
                  /\ f \notin DOMAIN u /\ Says(old, f, x) => Says(buf', f, x)
                  /\ f \notin DOMAIN u /\ Silent(old, f) => Silent(buf', f)
    BY <1>2, <1>3, AppendSays
  <1>6. /\ buf' \in Seq(Frames) /\ Len(buf') = Len(old) + 1
        /\ Len(buf') <= BusCapacity
        /\ Len(buf) >= BusCapacity => Len(buf') = BusCapacity
    BY <1>1, <1>2, <1>3, AppendProperties
  <1>7. /\ dropped \in 0 .. MaxDrops /\ dropped' \in 0 .. MaxDrops /\ dropped <= dropped'
        /\ Len(buf) >= BusCapacity => dropped' = dropped + 1
        /\ ~(Len(buf) >= BusCapacity) => dropped' = dropped
    BY <1>2 DEF IInv, Types
  <1>8. Types'
    BY <1>2, <1>6, <1>7 DEF IInv, Types
  <1>9. ClientTypes'
    <2>1. \A c \in Clients : base[c] \in Nat /\ base[c] <= dropped'
      BY <1>7 DEF IInv, ClientTypes
    <2> QED BY <2>1 DEF IInv, ClientTypes, Handlers
  <1>10. \A c : Shown(c)' = Shown(c) /\ (Live(c)' <=> Live(c))
    BY DEF Shown, Live, Handlers
  <1>11. SnapshotFirst'
    BY <1>10 DEF IInv, SnapshotFirst, Handlers
  <1>12. Current'
    <2>1. Silent(buf', "run") \/ Says(buf', "run", runState')
      BY <1>4, <1>5 DEF IInv, Current
    <2>2. snap' # NoSnapshots =>
            Silent(buf', "target") \/ Says(buf', "target", TargetView(snap)')
      <3>1. CASE "target" \in DOMAIN u /\ u["target"] = TargetView(snap)'
        BY <1>5, <3>1
      <3>2. CASE "target" \notin DOMAIN u /\ snap' = snap
        <4>1. TargetView(snap)' = TargetView(snap)
          BY <3>2
        <4> QED BY <1>4, <1>5, <3>2, <4>1 DEF IInv, Current
      <3> QED BY <3>1, <3>2
    <2> QED BY <2>1, <2>2 DEF Current
  <1>13. ASSUME NEW c \in Clients, Live(c)
         PROVE  \/ Missed(c)'
                \/ /\ Ends(buf', queue'[c], Shown(c)', "run", runState')
                   /\ snap' # NoSnapshots =>
                        Ends(buf', queue'[c], Shown(c)', "target", TargetView(snap)')
    <2>1. CASE Len(buf) >= BusCapacity
      BY <1>6, <1>7, <2>1 DEF Missed, Handlers, IInv, ClientTypes
    <2>2. CASE ~(Len(buf) >= BusCapacity)
      <3>1. /\ Ends(buf, queue[c], Shown(c), "run", runState)
            /\ snap # NoSnapshots => Ends(buf, queue[c], Shown(c), "target", TargetView(snap))
        BY <1>13, <2>2 DEF IInv, Truth, Missed
      <3>2. old = buf /\ queue'[c] = queue[c] /\ Shown(c)' = Shown(c)
        BY <1>10, <2>2 DEF old, Handlers
      <3>3. Ends(buf', queue'[c], Shown(c)', "run", runState')
        BY <1>5, <3>1, <3>2 DEF Ends
      <3>4. snap' # NoSnapshots => Ends(buf', queue'[c], Shown(c)', "target", TargetView(snap)')
        <4>1. CASE "target" \in DOMAIN u /\ u["target"] = TargetView(snap)'
          BY <1>5, <4>1 DEF Ends
        <4>2. CASE "target" \notin DOMAIN u /\ snap' = snap
          <5>1. TargetView(snap)' = TargetView(snap)
            BY <4>2
          <5> QED BY <1>5, <3>1, <3>2, <4>2, <5>1 DEF Ends
        <4> QED BY <4>1, <4>2
      <3> QED BY <3>3, <3>4
    <2> QED BY <2>1, <2>2
  <1>14. Truth'
    BY <1>10, <1>13 DEF Truth
  <1> QED BY <1>8, <1>9, <1>11, <1>12, <1>14 DEF IInv

\* The supervisor and its loops publish only what is true.
LEMMA PublishKeeps ==
  ASSUME IInv, Publish \/ DropAlertTick \/ HostStatsTick
  PROVE  IInv'
PROOF
  <1> USE StatusStreamAssumption DEF client, Handlers
  <1>1. runState \in RS!RunStates /\ snap \in Snaps /\ dropped \in 0 .. MaxDrops
        /\ alerted \in 0 .. dropped
    BY DEF IInv, Types
  <1>2. CASE PublishRunState
    <2>1. runState' \in RS!RunStates
      BY <1>2 DEF PublishRunState, RS!Transition, RS!Transitions, RS!RunStates
    <2>2. [run |-> runState'] \in Frames
      BY <2>1, FramesMade
    <2>3. /\ "run" \in DOMAIN [run |-> runState'] /\ [run |-> runState']["run"] = runState'
          /\ "target" \notin DOMAIN [run |-> runState']
      OBVIOUS
    <2> QED BY <1>1, <1>2, <2>1, <2>2, <2>3, PutKeeps DEF PublishRunState
  <1>3. ASSUME NEW r \in Roles, NEW s \in RoleStates, HandleWorkerEvent(r, s) PROVE IInv'
    <2>1. snap' \in Snaps
      BY <1>1, <1>3 DEF HandleWorkerEvent, Snaps
    <2>2. [target |-> TargetView(snap')] \in Frames
      BY <2>1, FramesMade DEF TargetViews
    <2>3. /\ "target" \in DOMAIN [target |-> TargetView(snap')]
          /\ [target |-> TargetView(snap')]["target"] = TargetView(snap')
          /\ "run" \notin DOMAIN [target |-> TargetView(snap')]
      OBVIOUS
    <2> QED BY <1>1, <1>3, <2>1, <2>2, <2>3, PutKeeps DEF HandleWorkerEvent
  <1>4. CASE DropAlertTick
    <2>1. [dropped |-> dropped] \in Frames
      BY <1>1, FramesMade
    <2>2. "run" \notin DOMAIN [dropped |-> dropped] /\ "target" \notin DOMAIN [dropped |-> dropped]
      OBVIOUS
    <2>3. alerted' \in 0 .. dropped
      BY <1>1, <1>4 DEF DropAlertTick
    <2> QED BY <1>1, <1>4, <2>1, <2>2, <2>3, PutKeeps DEF DropAlertTick
  <1>5. CASE HostStatsTick
    BY <1>1, <1>5, FramesMade, PutKeeps DEF HostStatsTick
  <1> QED BY <1>2, <1>3, <1>4, <1>5 DEF Publish

\* A target without snapshots promises nothing about its tile.
LEMMA ReplaceKeeps ==
  ASSUME IInv, ReplaceTarget \/ Notify
  PROVE  IInv'
PROOF
  <1>1. /\ UNCHANGED <<runState, alerted, buf, dropped>> /\ UNCHANGED Handlers
        /\ snap' = NoSnapshots \/ snap' = snap
    BY DEF ReplaceTarget, Notify, bus, client, Handlers
  <1>2. Types'
    <2>1. snap' \in Snaps
      BY <1>1 DEF IInv, Types, Snaps, NoSnapshots
    <2>2. notify' \in BOOLEAN /\ drainer' \in {"waiting", "ready"}
      BY DEF ReplaceTarget, Notify, bus, IInv, Types
    <2> QED BY <1>1, <2>1, <2>2 DEF IInv, Types
  <1>3. ClientTypes'
    BY <1>1 DEF IInv, ClientTypes, Handlers
  <1>4. \A c : Shown(c)' = Shown(c) /\ (Live(c)' <=> Live(c)) /\ (Missed(c)' <=> Missed(c))
    BY <1>1 DEF Shown, Live, Missed, Handlers
  <1>5. SnapshotFirst'
    BY <1>1, <1>4 DEF IInv, SnapshotFirst, Handlers
  <1>6. Current' /\ Truth'
    <2>1. CASE snap' = NoSnapshots
      BY <1>1, <1>4, <2>1 DEF IInv, Current, Truth, Handlers
    <2>2. CASE snap' = snap
      <3>1. TargetView(snap)' = TargetView(snap)
        BY <2>2
      <3> QED BY <1>1, <1>4, <2>2, <3>1 DEF IInv, Current, Truth, Handlers
    <2> QED BY <1>1, <2>1, <2>2
  <1> QED BY <1>2, <1>3, <1>5, <1>6 DEF IInv

\* The batch goes to the queues as far as it fits; where it does not fit whole the
\* connection is marked, and a full bus does not fit.
LEMMA BroadcastKeeps ==
  ASSUME IInv, Broadcast
  PROVE  IInv'
PROOF
  <1> USE StatusStreamAssumption
  <1> DEFINE open == {c \in Registered : ~overflowed[c]}
  <1>1. /\ queue' = [c \in Clients |-> IF c \in open THEN queue[c] \o Fitting(c) ELSE queue[c]]
        /\ overflowed' = [c \in Clients |-> overflowed[c] \/ (c \in open /\ Fitting(c) # buf)]
        /\ buf' = << >> /\ drainer' = "waiting"
        /\ UNCHANGED <<runState, snap, alerted, dropped, notify, pc, frame, gone, view, base>>
    BY DEF Broadcast
  <1>2. buf \in Seq(Frames) /\ Len(buf) \in Nat
    BY LenProperties DEF IInv, Types
  <1>3. \A c \in Clients : /\ queue[c] \in Seq(Frames) /\ Len(queue[c]) \in Nat
                           /\ Len(queue[c]) <= QueueCapacity
    BY LenProperties DEF IInv, ClientTypes
  <1>4. ASSUME NEW c \in Clients
        PROVE  /\ Fitting(c) \in Seq(Frames)
               /\ Len(Fitting(c)) \in Nat
               /\ Len(queue[c]) + Len(Fitting(c)) <= QueueCapacity
    <2> DEFINE m == Min({Len(buf), QueueCapacity - Len(queue[c])})
    <2>1. m \in Nat /\ m <= Len(buf) /\ m <= QueueCapacity - Len(queue[c])
      <3> DEFINE d == QueueCapacity - Len(queue[c])
      <3>1. Len(buf) \in Nat /\ d \in Nat
        BY <1>2, <1>3
      <3> HIDE DEF d
      <3>2. \E w \in {Len(buf), d} : \A v \in {Len(buf), d} : w <= v
        BY <3>1
      <3>3. /\ Min({Len(buf), d}) \in {Len(buf), d}
            /\ \A v \in {Len(buf), d} : Min({Len(buf), d}) <= v
        BY <3>2 DEF Min
      <3> QED BY <3>1, <3>3 DEF d
    <2> HIDE DEF m
    <2>2. \A i \in 1 .. m : buf[i] \in Frames
      BY <1>2, <2>1, ElementOfSeq
    <2>3. /\ SubSeq(buf, 1, m) \in Seq(Frames)
          /\ Len(SubSeq(buf, 1, m)) = IF 1 <= m THEN m - 1 + 1 ELSE 0
      BY <2>1, <2>2, SubSeqProperties
    <2>4. Len(SubSeq(buf, 1, m)) = m
      BY <2>1, <2>3
    <2>5. Fitting(c) = SubSeq(buf, 1, m)
      BY DEF Fitting, m
    <2>6. Fitting(c) \in Seq(Frames) /\ Len(Fitting(c)) = m
      BY <2>3, <2>4, <2>5
    <2> QED BY <1>3, <2>1, <2>6
  <1>5. \A c \in Clients : queue'[c] = IF c \in open THEN queue[c] \o Fitting(c) ELSE queue[c]
    BY <1>1
  <1>6. \A c \in Clients : queue'[c] \in Seq(Frames) /\ Len(queue'[c]) <= QueueCapacity
    <2> TAKE c \in Clients
    <2>1. CASE c \in open
      <3>1. /\ queue[c] \o Fitting(c) \in Seq(Frames)
            /\ Len(queue[c] \o Fitting(c)) = Len(queue[c]) + Len(Fitting(c))
        BY <1>3, <1>4, ConcatProperties
      <3> QED BY <1>4, <1>5, <2>1, <3>1
    <2>2. CASE c \notin open
      BY <1>3, <1>5, <2>2
    <2> QED BY <2>1, <2>2
  <1>7. Types'
    BY <1>1, EmptySeq DEF IInv, Types
  <1>8. ClientTypes'
    <2>1. overflowed' \in [Clients -> BOOLEAN]
      <3>1. \A c \in Clients : overflowed'[c] \in BOOLEAN
        BY <1>1
      <3> QED BY <1>1, <3>1
    <2>2. queue' \in [Clients -> Seq(Frames)]
      BY <1>1, <1>6
    <2> QED BY <1>1, <1>6, <2>1, <2>2 DEF IInv, ClientTypes
  <1>9. \A c \in Clients : pc[c] = "off" => queue'[c] = queue[c] /\ ~overflowed'[c]
    BY <1>1, <1>5 DEF Registered, IInv, SnapshotFirst
  <1>10. \A c : Shown(c)' = Shown(c)
    BY <1>1 DEF Shown
  <1>11. SnapshotFirst'
    BY <1>1, <1>9, <1>10 DEF IInv, SnapshotFirst
  <1>12. Len(buf') = 0 /\ \A f : Silent(buf', f)
    BY <1>1 DEF Silent
  <1>13. Current'
    BY <1>12 DEF Current
  <1>14. ASSUME NEW c \in Clients, Live(c)'
         PROVE  /\ Ends(buf', queue'[c], Shown(c)', "run", runState')
                /\ snap' # NoSnapshots => Ends(buf', queue'[c], Shown(c)', "target", TargetView(snap)')
    <2>1. Live(c) /\ c \in open
      BY <1>1, <1>14 DEF Live, Registered
    <2>2. Fitting(c) = buf /\ queue'[c] = queue[c] \o buf
      BY <1>1, <1>5, <1>14, <2>1 DEF Live
    <2>3. ~Missed(c)
      <3>1. Len(buf) <= QueueCapacity
        BY <1>3, <1>4, <2>2
      <3> QED BY <1>2, <3>1 DEF Missed
    <2>4. /\ Ends(buf, queue[c], Shown(c), "run", runState)
          /\ snap # NoSnapshots => Ends(buf, queue[c], Shown(c), "target", TargetView(snap))
      BY <2>1, <2>3 DEF IInv, Truth
    <2>5. \A f, x : Ends(buf, queue[c], Shown(c), f, x) => Ends(buf', queue'[c], Shown(c)', f, x)
      BY <1>2, <1>3, <1>10, <1>12, <2>2, ConcatSays DEF Ends
    <2>6. runState' = runState /\ snap' = snap /\ TargetView(snap)' = TargetView(snap)
      BY <1>1
    <2> QED BY <2>4, <2>5, <2>6
  <1>15. Truth'
    BY <1>14 DEF Truth
  <1> QED BY <1>7, <1>8, <1>11, <1>13, <1>15 DEF IInv

-----------------------------------------------------------------------------
(* The handlers.                                                           *)

\* What a step of the handler of c leaves alone.
Elsewhere(c) ==
  /\ UNCHANGED <<runState, snap, alerted, drainer, bus>>
  /\ \A d \in Clients \ {c} :
       /\ pc'[d] = pc[d] /\ frame'[d] = frame[d] /\ view'[d] = view[d] /\ queue'[d] = queue[d]
       /\ overflowed'[d] = overflowed[d] /\ gone'[d] = gone[d] /\ base'[d] = base[d]

\* A step of one handler keeps the invariant if it does so for its connection.
LEMMA HandlerKeeps ==
  ASSUME IInv, NEW c \in Clients, Elsewhere(c), ClientTypes',
         pc'[c] = "off" =>
           queue'[c] = << >> /\ ~overflowed'[c] /\ ~gone'[c] /\ view'[c] = Blank /\ frame'[c] = Blank,
         pc'[c] # "off" /\ ~gone'[c] => Shown(c)' \in Fulls,
         Live(c)' =>
           \/ Missed(c)'
           \/ /\ Ends(buf, queue'[c], Shown(c)', "run", runState)
              /\ snap # NoSnapshots => Ends(buf, queue'[c], Shown(c)', "target", TargetView(snap))
  PROVE  IInv'
PROOF
  <1>1. UNCHANGED <<runState, snap, alerted, drainer, buf, dropped, notify>>
    BY DEF Elsewhere, bus
  <1>2. Types' /\ Current'
    <2>1. TargetView(snap)' = TargetView(snap)
      BY <1>1
    <2> QED BY <1>1, <2>1 DEF IInv, Types, Current
  <1>3. \A d \in Clients \ {c} :
          Shown(d)' = Shown(d) /\ (Live(d)' <=> Live(d)) /\ (Missed(d)' <=> Missed(d))
    BY <1>1 DEF Elsewhere, Shown, Live, Missed
  <1>4. SnapshotFirst'
    BY <1>3 DEF IInv, SnapshotFirst, Elsewhere
  <1>5. Truth'
    <2>1. ASSUME NEW d \in Clients, Live(d)'
          PROVE  \/ Missed(d)'
                 \/ /\ Ends(buf', queue'[d], Shown(d)', "run", runState')
                    /\ snap' # NoSnapshots =>
                         Ends(buf', queue'[d], Shown(d)', "target", TargetView(snap)')
      <3>1. buf' = buf /\ runState' = runState /\ snap' = snap /\ TargetView(snap)' = TargetView(snap)
        BY <1>1
      <3>2. CASE d = c
        BY <2>1, <3>1, <3>2
      <3>3. CASE d # c
        BY <1>3, <2>1, <3>1, <3>3 DEF IInv, Truth, Elsewhere
      <3> QED BY <3>2, <3>3
    <2> QED BY <2>1 DEF Truth
  <1> QED BY <1>2, <1>4, <1>5 DEF IInv

\* A connection that ends, or breaks, is not live any more.
LEMMA EndKeeps ==
  ASSUME IInv, NEW c \in Clients, End(c), UNCHANGED <<runState, snap, alerted, drainer, bus>>,
         view' = [view EXCEPT ![c] = Blank]
  PROVE  IInv'
PROOF
  <1>1. Elsewhere(c)
    BY DEF End, Elsewhere, IInv, ClientTypes
  <1>2. ClientTypes'
    <2>1. dropped' = dropped /\ dropped \in Nat
      BY StatusStreamAssumption DEF bus, IInv, Types
    <2>2. << >> \in Seq(Frames) /\ Len(<< >>) = 0
      BY EmptySeq
    <2>3. /\ pc' \in [Clients -> {"off", "send", "get"}]
          /\ frame' \in [Clients -> Frames] /\ view' \in [Clients -> Fulls \cup {Blank}]
          /\ queue' \in [Clients -> Seq(Frames)]
          /\ overflowed' \in [Clients -> BOOLEAN] /\ gone' \in [Clients -> BOOLEAN]
          /\ base' \in [Clients -> Nat]
      BY <2>2, FramesMade DEF End, IInv, ClientTypes
    <2>4. \A d \in Clients : Len(queue'[d]) <= QueueCapacity /\ base'[d] <= dropped'
      BY <2>1, <2>2, StatusStreamAssumption DEF End, IInv, ClientTypes
    <2> QED BY <2>3, <2>4 DEF ClientTypes
  <1>3. /\ pc'[c] = "off" /\ queue'[c] = << >> /\ ~overflowed'[c] /\ ~gone'[c]
        /\ view'[c] = Blank /\ frame'[c] = Blank
    BY DEF End, IInv, ClientTypes
  <1> QED BY <1>1, <1>2, <1>3, HandlerKeeps DEF Live

\* The next frame of the queue, if there is one, is on its way as before.
LEMMA ForwardKeeps ==
  ASSUME IInv, NEW c \in Clients, GetOrPark(c), UNCHANGED <<runState, snap, alerted, drainer, bus>>,
         pc[c] # "off",
         view' = [view EXCEPT ![c] = view'[c]], view'[c] \in Fulls \cup {Blank},
         ~gone[c] => view'[c] = Shown(c)
  PROVE  IInv'
PROOF
  <1> DEFINE q == queue[c]
  <1>1. q \in Seq(Frames) /\ Len(q) \in Nat /\ Len(q) <= QueueCapacity
    BY LenProperties DEF IInv, ClientTypes
  <1>2. Elsewhere(c)
    BY DEF GetOrPark, Elsewhere, IInv, ClientTypes
  <1>3. /\ overflowed' = overflowed /\ gone' = gone /\ base' = base /\ dropped' = dropped
        /\ buf' = buf
    BY DEF GetOrPark, bus
  <1>4. \/ /\ q = << >> /\ pc' = [pc EXCEPT ![c] = "get"]
           /\ frame' = [frame EXCEPT ![c] = Blank] /\ queue' = queue
        \/ /\ q # << >> /\ pc' = [pc EXCEPT ![c] = "send"]
           /\ frame' = [frame EXCEPT ![c] = Head(q)] /\ queue' = [queue EXCEPT ![c] = Tail(q)]
    BY DEF GetOrPark
  <1>5. q # << >> => /\ Head(q) \in Frames /\ Tail(q) \in Seq(Frames)
                     /\ Len(Tail(q)) <= QueueCapacity
    <2> HIDE DEF q
    <2>1. ASSUME q # << >>
          PROVE  Head(q) \in Frames /\ Tail(q) \in Seq(Frames) /\ Len(Tail(q)) = Len(q) - 1
      BY <1>1, <2>1, HeadTailProperties
    <2> QED BY <1>1, <2>1, StatusStreamAssumption
  <1> HIDE DEF q
  <1>6. ClientTypes'
    <2>1. /\ pc' \in [Clients -> {"off", "send", "get"}] /\ frame' \in [Clients -> Frames]
          /\ queue' \in [Clients -> Seq(Frames)]
      <3>1. CASE q = << >>
        <4>1. Blank \in Frames
          BY FramesMade
        <4>2. pc' \in [Clients -> {"off", "send", "get"}] /\ queue' \in [Clients -> Seq(Frames)]
          BY <1>4, <3>1 DEF IInv, ClientTypes
        <4>3. frame' \in [Clients -> Frames]
          BY <1>4, <3>1, <4>1 DEF IInv, ClientTypes
        <4> QED BY <4>2, <4>3
      <3>2. CASE q # << >>
        BY <1>4, <1>5, <3>2, ZenonT(40) DEF IInv, ClientTypes
      <3> QED BY <3>1, <3>2
    <2>2. view' \in [Clients -> Fulls \cup {Blank}]
      BY DEF IInv, ClientTypes
    <2>3. \A d \in Clients : Len(queue'[d]) <= QueueCapacity
      BY <1>4, <1>5 DEF IInv, ClientTypes
    <2> QED BY <1>3, <2>1, <2>2, <2>3 DEF IInv, ClientTypes
  <1>7. pc'[c] # "off"
    BY <1>4 DEF IInv, ClientTypes
  <1>8. CASE gone[c]
    BY <1>2, <1>3, <1>6, <1>7, <1>8, HandlerKeeps DEF Live
  <1>9. CASE ~gone[c]
    <2>1. Shown(c) \in Fulls /\ view'[c] = Shown(c)
      BY <1>9 DEF IInv, SnapshotFirst
    <2>2. Shown(c)' = IF q = << >> THEN Shown(c) ELSE Applied(Head(q), Shown(c))
      BY <1>4, <2>1 DEF Shown, IInv, ClientTypes
    <2>3. Shown(c)' \in Fulls
      BY <1>5, <2>1, <2>2, AppliedType
    <2>4. queue'[c] = IF q = << >> THEN << >> ELSE Tail(q)
      BY <1>4 DEF q, IInv, ClientTypes
    <2>5. ASSUME NEW f \in Fields, NEW x, Ends(buf, q, Shown(c), f, x)
          PROVE  Ends(buf, queue'[c], Shown(c)', f, x)
      <3>1. CASE q = << >>
        BY <2>2, <2>4, <2>5, <3>1
      <3>2. CASE q # << >>
        <4>1. f \in DOMAIN Shown(c)
          BY <2>1, FramesMade
        <4>2. /\ f \in DOMAIN Head(q) => Shown(c)'[f] = Head(q)[f]
              /\ f \notin DOMAIN Head(q) => Shown(c)'[f] = Shown(c)[f]
          <5>1. Shown(c)' = Applied(Head(q), Shown(c))
            BY <2>2, <3>2
          <5>2. /\ f \in DOMAIN Head(q) => Applied(Head(q), Shown(c))[f] = Head(q)[f]
                /\ f \notin DOMAIN Head(q) => Applied(Head(q), Shown(c))[f] = Shown(c)[f]
            BY <4>1 DEF Applied
          <5> QED BY <5>1, <5>2
        <4>3. /\ Says(q, f, x) =>
                   \/ Says(Tail(q), f, x)
                   \/ Silent(Tail(q), f) /\ f \in DOMAIN Head(q) /\ Head(q)[f] = x
              /\ Silent(q, f) => Silent(Tail(q), f) /\ f \notin DOMAIN Head(q)
          BY <1>1, <3>2, TailSays, SMTT(20) DEF q
        <4> QED BY <2>4, <2>5, <3>2, <4>2, <4>3 DEF Ends
      <3> QED BY <3>1, <3>2
    <2>6. (Live(c)' => Live(c)) /\ (Missed(c) => Missed(c)')
      BY <1>3, <1>9 DEF Live, Missed
    <2>7. "run" \in Fields /\ "target" \in Fields
      BY DEF Fields
    <2>8. Live(c)' =>
            \/ Missed(c)'
            \/ /\ Ends(buf, queue'[c], Shown(c)', "run", runState)
               /\ snap # NoSnapshots => Ends(buf, queue'[c], Shown(c)', "target", TargetView(snap))
      BY <2>5, <2>6, <2>7 DEF IInv, Truth, q
    <2> QED BY <1>2, <1>6, <1>7, <2>3, <2>8, HandlerKeeps
  <1> QED BY <1>8, <1>9

\* A new connection begins with the truth; what the bus still holds is older, but
\* its last word is true as well.
LEMMA AcceptKeeps ==
  ASSUME IInv, NEW c \in Clients, Accept(c)
  PROVE  IInv'
PROOF
  <1>1. /\ pc[c] = "off" /\ queue[c] = << >> /\ ~overflowed[c] /\ ~gone[c] /\ view[c] = Blank
    BY DEF Accept, IInv, SnapshotFirst
  <1>2. /\ pc' = [pc EXCEPT ![c] = "send"] /\ frame' = [frame EXCEPT ![c] = StateFull]
        /\ base' = [base EXCEPT ![c] = dropped]
        /\ UNCHANGED <<runState, snap, alerted, drainer, bus, queue, overflowed, gone, view>>
    BY DEF Accept
  <1>3. StateFull \in Fulls /\ StateFull \in Frames
    <2>1. runState \in RS!RunStates /\ TargetView(snap) \in TargetViews /\ dropped \in 0 .. MaxDrops
      BY DEF IInv, Types, TargetViews
    <2> QED BY <2>1, FramesMade DEF StateFull
  <1>4. Elsewhere(c)
    BY <1>2 DEF Elsewhere, IInv, ClientTypes
  <1>5. ClientTypes'
    <2>1. pc' \in [Clients -> {"off", "send", "get"}] /\ frame' \in [Clients -> Frames]
      BY <1>2, <1>3 DEF IInv, ClientTypes
    <2>2. dropped' = dropped /\ dropped \in Nat
      BY <1>2, StatusStreamAssumption DEF bus, IInv, Types
    <2>3. base' \in [Clients -> Nat] /\ \A d \in Clients : base'[d] <= dropped'
      BY <1>2, <2>2 DEF IInv, ClientTypes
    <2> QED BY <1>2, <2>1, <2>3 DEF IInv, ClientTypes
  <1>6. pc'[c] = "send" /\ Shown(c)' = Applied(StateFull, Blank) /\ queue'[c] = << >>
    BY <1>1, <1>2 DEF Shown, IInv, ClientTypes
  <1>7. Shown(c)' \in Fulls
    BY <1>3, <1>6, AppliedType
  <1>8. Shown(c)'["run"] = runState /\ Shown(c)'["target"] = TargetView(snap)
    BY <1>6 DEF Applied, StateFull
  <1>9. \A f : Silent(<< >>, f)
    BY DEF Silent
  <1>10. /\ Ends(buf, queue'[c], Shown(c)', "run", runState)
         /\ snap # NoSnapshots => Ends(buf, queue'[c], Shown(c)', "target", TargetView(snap))
    BY <1>6, <1>8, <1>9 DEF IInv, Current, Ends
  <1> QED BY <1>4, <1>5, <1>6, <1>7, <1>10, HandlerKeeps

\* Every step of a handler, and a peer that leaves.
LEMMA HandlersKeep ==
  ASSUME IInv, NEW c \in Clients, Handler(c) \/ Vanish(c)
  PROVE  IInv'
PROOF
  <1>1. /\ view[c] \in Fulls \cup {Blank} /\ view \in [Clients -> Fulls \cup {Blank}]
        /\ pc \in [Clients -> {"off", "send", "get"}]
    BY DEF IInv, ClientTypes
  <1>2. CASE Sent(c)
    <2>1. /\ pc[c] = "send" /\ ~gone[c] /\ Loop(c)
          /\ UNCHANGED <<runState, snap, alerted, drainer, bus>>
          /\ view' = [view EXCEPT ![c] = IF pc'[c] = "off" THEN Blank ELSE Applied(frame[c], view[c])]
      BY <1>2 DEF Sent
    <2>2. CASE overflowed[c]
      <3>1. End(c)
        BY <2>1, <2>2 DEF Loop
      <3>2. pc'[c] = "off"
        BY <1>1, <3>1 DEF End
      <3> QED BY <2>1, <3>1, <3>2, EndKeeps
    <2>3. CASE ~overflowed[c]
      <3>1. GetOrPark(c)
        BY <2>1, <2>3 DEF Loop
      <3>2. pc'[c] # "off"
        BY <1>1, <3>1 DEF GetOrPark
      <3>3. view'[c] = Shown(c) /\ view' = [view EXCEPT ![c] = view'[c]]
        BY <1>1, <2>1, <3>2 DEF Shown
      <3>4. Shown(c) \in Fulls
        BY <2>1 DEF IInv, SnapshotFirst
      <3> QED BY <2>1, <3>1, <3>3, <3>4, ForwardKeeps
    <2> QED BY <2>2, <2>3
  <1>3. CASE SendFailed(c)
    <2>1. /\ pc[c] = "send" /\ gone[c] /\ (End(c) \/ Loop(c))
          /\ UNCHANGED <<runState, snap, alerted, drainer, bus>>
          /\ view' = [view EXCEPT ![c] = IF pc'[c] = "off" THEN Blank ELSE view[c]]
      BY <1>3 DEF SendFailed
    <2>2. CASE End(c)
      <3>1. pc'[c] = "off"
        BY <1>1, <2>2 DEF End
      <3> QED BY <2>1, <2>2, <3>1, EndKeeps
    <2>3. CASE GetOrPark(c)
      <3>1. pc'[c] # "off"
        BY <1>1, <2>3 DEF GetOrPark
      <3>2. view'[c] = view[c] /\ view' = [view EXCEPT ![c] = view'[c]]
        BY <1>1, <2>1, <3>1
      <3>3. view'[c] \in Fulls \cup {Blank}
        BY <1>1, <3>2
      <3>4. pc[c] # "off" /\ gone[c]
        BY <2>1
      <3> QED BY <2>1, <2>3, <3>2, <3>3, <3>4, ForwardKeeps
    <2> QED BY <2>1, <2>2, <2>3 DEF Loop
  <1>4. CASE Got(c)
    <2>1. /\ pc[c] = "get" /\ GetOrPark(c)
          /\ UNCHANGED <<runState, snap, alerted, drainer, bus>> /\ view' = view
      BY <1>4 DEF Got
    <2>2. view'[c] = Shown(c) /\ view' = [view EXCEPT ![c] = view'[c]]
      BY <1>1, <2>1 DEF Shown
    <2> QED BY <1>1, <2>1, <2>2, ForwardKeeps
  <1>5. CASE Vanish(c)
    <2>1. /\ pc[c] # "off" /\ gone' = [gone EXCEPT ![c] = TRUE]
          /\ UNCHANGED <<runState, snap, alerted, drainer, bus, pc, frame, queue, overflowed, view, base>>
      BY <1>5 DEF Vanish
    <2>2. Elsewhere(c) /\ gone'[c] /\ pc'[c] # "off"
      BY <2>1 DEF Elsewhere, IInv, ClientTypes
    <2>3. ClientTypes'
      <3>1. gone' \in [Clients -> BOOLEAN]
        BY <2>1 DEF IInv, ClientTypes
      <3> QED BY <2>1, <3>1 DEF bus, IInv, ClientTypes
    <2> QED BY <2>2, <2>3, HandlerKeeps DEF Live
  <1> QED BY <1>2, <1>3, <1>4, <1>5 DEF Handler

\* Every step keeps the invariant.
LEMMA NextInv ==
  ASSUME IInv, [Next]_vars
  PROVE  IInv'
PROOF
  <1>1. CASE UNCHANGED vars
    <2>1. /\ UNCHANGED <<runState, snap, alerted, drainer, buf, dropped, notify>>
          /\ UNCHANGED Handlers
      BY <1>1 DEF vars, bus, client, Handlers
    <2>2. Types' /\ ClientTypes'
      BY <2>1 DEF Handlers, IInv, Types, ClientTypes
    <2>3. /\ \A c : Shown(c)' = Shown(c) /\ (Live(c)' <=> Live(c)) /\ (Missed(c)' <=> Missed(c))
          /\ TargetView(snap)' = TargetView(snap)
      BY <2>1 DEF Shown, Live, Missed, Handlers
    <2>4. SnapshotFirst' /\ Current' /\ Truth'
      BY <2>1, <2>3 DEF Handlers, IInv, SnapshotFirst, Current, Truth
    <2> QED BY <2>2, <2>4 DEF IInv
  <1> QED
    BY <1>1, PublishKeeps, ReplaceKeeps, BroadcastKeeps, AcceptKeeps, HandlersKeep DEF Next

\* The inductive invariant is one.
THEOREM Inductive == Spec => []IInv
BY InitInv, NextInv, PTL DEF Spec

-----------------------------------------------------------------------------
\* Every buffer stays within its capacity, and every frame is well formed.
THEOREM TypeCorrect == Spec => []TypeOK
PROOF
  <1>1. ASSUME IInv PROVE TypeOK
    <2> USE StatusStreamAssumption
    <2>1. /\ runState \in RS!RunStates /\ snap \in Snaps
          /\ Len(buf) <= BusCapacity /\ buf \in Seq(Frames)
          /\ dropped \in 0 .. MaxDrops /\ alerted \in 0 .. dropped
          /\ notify \in BOOLEAN /\ drainer \in {"waiting", "ready"}
      BY <1>1 DEF IInv, Types
    <2>2. \A q \in Seq(Frames) : Range(q) \subseteq Frames
      BY ElementOfSeq, LenProperties DEF Range
    <2>3. ASSUME NEW c \in Clients
          PROVE  /\ pc[c] \in {"off", "send", "get"}
                 /\ frame[c] \in Frames /\ view[c] \in Fulls \cup {Blank}
                 /\ Len(queue[c]) <= QueueCapacity /\ queue[c] \in Seq(Frames)
                 /\ overflowed[c] \in BOOLEAN /\ gone[c] \in BOOLEAN
                 /\ base[c] \in 0 .. dropped
      BY <1>1, <2>1 DEF IInv, ClientTypes
    <2> QED BY <2>1, <2>2, <2>3 DEF TypeOK
  <1> QED BY <1>1, Inductive, PTL

\* Where the chain of a connection ends is what it finally shows.
LEMMA EndsFinally ==
  ASSUME IInv, NEW c \in Clients, Live(c), NEW f \in Fields, NEW x,
         Ends(buf, queue[c], Shown(c), f, x)
  PROVE  Finally(c, f) = x
PROOF
  <1> DEFINE front == IF pc[c] = "send" THEN <<frame[c]>> ELSE << >>
             s == OnTheWay(c)
             I == {i \in DOMAIN s : f \in DOMAIN s[i]}
  <1>1. buf \in Seq(Frames) /\ queue[c] \in Seq(Frames) /\ frame[c] \in Frames
    BY DEF IInv, Types, ClientTypes
  <1>2. front \in Seq(Frames)
    BY <1>1, EmptySeq
  <1>3. s = (front \o queue[c]) \o buf
    BY DEF OnTheWay, Live
  <1>4. Shown(c) \in Fulls /\ f \in DOMAIN Shown(c)
    BY FramesMade DEF Live, IInv, SnapshotFirst
  <1>5. \/ Says(front, f, x)
        \/ Silent(front, f) /\ view[c][f] = x
        \/ ~(Shown(c)[f] = x)
    <2>1. CASE pc[c] = "send"
      <3>1. front = <<frame[c]>> /\ Len(<<frame[c]>>) = 1 /\ <<frame[c]>>[1] = frame[c]
        BY <2>1
      <3>2. Shown(c) = Applied(frame[c], view[c])
        BY <2>1 DEF Shown
      <3>3. CASE f \in DOMAIN frame[c]
        <4>1. Shown(c)[f] = frame[c][f]
          BY <3>2, <3>3 DEF Applied
        <4>2. ASSUME Shown(c)[f] = x
              PROVE  Says(<<frame[c]>>, f, x)
          <5> DEFINE t == <<frame[c]>>
          <5>1. Len(t) = 1 /\ t[1] = frame[c]
            BY <3>1
          <5> HIDE DEF t
          <5>2. /\ 1 \in 1 .. Len(t) /\ f \in DOMAIN t[1] /\ t[1][f] = x
                /\ \A j \in 1 .. Len(t) : j > 1 => f \notin DOMAIN t[j]
            <6>1. f \in DOMAIN t[1] /\ t[1][f] = x
              BY <3>3, <4>1, <4>2, <5>1, Zenon
            <6>2. 1 \in 1 .. Len(t) /\ \A j \in 1 .. Len(t) : ~(j > 1)
              BY <5>1
            <6> QED BY <6>1, <6>2, Zenon
          <5>3. Says(t, f, x)
            BY <5>2 DEF Says
          <5> QED BY <5>3 DEF t
        <4> QED BY <3>1, <4>2
      <3>4. CASE f \notin DOMAIN frame[c]
        <4>1. Shown(c)[f] = view[c][f]
          BY <1>4, <3>2, <3>4 DEF Applied
        <4>2. Silent(<<frame[c]>>, f)
          BY <3>1, <3>4 DEF Silent
        <4> QED BY <3>1, <4>1, <4>2
      <3> QED BY <3>3, <3>4
    <2>2. CASE pc[c] # "send"
      <3>1. Silent(front, f)
        BY <2>2 DEF Silent
      <3> QED BY <2>2, <3>1 DEF Shown
    <2> QED BY <2>1, <2>2
  <1> HIDE DEF front, s
  <1>6. Says(s, f, x) \/ (Silent(s, f) /\ view[c][f] = x)
    <2>1. front \o queue[c] \in Seq(Frames)
      BY <1>1, <1>2, ConcatProperties
    <2>2. CASE Says(buf, f, x)
      BY <1>1, <1>3, <2>1, <2>2, ConcatSays
    <2>3. CASE Silent(buf, f) /\ Says(queue[c], f, x)
      <3>1. Says(front \o queue[c], f, x)
        BY <1>1, <1>2, <2>3, ConcatSays
      <3> QED BY <1>1, <1>3, <2>1, <2>3, <3>1, ConcatSays
    <2>4. CASE Silent(buf, f) /\ Silent(queue[c], f) /\ Shown(c)[f] = x
      <3>1. \/ Says(front \o queue[c], f, x)
            \/ Silent(front \o queue[c], f) /\ view[c][f] = x
        BY <1>1, <1>2, <1>5, <2>4, ConcatSays
      <3> QED BY <1>1, <1>3, <2>1, <2>4, <3>1, ConcatSays
    <2> QED BY <2>2, <2>3, <2>4 DEF Ends
  <1>7. s \in Seq(Frames)
    BY <1>1, <1>2, <1>3, ConcatProperties
  <1>8. DOMAIN s = 1 .. Len(s) /\ Len(s) \in Nat
    BY <1>7, LenProperties
  <1>9. Finally(c, f) = IF I = {} THEN view[c][f] ELSE s[Max(I)][f]
    BY DEF Finally, s
  <1>10. CASE Says(s, f, x)
    <2>1. PICK i \in 1 .. Len(s) :
            /\ f \in DOMAIN s[i] /\ s[i][f] = x
            /\ \A j \in 1 .. Len(s) : j > i => f \notin DOMAIN s[j]
      BY <1>10 DEF Says
    <2>2. i \in I /\ I \subseteq Nat /\ \A j \in I : i >= j
      BY <1>8, <2>1
    <2> HIDE DEF I
    <2>3. Max(I) = i
      <3>1. Max(I) \in I /\ \A j \in I : Max(I) >= j
        BY <2>2 DEF Max
      <3>2. Max(I) \in Nat /\ i \in Nat /\ i >= Max(I) /\ Max(I) >= i
        BY <2>2, <3>1
      <3> QED BY <3>2
    <2> QED BY <1>9, <2>1, <2>2, <2>3
  <1>11. CASE Silent(s, f) /\ view[c][f] = x
    BY <1>8, <1>9, <1>11 DEF Silent
  <1> QED BY <1>6, <1>10, <1>11

\* A dashboard converges to the truth, or the bus has dropped an event since its
\* snapshot and is still full.
THEOREM TruthIsOnTheWay == Spec => []TruthOrDrop
PROOF
  <1>1. ASSUME IInv PROVE TruthOrDrop
    <2>1. "run" \in Fields /\ "target" \in Fields
      BY DEF Fields
    <2> QED BY <1>1, <2>1, EndsFinally DEF TruthOrDrop, IInv, Truth, Missed
  <1> QED BY <1>1, Inductive, PTL

-----------------------------------------------------------------------------
(* The run states in a sequence of frames.                                 *)

\* The places of T, moved by n.
Behind(n, T) == {n + j : j \in T}

\* Two sets of places, one moved behind the other, are counted together.
LEMMA CountBehind ==
  ASSUME NEW n \in Nat, NEW m \in Nat, NEW A \in SUBSET (1 .. n), NEW B \in SUBSET (1 .. m)
  PROVE  Cardinality(A \cup Behind(n, B)) = Cardinality(A) + Cardinality(B)
PROOF
  <1> DEFINE C == Behind(n, B)
             f == [j \in B |-> n + j]
  <1>1. IsFiniteSet(A) /\ IsFiniteSet(B)
    <2>1. IsFiniteSet(1 .. n) /\ IsFiniteSet(1 .. m)
      BY FS_Interval
    <2>2. A \in SUBSET (1 .. n) /\ B \in SUBSET (1 .. m)
      OBVIOUS
    <2> QED BY <2>1, <2>2, FS_Subset
  <1>2. f \in Bijection(B, C)
    <2>1. f \in [B -> C]
      BY DEF Behind
    <2>2. \A i, j \in B : f[i] = f[j] => i = j
      OBVIOUS
    <2>3. \A k \in C : \E j \in B : f[j] = k
      BY DEF Behind
    <2> QED BY <2>1, <2>2, <2>3 DEF Bijection, Injection, IsInjective, Surjection
  <1>3. IsFiniteSet(C) /\ Cardinality(C) = Cardinality(B)
    BY <1>1, <1>2, FS_Bijection DEF ExistsBijection
  <1>4. A \cap C = {}
    BY DEF Behind
  <1>5. Cardinality(A \cup C) = Cardinality(A) + Cardinality(C) - Cardinality({})
    BY <1>1, <1>3, <1>4, FS_Union
  <1>6. Cardinality(A) \in Nat /\ Cardinality(B) \in Nat /\ Cardinality({}) = 0
    BY <1>1, FS_CardinalityType, FS_EmptySet
  <1> HIDE DEF C
  <1>7. Cardinality(A \cup C) = Cardinality(A) + Cardinality(B)
    BY <1>3, <1>5, <1>6
  <1> QED BY <1>7 DEF C

\* Carriers are counted up from the first to the last.
LEMMA RankType ==
  ASSUME NEW s \in Seq(Frames)
  PROVE  /\ Carriers(s) \subseteq 1 .. Len(s)
         /\ IsFiniteSet(Carriers(s)) /\ Cardinality(Carriers(s)) \in Nat
         /\ \A i \in Carriers(s) : Rank(s, i) \in 1 .. Cardinality(Carriers(s))
         /\ \A i, j \in Carriers(s) : i < j => Rank(s, i) < Rank(s, j)
PROOF
  <1> DEFINE C == Carriers(s)
  <1>1. C \subseteq 1 .. Len(s) /\ Len(s) \in Nat
    BY LenProperties DEF Carriers
  <1>2. IsFiniteSet(C) /\ Cardinality(C) \in Nat
    <2>1. IsFiniteSet(1 .. Len(s)) /\ C \in SUBSET (1 .. Len(s))
      BY <1>1, FS_Interval
    <2> QED BY <2>1, FS_Subset, FS_CardinalityType
  <1> HIDE DEF C
  <1>3. \A i : /\ IsFiniteSet(C \cap 1 .. i)
               /\ Cardinality(C \cap 1 .. i) \in Nat
               /\ Cardinality(C \cap 1 .. i) <= Cardinality(C)
    <2> TAKE i
    <2>1. C \cap 1 .. i \in SUBSET C
      OBVIOUS
    <2> QED BY <1>2, <2>1, FS_Subset, FS_CardinalityType
  <1>4. ASSUME NEW i \in C PROVE Rank(s, i) \in 1 .. Cardinality(C)
    <2>1. i \in C \cap 1 .. i
      BY <1>1
    <2> DEFINE D == C \cap 1 .. i
    <2>2. IsFiniteSet(D) /\ Cardinality(D) \in Nat /\ Cardinality(D) <= Cardinality(C)
      BY <1>3
    <2>3. Rank(s, i) = Cardinality(D) /\ D # {}
      BY <2>1 DEF Rank, C
    <2> HIDE DEF D
    <2>4. Cardinality(D) # 0
      BY <2>2, <2>3, FS_EmptySet
    <2> QED BY <1>2, <2>2, <2>3, <2>4
  <1>5. ASSUME NEW i \in C, NEW j \in C, i < j PROVE Rank(s, i) < Rank(s, j)
    <2> DEFINE B == C \cap 1 .. i
               D == C \cap 1 .. j
    <2>1. IsFiniteSet(D) /\ Cardinality(D) \in Nat /\ Cardinality(B) \in Nat
      BY <1>3
    <2>2. j \in D /\ B \in SUBSET (D \ {j})
      BY <1>1, <1>5
    <2>3. Rank(s, i) = Cardinality(B) /\ Rank(s, j) = Cardinality(D)
      BY DEF Rank, C
    <2> HIDE DEF B, D
    <2>4. IsFiniteSet(D \ {j}) /\ Cardinality(D \ {j}) = Cardinality(D) - 1
      BY <2>1, <2>2, FS_RemoveElement
    <2>5. Cardinality(B) <= Cardinality(D \ {j})
      BY <2>2, <2>4, FS_Subset
    <2> QED BY <2>1, <2>3, <2>4, <2>5
  <1> QED BY <1>1, <1>2, <1>4, <1>5 DEF C

\* Every rank up to the number of carriers is that of exactly one of them, whose run
\* state RunsOf has there.
LEMMA RunsAt ==
  ASSUME NEW s \in Seq(Frames)
  PROVE  /\ RunsOf(s) \in Seq(RS!RunStates) /\ Len(RunsOf(s)) = Cardinality(Carriers(s))
         /\ \A k \in 1 .. Cardinality(Carriers(s)) : \E i \in Carriers(s) : Rank(s, i) = k
         /\ \A i \in Carriers(s) : RunsOf(s)[Rank(s, i)] = s[i]["run"]
PROOF
  <1> DEFINE C == Carriers(s)
             N == Cardinality(C)
             f == [i \in C |-> Rank(s, i)]
             place(k) == CHOOSE i \in C : Rank(s, i) = k
  <1>1. /\ C \subseteq 1 .. Len(s) /\ IsFiniteSet(C) /\ N \in Nat
        /\ \A i \in C : Rank(s, i) \in 1 .. N
        /\ \A i, j \in C : i < j => Rank(s, i) < Rank(s, j)
    BY RankType
  <1>2. \A i \in C : i \in Nat /\ Rank(s, i) \in Nat
    BY <1>1
  <1>3. \A i, j \in C : Rank(s, i) = Rank(s, j) => i = j
    <2> SUFFICES ASSUME NEW i \in C, NEW j \in C, i < j PROVE Rank(s, i) # Rank(s, j)
      BY <1>2
    <2> QED BY <1>1, <1>2
  <1>4. f \in Injection(C, 1 .. N)
    BY <1>1, <1>3 DEF Injection, IsInjective
  <1>5. IsFiniteSet(1 .. N) /\ Cardinality(1 .. N) = N
    <2>1. \A n \in Nat : Cardinality(1 .. n) = n
      BY FS_Interval
    <2> QED BY <1>1, <2>1, FS_Interval
  <1>6. f \in Surjection(C, 1 .. N)
    BY <1>4, <1>5, FS_Injection
  <1>7. \A k \in 1 .. N : \E i \in C : Rank(s, i) = k
    BY <1>6 DEF Surjection
  <1>8. \A i \in C : place(Rank(s, i)) = i
    BY <1>3
  <1>9. \A i \in C : s[i]["run"] \in RS!RunStates
    <2> TAKE i \in C
    <2>1. s[i] \in Frames /\ "run" \in DOMAIN s[i]
      BY <1>1, ElementOfSeq DEF C, Carriers
    <2> QED BY <2>1 DEF Frames, Fulls, Blank
  <1>10. RunsOf(s) = [k \in 1 .. N |-> s[place(k)]["run"]]
    BY DEF RunsOf
  <1>11. \A k \in 1 .. N : place(k) \in C
    BY <1>7
  <1> HIDE DEF place, N, C
  <1>12. \A k \in 1 .. N : s[place(k)]["run"] \in RS!RunStates
    BY <1>9, <1>11
  <1>13. RunsOf(s) \in Seq(RS!RunStates) /\ Len(RunsOf(s)) = N
    BY <1>1, <1>10, <1>12, IsASeq
  <1>14. \A i \in C : RunsOf(s)[Rank(s, i)] = s[i]["run"]
    BY <1>1, <1>8, <1>10
  <1> QED BY <1>7, <1>13, <1>14 DEF C, N

\* The run states of two sequences one after the other.
LEMMA RunsConcat ==
  ASSUME NEW s \in Seq(Frames), NEW t \in Seq(Frames)
  PROVE  RunsOf(s \o t) = RunsOf(s) \o RunsOf(t)
PROOF
  <1> DEFINE r == s \o t
             n == Len(s)
             m == Len(t)
             S == Carriers(s)
             T == Carriers(t)
             R == Carriers(r)
             M == Cardinality(S)
             N == Cardinality(T)
  <1>1. /\ r \in Seq(Frames) /\ n \in Nat /\ m \in Nat /\ Len(r) = n + m
        /\ \A i \in 1 .. n + m : r[i] = IF i <= n THEN s[i] ELSE t[i - n]
    BY ConcatProperties, LenProperties
  <1>2. S \subseteq 1 .. n /\ T \subseteq 1 .. m /\ R \subseteq 1 .. n + m /\ M \in Nat /\ N \in Nat
    BY <1>1, RankType
  <1>3. \A i \in 1 .. n : r[i] = s[i] /\ (i \in R <=> i \in S)
    <2> TAKE i \in 1 .. n
    <2>1. i \in 1 .. n + m /\ r[i] = s[i]
      BY <1>1
    <2> QED BY <1>1, <2>1 DEF Carriers
  <1>4. \A j \in 1 .. m : r[n + j] = t[j] /\ (n + j \in R <=> j \in T)
    <2> TAKE j \in 1 .. m
    <2>1. n + j \in 1 .. n + m /\ ~(n + j <= n) /\ (n + j) - n = j
      BY <1>1
    <2>2. r[n + j] = t[j]
      BY <1>1, <2>1
    <2> QED BY <1>1, <2>1, <2>2 DEF Carriers
  <1> HIDE DEF r, n, m, S, T, R
  <1>5. R = S \cup Behind(n, T)
    <2>1. ASSUME NEW i \in R PROVE i \in S \cup Behind(n, T)
      <3>1. CASE i <= n
        <4>1. i \in 1 .. n
          BY <1>1, <1>2, <2>1, <3>1
        <4> QED BY <1>3, <2>1, <4>1
      <3>2. CASE ~(i <= n)
        <4>1. i - n \in 1 .. m /\ n + (i - n) = i
          BY <1>1, <1>2, <2>1, <3>2
        <4>2. i - n \in T
          BY <1>4, <2>1, <4>1
        <4> QED BY <4>1, <4>2 DEF Behind
      <3> QED BY <3>1, <3>2
    <2>2. S \subseteq R
      BY <1>2, <1>3
    <2>3. \A j \in T : n + j \in R
      BY <1>2, <1>4
    <2> QED BY <2>1, <2>2, <2>3 DEF Behind
  <1>6. Cardinality(R) = M + N
    <2>1. n \in Nat /\ m \in Nat /\ S \in SUBSET (1 .. n) /\ T \in SUBSET (1 .. m)
      BY <1>1, <1>2
    <2> HIDE DEF M, N
    <2>2. Cardinality(S \cup Behind(n, T)) = Cardinality(S) + Cardinality(T)
      BY <2>1, CountBehind, ZenonT(40)
    <2> QED BY <1>5, <2>2 DEF M, N
  <1>7. \A i \in S : i \in R /\ Rank(r, i) = Rank(s, i)
    <2> TAKE i \in S
    <2>1. R \cap 1 .. i = S \cap 1 .. i
      <3>1. \A k \in 1 .. i : k \in 1 .. n
        BY <1>1, <1>2
      <3> QED BY <1>3, <3>1
    <2> QED BY <1>5, <2>1 DEF Rank, R, S
  <1>8. \A j \in T : n + j \in R /\ Rank(r, n + j) = M + Rank(t, j)
    <2> TAKE j \in T
    <2> DEFINE U == T \cap 1 .. j
    <2>1. R \cap 1 .. n + j = S \cup Behind(n, U)
      <3>1. \A i \in S : i \in 1 .. n + j
        BY <1>1, <1>2
      <3>2. \A k \in T : k \in 1 .. j <=> n + k \in 1 .. n + j
        BY <1>1, <1>2
      <3> QED BY <1>5, <3>1, <3>2 DEF Behind
    <2>2. U \in SUBSET (1 .. m)
      BY <1>2
    <2>3. Rank(r, n + j) = Cardinality(R \cap 1 .. n + j) /\ Rank(t, j) = Cardinality(U)
      BY DEF Rank, R, T
    <2> HIDE DEF U
    <2>4. Cardinality(S \cup Behind(n, U)) = M + Cardinality(U)
      <3>1. n \in Nat /\ m \in Nat /\ S \in SUBSET (1 .. n)
        BY <1>1, <1>2
      <3> QED BY <2>2, <3>1, CountBehind, ZenonT(40)
    <2>5. n + j \in R
      BY <1>5 DEF Behind
    <2> QED BY <2>1, <2>3, <2>4, <2>5
  <1> DEFINE a == RunsOf(s)
             b == RunsOf(t)
             c == RunsOf(r)
  <1>9. /\ a \in Seq(RS!RunStates) /\ Len(a) = M
        /\ \A k \in 1 .. M : \E i \in S : Rank(s, i) = k
        /\ \A i \in S : a[Rank(s, i)] = s[i]["run"]
    BY RunsAt DEF S
  <1>10. /\ b \in Seq(RS!RunStates) /\ Len(b) = N
         /\ \A k \in 1 .. N : \E i \in T : Rank(t, i) = k
         /\ \A i \in T : b[Rank(t, i)] = t[i]["run"]
    BY RunsAt DEF T
  <1>11. /\ c \in Seq(RS!RunStates) /\ Len(c) = M + N
         /\ \A i \in R : c[Rank(r, i)] = r[i]["run"]
    BY <1>1, <1>6, RunsAt DEF R
  <1> HIDE DEF a, b, c, M, N
  <1>12. /\ a \o b \in Seq(RS!RunStates) /\ Len(a \o b) = M + N
         /\ \A k \in 1 .. M + N : (a \o b)[k] = IF k <= M THEN a[k] ELSE b[k - M]
    BY <1>9, <1>10, ConcatProperties
  <1>13. ASSUME NEW k \in 1 .. M + N PROVE c[k] = (a \o b)[k]
    <2>1. CASE k <= M
      <3>1. k \in 1 .. M
        BY <1>2, <2>1
      <3>2. PICK i \in S : Rank(s, i) = k
        BY <1>9, <3>1
      <3>3. c[k] = r[i]["run"] /\ a[k] = s[i]["run"]
        BY <1>7, <1>9, <1>11, <3>2
      <3>4. r[i] = s[i]
        BY <1>2, <1>3
      <3> QED BY <1>12, <2>1, <3>3, <3>4
    <2>2. CASE ~(k <= M)
      <3>1. k - M \in 1 .. N /\ M + (k - M) = k
        BY <1>2, <2>2
      <3>2. PICK j \in T : Rank(t, j) = k - M
        BY <1>10, <3>1
      <3>3. c[k] = r[n + j]["run"] /\ b[k - M] = t[j]["run"]
        BY <1>8, <1>10, <1>11, <3>1, <3>2
      <3>4. r[n + j] = t[j]
        BY <1>2, <1>4
      <3> QED BY <1>12, <2>2, <3>3, <3>4
    <2> QED BY <2>1, <2>2
  <1>14. c = a \o b
    BY <1>11, <1>12, <1>13, SeqEqual
  <1> QED BY <1>14 DEF a, b, c, r

\* ... of none and of one frame.
LEMMA RunsOne ==
  /\ RunsOf(<< >>) = << >>
  /\ \A u \in Frames : RunsOf(<<u>>) = IF "run" \in DOMAIN u THEN <<u["run"]>> ELSE << >>
PROOF
  <1>1. ASSUME NEW s \in Seq(Frames), Carriers(s) = {} PROVE RunsOf(s) = << >>
    <2>1. RunsOf(s) \in Seq(RS!RunStates) /\ Len(RunsOf(s)) = 0
      BY <1>1, RunsAt, FS_EmptySet
    <2> QED BY <2>1, EmptySeq
  <1>2. RunsOf(<< >>) = << >>
    <2>1. << >> \in Seq(Frames) /\ Carriers(<< >>) = {}
      BY EmptySeq DEF Carriers
    <2> QED BY <1>1, <2>1
  <1>3. ASSUME NEW u \in Frames
        PROVE  RunsOf(<<u>>) = IF "run" \in DOMAIN u THEN <<u["run"]>> ELSE << >>
    <2>1. <<u>> \in Seq(Frames) /\ DOMAIN <<u>> = {1} /\ <<u>>[1] = u
      OBVIOUS
    <2>2. CASE "run" \notin DOMAIN u
      BY <1>1, <2>1, <2>2 DEF Carriers
    <2>3. CASE "run" \in DOMAIN u
      <3>1. Carriers(<<u>>) = {1} /\ Carriers(<<u>>) \cap 1 .. 1 = {1}
        BY <2>1, <2>3 DEF Carriers
      <3>2. Cardinality(Carriers(<<u>>)) = 1 /\ Rank(<<u>>, 1) = 1
        BY <3>1, FS_Singleton DEF Rank
      <3>3. /\ RunsOf(<<u>>) \in Seq(RS!RunStates) /\ Len(RunsOf(<<u>>)) = 1
            /\ RunsOf(<<u>>)[1] = u["run"]
        BY <2>1, <3>1, <3>2, RunsAt
      <3> QED BY <2>3, <3>3
    <2> QED BY <2>2, <2>3
  <1> QED BY <1>2, <1>3

\* A silent sequence has none, and the last one is what the sequence says.
LEMMA RunsSaid ==
  ASSUME NEW s \in Seq(Frames)
  PROVE  /\ Silent(s, "run") => RunsOf(s) = << >>
         /\ \A x : Says(s, "run", x) => RunsOf(s) # << >> /\ Last(RunsOf(s)) = x
PROOF
  <1> DEFINE C == Carriers(s)
             N == Cardinality(C)
  <1>1. /\ RunsOf(s) \in Seq(RS!RunStates) /\ Len(RunsOf(s)) = N
        /\ \A i \in C : RunsOf(s)[Rank(s, i)] = s[i]["run"]
    BY RunsAt
  <1>2. C \subseteq 1 .. Len(s) /\ Len(s) \in Nat /\ DOMAIN s = 1 .. Len(s)
    BY RankType, LenProperties
  <1>3. ASSUME Silent(s, "run") PROVE RunsOf(s) = << >>
    <2>1. C = {}
      BY <1>2, <1>3 DEF Silent, Carriers
    <2>2. N = 0
      BY <2>1, FS_EmptySet
    <2> HIDE DEF N
    <2> QED BY <1>1, <2>2, EmptySeq
  <1>4. ASSUME NEW x, Says(s, "run", x) PROVE RunsOf(s) # << >> /\ Last(RunsOf(s)) = x
    <2>1. PICK i \in 1 .. Len(s) :
            /\ "run" \in DOMAIN s[i] /\ s[i]["run"] = x
            /\ \A j \in 1 .. Len(s) : j > i => "run" \notin DOMAIN s[j]
      BY <1>4 DEF Says
    <2>2. i \in C
      BY <1>2, <2>1 DEF Carriers
    <2>3. C \cap 1 .. i = C
      BY <1>2, <2>1 DEF Carriers
    <2>4. Rank(s, i) = N /\ N \in 1 .. N
      BY <2>2, <2>3, RankType DEF Rank
    <2> HIDE DEF N
    <2>5. RunsOf(s)[N] = x
      BY <1>1, <2>1, <2>2, <2>4
    <2> QED BY <1>1, <2>4, <2>5, EmptySeq DEF Last
  <1> QED BY <1>3, <1>4

-----------------------------------------------------------------------------
(* Sequences, as RunFeed speaks of them.                                   *)

\* The element behind x goes.
LEMMA RemoveBehind ==
  ASSUME NEW S, NEW x \in Seq(S), NEW y \in Seq(S), NEW e \in S
  PROVE  LET s == x \o (<<e>> \o y)
         IN  \E i \in 1 .. Len(s) : Feed!RemoveAt(s, i) = x \o y
PROOF
  <1> DEFINE z == <<e>> \o y
             s == x \o z
             n == Len(x)
             m == Len(y)
  <1>1. n \in Nat /\ m \in Nat
    BY LenProperties
  <1>2. /\ z \in Seq(S) /\ Len(z) = m + 1
        /\ \A i \in 1 .. m + 1 : z[i] = IF i <= 1 THEN e ELSE y[i - 1]
    <2>1. <<e>> \in Seq(S) /\ Len(<<e>>) = 1 /\ <<e>>[1] = e
      OBVIOUS
    <2>2. /\ z \in Seq(S) /\ Len(z) = 1 + m
          /\ \A i \in 1 .. 1 + m : z[i] = IF i <= 1 THEN <<e>>[i] ELSE y[i - 1]
      BY <2>1, ConcatProperties
    <2> QED BY <1>1, <2>1, <2>2
  <1> HIDE DEF z
  <1>3. /\ s \in Seq(S) /\ Len(s) = n + (m + 1)
        /\ \A i \in 1 .. n + (m + 1) : s[i] = IF i <= n THEN x[i] ELSE z[i - n]
    <2>1. /\ s \in Seq(S) /\ Len(s) = Len(x) + Len(z)
          /\ \A i \in 1 .. Len(x) + Len(z) : s[i] = IF i <= Len(x) THEN x[i] ELSE z[i - Len(x)]
      BY <1>2, ConcatProperties
    <2> HIDE DEF s
    <2> QED BY <1>2, <2>1
  <1> HIDE DEF s, n, m
  <1>4. SubSeq(s, 1, n) = x
    <2>1. \A i \in 1 .. n : s[i] \in S /\ s[i] = x[i]
      BY <1>1, <1>3, ElementOfSeq DEF n
    <2>2. /\ SubSeq(s, 1, n) \in Seq(S)
          /\ Len(SubSeq(s, 1, n)) = IF 1 <= n THEN n - 1 + 1 ELSE 0
          /\ \A i \in 1 .. n - 1 + 1 : SubSeq(s, 1, n)[i] = s[1 + i - 1]
      BY <1>1, <2>1, SubSeqProperties
    <2>3. Len(SubSeq(s, 1, n)) = n /\ \A i \in 1 .. n : SubSeq(s, 1, n)[i] = x[i]
      BY <1>1, <2>1, <2>2
    <2> QED BY <2>2, <2>3, SeqEqual DEF n
  <1>5. SubSeq(s, n + 2, Len(s)) = y
    <2>1. \A i \in 1 .. m : s[n + 1 + i] = y[i] /\ y[i] \in S
      <3> TAKE i \in 1 .. m
      <3>1. /\ n + 1 + i \in 1 .. n + (m + 1) /\ ~(n + 1 + i <= n) /\ (n + 1 + i) - n = i + 1
            /\ i + 1 \in 1 .. m + 1 /\ ~(i + 1 <= 1) /\ (i + 1) - 1 = i
        BY <1>1
      <3>2. s[n + 1 + i] = z[i + 1]
        BY <1>3, <3>1
      <3>3. z[i + 1] = y[i]
        BY <1>2, <3>1
      <3> QED BY <3>2, <3>3, ElementOfSeq DEF m
    <2>2. \A i \in n + 2 .. n + (m + 1) : s[i] \in S
      <3> TAKE i \in n + 2 .. n + (m + 1)
      <3>1. i - (n + 1) \in 1 .. m /\ n + 1 + (i - (n + 1)) = i
        BY <1>1
      <3> QED BY <2>1, <3>1
    <2> DEFINE w == SubSeq(s, n + 2, n + (m + 1))
    <2>3. /\ w \in Seq(S)
          /\ Len(w) = IF n + 2 <= n + (m + 1) THEN n + (m + 1) - (n + 2) + 1 ELSE 0
          /\ \A i \in 1 .. n + (m + 1) - (n + 2) + 1 : w[i] = s[n + 2 + i - 1]
      BY <1>1, <2>2, SubSeqProperties
    <2> HIDE DEF w
    <2>4. Len(w) = m
      BY <1>1, <2>3
    <2>5. \A i \in 1 .. m : w[i] = y[i]
      <3> TAKE i \in 1 .. m
      <3>1. n + (m + 1) - (n + 2) + 1 = m /\ n + 2 + i - 1 = n + 1 + i
        BY <1>1
      <3> QED BY <2>1, <2>3, <3>1
    <2>6. w = y
      BY <2>3, <2>4, <2>5, SeqEqual DEF m
    <2> QED BY <1>3, <2>6 DEF w
  <1>6. n + 1 \in 1 .. Len(s) /\ (n + 1) - 1 = n /\ (n + 1) + 1 = n + 2
    BY <1>1, <1>3
  <1>7. Feed!RemoveAt(s, n + 1) = x \o y
    BY <1>4, <1>5, <1>6 DEF Feed!RemoveAt
  <1> QED BY <1>6, <1>7 DEF s, z

\* What comes first is a prefix.
LEMMA PrefixOfConcat ==
  ASSUME NEW S, NEW x \in Seq(S), NEW y \in Seq(S)
  PROVE  Feed!IsPrefix(x, x \o y) /\ Feed!IsPrefix(<< >>, x)
PROOF
  <1>1. Len(x) \in Nat /\ Len(y) \in Nat /\ Len(x \o y) = Len(x) + Len(y)
    BY LenProperties, ConcatProperties
  <1>2. SubSeq(x, 1, Len(x)) = SubSeq(x \o y, 1, Len(x))
    <2>1. CASE Len(x) = 0
      BY <2>1, SubSeqEmpty
    <2>2. CASE Len(x) # 0
      <3>1. 1 \in 1 .. Len(x) /\ Len(x) \in 1 .. Len(x)
        BY <1>1, <2>2
      <3> QED BY <3>1, SubSeqOfConcat1
    <2> QED BY <2>1, <2>2
  <1>3. Len(<< >>) = 0 /\ SubSeq(<< >>, 1, 0) = SubSeq(x, 1, 0)
    BY SubSeqEmpty
  <1> QED BY <1>1, <1>2, <1>3 DEF Feed!IsPrefix

-----------------------------------------------------------------------------
(* The refinement of RunFeed.                                              *)

\* The run states on their way to c: being sent, in its queue, on the bus.
Sending(c) == IF pc[c] = "send" THEN RunsOf(<<frame[c]>>) ELSE << >>
OnBus(c)   == IF pc[c] = "off" \/ overflowed[c] THEN << >> ELSE RunsOf(buf)
Way(c)     == IF gone[c] THEN << >> ELSE (Sending(c) \o RunsOf(queue[c])) \o OnBus(c)

Ways ==
  /\ Ahead = [c \in Clients |-> Way(c)]
  /\ RunsOf(buf) \in Seq(RS!RunStates)
  /\ \A c \in Clients : /\ Sending(c) \in Seq(RS!RunStates) /\ OnBus(c) \in Seq(RS!RunStates)
                         /\ RunsOf(queue[c]) \in Seq(RS!RunStates)
                         /\ Way(c) \in Seq(RS!RunStates)

LEMMA AheadIsWay ==
  ASSUME IInv
  PROVE  Ways
PROOF
  <1> DEFINE Q == Seq(RS!RunStates)
  <1>1. buf \in Seq(Frames) /\ << >> \in Seq(Frames) /\ << >> \in Q
    BY EmptySeq DEF IInv, Types
  <1>2. \A s \in Seq(Frames) : RunsOf(s) \in Q
    BY RunsAt
  <1>3. ASSUME NEW c \in Clients
        PROVE  /\ Sending(c) \in Q /\ OnBus(c) \in Q /\ RunsOf(queue[c]) \in Q /\ Way(c) \in Q
               /\ Ahead[c] = Way(c)
    <2>1. queue[c] \in Seq(Frames) /\ frame[c] \in Frames
      BY DEF IInv, ClientTypes
    <2> DEFINE a == IF pc[c] = "send" THEN <<frame[c]>> ELSE << >>
               b == IF pc[c] = "off" \/ overflowed[c] THEN << >> ELSE buf
    <2>2. a \in Seq(Frames) /\ b \in Seq(Frames)
      BY <1>1, <2>1
    <2>3. RunsOf(a) = Sending(c) /\ RunsOf(b) = OnBus(c)
      BY RunsOne DEF Sending, OnBus
    <2>4. OnTheWay(c) = a \o queue[c] \o b
      BY DEF OnTheWay
    <2> HIDE DEF a, b
    <2>5. a \o queue[c] \in Seq(Frames)
      BY <2>1, <2>2, ConcatProperties
    <2>6. RunsOf(OnTheWay(c)) = (Sending(c) \o RunsOf(queue[c])) \o OnBus(c)
      BY <2>1, <2>2, <2>3, <2>4, <2>5, RunsConcat
    <2>7. Sending(c) \in Q /\ OnBus(c) \in Q /\ RunsOf(queue[c]) \in Q
      BY <1>2, <2>1, <2>2, <2>3
    <2>8. Sending(c) \o RunsOf(queue[c]) \in Q
      BY <2>7, ConcatProperties
    <2>9. (Sending(c) \o RunsOf(queue[c])) \o OnBus(c) \in Q
      BY <2>7, <2>8, ConcatProperties
    <2> QED BY <1>1, <2>6, <2>7, <2>9 DEF Way, Ahead
  <1>4. Ahead = [c \in Clients |-> Way(c)]
    BY <1>3 DEF Ahead
  <1> QED BY <1>1, <1>2, <1>3, <1>4 DEF Ways

\* The table moves the run elsewhere or not at all.
LEMMA MovesElsewhere == \A s, a : s \notin RS!Transition(s, a)
BY DEF RS!Transition, RS!Transitions

\* A frame is put on the bus: RunFeed sees a new run state, a loss, or nothing.
LEMMA PutShows ==
  ASSUME IInv, Ways, Ways', NEW u \in Frames, Put(u), UNCHANGED Handlers,
         \/ "run" \in DOMAIN u /\ u["run"] = runState' /\ runState' # runState
         \/ "run" \notin DOMAIN u /\ runState' = runState
  PROVE  [Feed!Next]_(Feed!vars)
PROOF
  <1> DEFINE Q == Seq(RS!RunStates)
             full == Len(buf) >= BusCapacity
             old == IF full THEN Tail(buf) ELSE buf
             more == IF runState' # runState THEN <<runState'>> ELSE << >>
             H(c) == Sending(c) \o RunsOf(queue[c])
             takes(c) == ~gone[c] /\ pc[c] # "off" /\ ~overflowed[c]
  <1>1. /\ buf \in Seq(Frames) /\ Len(buf) \in Nat
        /\ full => buf # << >> /\ dropped' = dropped + 1
        /\ ~full => dropped' = dropped
        /\ buf' = Append(old, u)
    <2>1. buf \in Seq(Frames) /\ Len(buf) \in Nat
      BY LenProperties DEF IInv, Types
    <2>2. full => Len(buf) > 0
      BY <2>1, StatusStreamAssumption
    <2>3. full => buf # << >>
      BY <2>1, <2>2, EmptySeq
    <2> QED BY <2>1, <2>3 DEF Put
  <1>2. old \in Seq(Frames)
    BY <1>1, HeadTailProperties
  <1>3. RunsOf(<<u>>) = more /\ more \in Q
    <2>1. RunsOf(<<u>>) = more
      BY RunsOne
    <2>2. <<u>> \in Seq(Frames)
      OBVIOUS
    <2> QED BY <2>1, <2>2, RunsAt
  <1>4. RunsOf(buf') = RunsOf(old) \o more /\ RunsOf(old) \in Q
    <2>1. buf' = old \o <<u>> /\ <<u>> \in Seq(Frames)
      BY <1>1, <1>2, AppendIsConcat
    <2> QED BY <1>2, <1>3, <2>1, RunsConcat, RunsAt
  <1>5. Phase' = Phase /\ Display' = Display
    BY DEF Phase, Display, Live, Handlers
  <1>6. \A c \in Clients : Phase[c] = "live" <=> takes(c)
    BY DEF Phase, Live
  <1>7. \A c \in Clients : Ahead[c] = Way(c) /\ Ahead'[c] = Way(c)'
    BY DEF Ways
  <1>8. \A c \in Clients : H(c) \in Q
    BY ConcatProperties DEF Ways
  <1>9. \A c \in Clients : takes(c) => /\ Ahead[c] = H(c) \o RunsOf(buf)
                                     /\ Ahead'[c] = H(c) \o (RunsOf(old) \o more)
    BY <1>4, <1>7 DEF Way, Sending, OnBus, Handlers
  <1>10. \A c \in Clients : ~takes(c) => Ahead'[c] = Ahead[c]
    BY <1>7 DEF Way, Sending, OnBus, Handlers
  <1>11. \A x, y, z \in Q : (x \o y) \o z = x \o (y \o z)
    BY ConcatAssociative
  <1>12. \A x, y \in Q : \A e \in RS!RunStates :
           \E i \in 1 .. Len(x \o (<<e>> \o y)) :
             Feed!RemoveAt(x \o (<<e>> \o y), i) = x \o y
    BY RemoveBehind
  <1> HIDE DEF more, old, H, takes, full, Q
  <1>13. CASE ~full
    <2>1. old = buf /\ dropped' = dropped
      BY <1>1, <1>13 DEF old
    <2>2. \A c \in Clients : takes(c) => Ahead'[c] = Ahead[c] \o more
      <3> SUFFICES ASSUME NEW c \in Clients, takes(c) PROVE Ahead'[c] = Ahead[c] \o more
        OBVIOUS
      <3>1. (H(c) \o RunsOf(old)) \o more = H(c) \o (RunsOf(old) \o more)
        BY <1>3, <1>4, <1>8, <1>11
      <3> QED BY <1>9, <2>1, <3>1
    <2>3. CASE runState' # runState
      <3>1. more = <<runState'>> /\ runState' \in RS!RunStates
        BY <1>3, <2>3, ElementOfSeq DEF more, Q
      <3>2. \A c \in Clients : takes(c) => Ahead'[c] = Append(Ahead[c], runState')
        BY <1>7, <2>2, <3>1, AppendIsConcat DEF Ways
      <3>3. Ahead' = [c \in Clients |->
                        IF Phase[c] = "live" THEN Append(Ahead[c], runState') ELSE Ahead[c]]
        BY <1>6, <1>10, <3>2 DEF Ways
      <3>4. Feed!Move
        BY <1>5, <2>1, <2>3, <3>3 DEF Feed!Move
      <3> QED BY <3>4 DEF Feed!Next
    <2>4. CASE runState' = runState
      <3>1. more = << >>
        BY <2>4 DEF more
      <3>2. \A c \in Clients : Ahead[c] \o << >> = Ahead[c]
        BY <1>7, ConcatEmptySeq DEF Ways
      <3>3. \A c \in Clients : Ahead'[c] = Ahead[c]
        BY <1>10, <2>2, <3>1, <3>2
      <3>4. Ahead' = Ahead
        BY <3>3 DEF Ways
      <3> QED BY <1>5, <2>1, <2>4, <3>4 DEF Feed!vars
    <2> QED BY <2>3, <2>4
  <1>14. CASE full
    <2> DEFINE h == Head(buf)
    <2>1. /\ old = Tail(buf) /\ dropped' = dropped + 1 /\ h \in Frames
          /\ <<h>> \in Seq(Frames) /\ buf = <<h>> \o old
      <3>1. buf # << >> /\ old = Tail(buf) /\ dropped' = dropped + 1
        BY <1>1, <1>14 DEF old
      <3>2. h \in Frames
        BY <1>1, <3>1, HeadTailProperties
      <3>3. buf = <<h>> \o Tail(buf)
        BY <1>1, <3>1
      <3> QED BY <3>1, <3>2, <3>3
    <2> HIDE DEF h
    <2>2. RunsOf(buf) = RunsOf(<<h>>) \o RunsOf(old)
      BY <1>2, <2>1, RunsConcat
    <2>3. ASSUME NEW c \in Clients, takes(c)
          PROVE  \/ Ahead'[c] = Ahead[c] \o more
                 \/ \E i \in 1 .. Len(Ahead[c]) : Ahead'[c] = Feed!RemoveAt(Ahead[c], i) \o more
      <3>1. Ahead'[c] = (H(c) \o RunsOf(old)) \o more
        <4>1. (H(c) \o RunsOf(old)) \o more = H(c) \o (RunsOf(old) \o more)
          BY <1>3, <1>4, <1>8, <1>11
        <4> QED BY <1>9, <2>3, <4>1
      <3>2. CASE "run" \notin DOMAIN h
        <4>1. RunsOf(buf) = RunsOf(old)
          BY <1>4, <2>1, <2>2, <3>2, RunsOne, ConcatEmptySeq DEF Q
        <4> QED BY <1>9, <2>3, <3>1, <4>1
      <3>3. CASE "run" \in DOMAIN h
        <4>1. RunsOf(<<h>>) = <<h["run"]>> /\ RunsOf(<<h>>) \in Q
          BY <2>1, <3>3, RunsOne, RunsAt DEF Q
        <4>2. h["run"] \in RS!RunStates
          BY <4>1, ElementOfSeq, SMTT(20) DEF Q
        <4>3. Ahead[c] = H(c) \o (<<h["run"]>> \o RunsOf(old))
          BY <1>9, <2>2, <2>3, <4>1
        <4>4. \E i \in 1 .. Len(Ahead[c]) : Feed!RemoveAt(Ahead[c], i) = H(c) \o RunsOf(old)
          <5> DEFINE r == h["run"]
                     x == H(c)
                     y == RunsOf(old)
          <5>1. x \in Q /\ y \in Q /\ r \in RS!RunStates /\ Ahead[c] = x \o (<<r>> \o y)
            BY <1>4, <1>8, <4>2, <4>3
          <5> HIDE DEF r, x, y
          <5>2. \E i \in 1 .. Len(x \o (<<r>> \o y)) : Feed!RemoveAt(x \o (<<r>> \o y), i) = x \o y
            BY <1>12, <5>1
          <5> QED BY <5>1, <5>2 DEF x, y
        <4> QED BY <3>1, <4>4
      <3> QED BY <3>2, <3>3
    <2>4. Feed!Lose
      BY <1>5, <1>6, <1>10, <2>1, <2>3 DEF Feed!Lose, more
    <2> QED BY <2>4 DEF Feed!Next
  <1> QED BY <1>13, <1>14

\* Whatever is published, by the supervisor or its loops.
LEMMA PublishShows ==
  ASSUME IInv, Ways, Ways', Publish \/ DropAlertTick \/ HostStatsTick
  PROVE  [Feed!Next]_(Feed!vars)
PROOF
  <1> USE StatusStreamAssumption DEF client, Handlers
  <1>1. runState \in RS!RunStates /\ snap \in Snaps /\ dropped \in 0 .. MaxDrops
    BY DEF IInv, Types
  <1>2. CASE PublishRunState
    <2>1. runState' \in RS!RunStates /\ runState' # runState
      BY <1>2, MovesElsewhere DEF PublishRunState, RS!Transition
    <2>2. [run |-> runState'] \in Frames
      BY <2>1, FramesMade
    <2> QED BY <1>2, <2>1, <2>2, PutShows DEF PublishRunState
  <1>3. ASSUME NEW r \in Roles, NEW s \in RoleStates, HandleWorkerEvent(r, s)
        PROVE  [Feed!Next]_(Feed!vars)
    <2>1. snap' \in Snaps
      BY <1>1, <1>3 DEF HandleWorkerEvent, Snaps
    <2>2. [target |-> TargetView(snap')] \in Frames
      BY <2>1, FramesMade DEF TargetViews
    <2>3. "run" \notin DOMAIN [target |-> TargetView(snap')]
      OBVIOUS
    <2> QED BY <1>3, <2>2, <2>3, PutShows DEF HandleWorkerEvent
  <1>4. CASE DropAlertTick
    <2>1. [dropped |-> dropped] \in Frames
      BY <1>1, FramesMade
    <2>2. "run" \notin DOMAIN [dropped |-> dropped]
      OBVIOUS
    <2> QED BY <1>4, <2>1, <2>2, PutShows DEF DropAlertTick
  <1>5. CASE HostStatsTick
    BY <1>5, FramesMade, PutShows DEF HostStatsTick
  <1> QED BY <1>2, <1>3, <1>4, <1>5 DEF Publish

\* A batch moves from the bus to the queues; where it does not fit whole, the
\* connection is cut.
LEMMA BroadcastShows ==
  ASSUME IInv, Ways, Ways', Broadcast
  PROVE  Feed!Cut
PROOF
  <1> DEFINE Q == Seq(RS!RunStates)
  <1>1. /\ queue' = [c \in Clients |->
                       IF c \in {d \in Registered : ~overflowed[d]}
                       THEN queue[c] \o Fitting(c) ELSE queue[c]]
        /\ overflowed' = [c \in Clients |->
              overflowed[c] \/ (c \in {d \in Registered : ~overflowed[d]} /\ Fitting(c) # buf)]
        /\ buf' = << >>
        /\ UNCHANGED <<runState, dropped, pc, frame, gone, view>>
    BY DEF Broadcast
  <1>2. Display' = Display /\ \A c : Sending(c)' = Sending(c)
    BY <1>1 DEF Display, Sending
  <1>3. \A c \in Clients : Ahead[c] = Way(c) /\ Ahead'[c] = Way(c)'
    BY DEF Ways
  <1>4. \A c \in Clients : OnBus(c)' = << >>
    BY <1>1, RunsOne DEF OnBus
  <1>5. ASSUME NEW c \in Clients
        PROVE  \/ Phase'[c] = Phase[c] /\ Ahead'[c] = Ahead[c]
               \/ Phase[c] # "off" /\ Phase'[c] = "cut" /\ Feed!IsPrefix(Ahead'[c], Ahead[c])
    <2>1. CASE pc[c] = "off" \/ overflowed[c]
      <3>1. queue'[c] = queue[c] /\ overflowed'[c] = overflowed[c] /\ OnBus(c) = << >>
        BY <1>1, <2>1 DEF Registered, OnBus, IInv, ClientTypes
      <3>2. Way(c)' = Way(c)
        BY <1>1, <1>2, <1>4, <3>1 DEF Way
      <3>3. Phase'[c] = Phase[c]
        BY <1>1, <3>1 DEF Phase, Live
      <3> QED BY <1>3, <3>2, <3>3
    <2>2. CASE pc[c] # "off" /\ ~overflowed[c] /\ gone[c]
      BY <1>1, <1>3, <2>2 DEF Way, Phase, Live
    <2>3. CASE pc[c] # "off" /\ ~overflowed[c] /\ ~gone[c]
      <3> DEFINE a == Sending(c)
                 b == RunsOf(queue[c])
                 e == RunsOf(Fitting(c))
                 m == Min({Len(buf), QueueCapacity - Len(queue[c])})
                 rest == SubSeq(buf, m + 1, Len(buf))
                 r == RunsOf(rest)
      <3>1. queue'[c] = queue[c] \o Fitting(c) /\ overflowed'[c] = (Fitting(c) # buf)
        BY <1>1, <2>3 DEF Registered
      <3>2. /\ buf \in Seq(Frames) /\ Len(buf) \in Nat
            /\ queue[c] \in Seq(Frames) /\ QueueCapacity - Len(queue[c]) \in Nat
        BY LenProperties, StatusStreamAssumption DEF IInv, Types, ClientTypes
      <3>3. m \in Nat /\ m <= Len(buf)
        <4> DEFINE d == QueueCapacity - Len(queue[c])
        <4>1. Len(buf) \in Nat /\ d \in Nat
          BY <3>2
        <4> HIDE DEF d
        <4>2. \E w \in {Len(buf), d} : \A v \in {Len(buf), d} : w <= v
          BY <4>1
        <4>3. /\ Min({Len(buf), d}) \in {Len(buf), d}
              /\ \A v \in {Len(buf), d} : Min({Len(buf), d}) <= v
          BY <4>2 DEF Min
        <4> QED BY <4>1, <4>3 DEF d
      <3>4. Fitting(c) = SubSeq(buf, 1, m)
        BY DEF Fitting
      <3> HIDE DEF m
      <3>5. /\ Fitting(c) \in Seq(Frames) /\ rest \in Seq(Frames)
            /\ buf = Fitting(c) \o rest
        <4>1. /\ \A i \in 1 .. m : buf[i] \in Frames
              /\ \A i \in m + 1 .. Len(buf) : buf[i] \in Frames
          BY <3>2, <3>3, ElementOfSeq
        <4>2. SubSeq(buf, 1, m) \in Seq(Frames) /\ rest \in Seq(Frames)
          BY <3>2, <3>3, <4>1, SubSeqProperties
        <4>3. SubSeq(buf, 1, m) \o rest = SubSeq(buf, 1, Len(buf))
          <5>1. 1 \in 1 .. Len(buf) + 1 /\ m \in 1 - 1 .. Len(buf) /\ Len(buf) \in m .. Len(buf)
            BY <3>2, <3>3
          <5> QED BY <3>2, <5>1, ConcatAdjacentSubSeq
        <4>4. SubSeq(buf, 1, Len(buf)) = buf
          BY <3>2, SubSeqFull
        <4> QED BY <3>4, <4>2, <4>3, <4>4
      <3> HIDE DEF rest
      <3>6. RunsOf(buf) = e \o r /\ RunsOf(queue'[c]) = b \o e
        BY <3>1, <3>2, <3>5, RunsConcat
      <3>7. a \in Q /\ b \in Q /\ e \in Q /\ r \in Q
        BY <3>5, RunsAt DEF Ways
      <3>8. Ahead[c] = (a \o b) \o (e \o r)
        BY <1>3, <2>3, <3>6 DEF Way, OnBus
      <3>9. Ahead'[c] = (a \o (b \o e)) \o << >>
        BY <1>1, <1>2, <1>3, <1>4, <2>3, <3>6 DEF Way
      <3> HIDE DEF a, b, e, r
      <3>10. /\ a \o b \in Q /\ b \o e \in Q /\ a \o (b \o e) \in Q
             /\ (a \o b) \o e = a \o (b \o e)
             /\ ((a \o b) \o e) \o r = (a \o b) \o (e \o r)
        <4>1. a \o b \in Q /\ b \o e \in Q
          BY <3>7, ConcatProperties
        <4>2. a \o (b \o e) \in Q
          BY <3>7, <4>1, ConcatProperties
        <4>3. \A x, y, z \in Q : (x \o y) \o z = x \o (y \o z)
          BY ConcatAssociative
        <4> HIDE DEF Q
        <4>4. (a \o b) \o e = a \o (b \o e)
          BY <3>7, <4>3
        <4>5. ((a \o b) \o e) \o r = (a \o b) \o (e \o r)
          <5> DEFINE w == a \o b
          <5>1. w \in Q
            BY <4>1
          <5> HIDE DEF w
          <5>2. (w \o e) \o r = w \o (e \o r)
            BY <3>7, <4>3, <5>1
          <5> QED BY <5>2 DEF w
        <4> QED BY <4>1, <4>2, <4>4, <4>5
      <3>11. Ahead'[c] = a \o (b \o e)
        BY <3>9, <3>10, ConcatEmptySeq
      <3>12. Ahead[c] = Ahead'[c] \o r
        BY <3>8, <3>10, <3>11
      <3>13. Phase[c] = "live"
        BY <2>3 DEF Phase, Live
      <3>14. CASE Fitting(c) = buf
        <4>1. Phase'[c] = "live"
          BY <1>1, <2>3, <3>1, <3>14 DEF Phase, Live
        <4>2. r = << >>
          <5>1. Fitting(c) \o rest = Fitting(c)
            BY <3>5, <3>14
          <5>2. rest = << >>
            BY <3>5, <5>1, ConcatEqualIffEmpty
          <5> QED BY <5>2, RunsOne DEF r
        <4>3. Ahead[c] = Ahead'[c]
          BY <3>10, <3>11, <3>12, <4>2, ConcatEmptySeq
        <4> QED BY <3>13, <4>1, <4>3
      <3>15. CASE Fitting(c) # buf
        <4>1. Phase'[c] = "cut"
          BY <1>1, <2>3, <3>1, <3>15 DEF Phase, Live
        <4>2. Feed!IsPrefix(Ahead'[c], Ahead[c])
          BY <3>7, <3>10, <3>11, <3>12, PrefixOfConcat
        <4> QED BY <3>13, <4>1, <4>2
      <3> QED BY <3>14, <3>15
    <2> QED BY <2>1, <2>2, <2>3
  <1> QED BY <1>1, <1>2, <1>5 DEF Feed!Cut

\* What a step of the handler of c leaves of the other connections.
LEMMA OthersShow ==
  ASSUME Ways, Ways', NEW c \in Clients, Elsewhere(c)
  PROVE  /\ runState' = runState /\ dropped' = dropped
         /\ \A d \in Clients \ {c} :
              Phase'[d] = Phase[d] /\ Display'[d] = Display[d] /\ Ahead'[d] = Ahead[d]
         /\ Ahead[c] = Way(c) /\ Ahead'[c] = Way(c)'
PROOF
  <1>1. runState' = runState /\ dropped' = dropped /\ buf' = buf
    BY DEF Elsewhere, bus
  <1>2. \A d \in Clients : Ahead[d] = Way(d) /\ Ahead'[d] = Way(d)'
    BY DEF Ways
  <1>3. ASSUME NEW d \in Clients \ {c}
        PROVE  Phase'[d] = Phase[d] /\ Display'[d] = Display[d] /\ Way(d)' = Way(d)
    <2>1. /\ pc'[d] = pc[d] /\ frame'[d] = frame[d] /\ view'[d] = view[d] /\ queue'[d] = queue[d]
          /\ overflowed'[d] = overflowed[d] /\ gone'[d] = gone[d]
      BY DEF Elsewhere
    <2> QED BY <1>1, <2>1 DEF Phase, Display, Live, Way, Sending, OnBus
  <1> QED BY <1>1, <1>2, <1>3

\* A new connection.
LEMMA AcceptShows ==
  ASSUME IInv, Ways, Ways', NEW c \in Clients, Accept(c)
  PROVE  Feed!Connect(c)
PROOF
  <1>1. /\ pc[c] = "off" /\ queue[c] = << >> /\ ~overflowed[c] /\ ~gone[c] /\ view[c] = Blank
    BY DEF Accept, IInv, SnapshotFirst
  <1>2. /\ pc' = [pc EXCEPT ![c] = "send"] /\ frame' = [frame EXCEPT ![c] = StateFull]
        /\ UNCHANGED <<runState, bus, queue, overflowed, gone, view>>
        /\ Elsewhere(c)
    BY DEF Accept, Elsewhere, IInv, ClientTypes
  <1>3. pc'[c] = "send" /\ frame'[c] = StateFull /\ buf' = buf
    BY <1>2 DEF IInv, ClientTypes, bus
  <1>4. StateFull \in Frames /\ "run" \in DOMAIN StateFull /\ StateFull["run"] = runState
    <2>1. runState \in RS!RunStates /\ TargetView(snap) \in TargetViews /\ dropped \in 0 .. MaxDrops
      BY DEF IInv, Types, TargetViews
    <2>2. StateFull \in Fulls
      BY <2>1, FramesMade DEF StateFull
    <2> QED BY <2>2, FramesMade DEF StateFull
  <1>5. /\ Sending(c)' = <<runState>> /\ RunsOf(queue'[c]) = << >>
        /\ OnBus(c)' = RunsOf(buf) /\ ~gone'[c]
    <2>1. RunsOf(<<StateFull>>) = <<runState>>
      BY <1>4, RunsOne
    <2> QED BY <1>1, <1>2, <1>3, <2>1, RunsOne DEF Sending, OnBus
  <1> DEFINE Q == Seq(RS!RunStates)
             b == RunsOf(buf)
             a == <<runState>> \o b
  <1>6. b \in Q /\ runState \in RS!RunStates /\ <<runState>> \in Q
    BY DEF Ways, IInv, Types
  <1>7. Way(c)' = a
    <2>1. <<runState>> \o << >> = <<runState>>
      BY <1>6, ConcatEmptySeq
    <2> QED BY <1>5, <2>1 DEF Way
  <1>8. b = << >> \/ (b # << >> /\ Last(b) = runState)
    <2>1. buf \in Seq(Frames)
      BY DEF IInv, Types
    <2> QED BY <2>1, RunsSaid DEF IInv, Current
  <1> HIDE DEF b
  <1>9. a # << >> /\ Head(a) = runState /\ Feed!Last(a) = runState
    <2>1. /\ a \in Q /\ Len(b) \in Nat /\ Len(a) = 1 + Len(b) /\ a[1] = runState
          /\ \A i \in 1 .. Len(b) : a[1 + i] = b[i]
      <3>1. Len(<<runState>>) = 1 /\ <<runState>>[1] = runState
        OBVIOUS
      <3>2. Len(b) \in Nat
        BY <1>6, LenProperties
      <3>3. /\ a \in Q /\ Len(a) = 1 + Len(b)
            /\ \A i \in 1 .. 1 + Len(b) : a[i] = IF i <= 1 THEN <<runState>>[i] ELSE b[i - 1]
        BY <1>6, <3>1, ConcatProperties
      <3> HIDE DEF a
      <3>4. \A i \in 1 .. Len(b) : a[1 + i] = b[i]
        <4> TAKE i \in 1 .. Len(b)
        <4>1. 1 + i \in 1 .. 1 + Len(b) /\ ~(1 + i <= 1) /\ (1 + i) - 1 = i
          BY <3>2
        <4> QED BY <3>3, <4>1
      <3>5. a[1] = runState
        <4>1. 1 \in 1 .. 1 + Len(b)
          BY <3>2
        <4> QED BY <3>1, <3>3, <4>1
      <3> QED BY <3>2, <3>3, <3>4, <3>5
    <2> HIDE DEF a
    <2>2. a # << >> /\ Head(a) = runState
      BY <2>1
    <2>3. CASE Len(b) = 0
      BY <2>1, <2>2, <2>3 DEF Feed!Last
    <2>4. CASE Len(b) # 0
      <3>1. b # << >>
        BY <2>4
      <3>2. b[Len(b)] = runState
        BY <1>8, <3>1 DEF Last
      <3>3. Len(b) \in 1 .. Len(b)
        BY <2>1, <2>4
      <3> QED BY <2>1, <2>2, <3>2, <3>3 DEF Feed!Last
    <2> QED BY <2>2, <2>3, <2>4
  <1>10. /\ \A d \in Clients \ {c} : Phase'[d] = Phase[d] /\ Ahead'[d] = Ahead[d]
         /\ Ahead'[c] = a /\ runState' = runState /\ dropped' = dropped
    BY <1>2, <1>7, OthersShow
  <1>11. Display' = Display
    BY <1>2 DEF Display
  <1>12. Phase[c] = "off" /\ Phase' = [Phase EXCEPT ![c] = "live"]
    <2>1. Phase[c] = "off" /\ Phase'[c] = "live"
      BY <1>1, <1>2, <1>3 DEF Phase, Live
    <2> QED BY <1>10, <2>1 DEF Phase
  <1> HIDE DEF a
  <1> QED BY <1>9, <1>10, <1>11, <1>12 DEF Feed!Connect

\* A step of the handler of c that RunFeed does not see.
LEMMA StillShows ==
  ASSUME Ways, Ways', NEW c \in Clients, Elsewhere(c),
         Phase'[c] = Phase[c], Display'[c] = Display[c], Way(c)' = Way(c)
  PROVE  UNCHANGED Feed!vars
PROOF
  <1>1. /\ \A d \in Clients :
             Phase'[d] = Phase[d] /\ Display'[d] = Display[d] /\ Ahead'[d] = Ahead[d]
        /\ runState' = runState /\ dropped' = dropped
    BY OthersShow
  <1>2. Phase' = Phase
    BY <1>1 DEF Phase
  <1>3. Display' = Display
    BY <1>1 DEF Display
  <1>4. Ahead' = Ahead
    BY <1>1 DEF Ways
  <1> QED BY <1>1, <1>2, <1>3, <1>4 DEF Feed!vars

\* The handler of c returns: the connection is closed.
LEMMA EndShows ==
  ASSUME IInv, Ways, Ways', NEW c \in Clients, pc[c] # "off", End(c),
         UNCHANGED <<runState, snap, alerted, drainer, bus>>,
         view' = [view EXCEPT ![c] = Blank]
  PROVE  Feed!Close(c)
PROOF
  <1>1. Elsewhere(c)
    BY DEF End, Elsewhere, IInv, ClientTypes
  <1>2. pc'[c] = "off" /\ queue'[c] = << >> /\ ~gone'[c] /\ view'[c] = Blank
    BY DEF End, IInv, ClientTypes
  <1>3. /\ \A d \in Clients \ {c} :
             Phase'[d] = Phase[d] /\ Display'[d] = Display[d] /\ Ahead'[d] = Ahead[d]
        /\ runState' = runState /\ dropped' = dropped /\ Ahead'[c] = Way(c)'
    BY <1>1, OthersShow
  <1>4. Phase[c] # "off" /\ Phase'[c] = "off"
    BY <1>2 DEF Phase, Live
  <1>5. Display'[c] = "none"
    BY <1>2 DEF Display, Blank, None
  <1>6. Ahead'[c] = << >>
    <2>1. Sending(c)' = << >> /\ RunsOf(queue'[c]) = << >> /\ OnBus(c)' = << >>
      BY <1>2, RunsOne DEF Sending, OnBus
    <2>2. Way(c)' = (<< >> \o << >>) \o << >>
      BY <1>2, <2>1 DEF Way
    <2> QED BY <1>3, <2>2
  <1>7. Phase' = [Phase EXCEPT ![c] = "off"]
    BY <1>3, <1>4 DEF Phase
  <1>8. Display' = [Display EXCEPT ![c] = "none"]
    BY <1>3, <1>5, ZenonT(40) DEF Display
  <1>9. Ahead' = [Ahead EXCEPT ![c] = << >>]
    BY <1>3, <1>6 DEF Ways
  <1> QED BY <1>3, <1>4, <1>7, <1>8, <1>9 DEF Feed!Close, Feed!NoRun

\* What a handler takes up is what its queue gives up.
LEMMA ForwardQueue ==
  ASSUME IInv, NEW c \in Clients, GetOrPark(c)
  PROVE  Sending(c)' \o RunsOf(queue'[c]) = RunsOf(queue[c])
PROOF
  <1> DEFINE q == queue[c]
  <1>1. q \in Seq(Frames)
    BY DEF IInv, ClientTypes
  <1>2. CASE q = << >>
    <2>1. pc'[c] = "get" /\ queue'[c] = << >>
      BY <1>2 DEF GetOrPark, IInv, ClientTypes
    <2>2. Sending(c)' = << >> /\ RunsOf(queue'[c]) = << >> /\ RunsOf(q) = << >>
      BY <1>2, <2>1, RunsOne DEF Sending
    <2> QED BY <2>2
  <1>3. CASE q # << >>
    <2>1. pc'[c] = "send" /\ frame'[c] = Head(q) /\ queue'[c] = Tail(q)
      BY <1>3 DEF GetOrPark, IInv, ClientTypes
    <2> HIDE DEF q
    <2>2. Head(q) \in Frames /\ Tail(q) \in Seq(Frames) /\ q = <<Head(q)>> \o Tail(q)
      BY <1>1, <1>3, HeadTailProperties
    <2>3. <<Head(q)>> \in Seq(Frames)
      BY <2>2
    <2>4. RunsOf(q) = RunsOf(<<Head(q)>>) \o RunsOf(Tail(q))
      BY <2>2, <2>3, RunsConcat
    <2>5. Sending(c)' = RunsOf(<<Head(q)>>)
      BY <2>1 DEF Sending
    <2> QED BY <2>1, <2>4, <2>5 DEF q
  <1> QED BY <1>2, <1>3

\* The handler of c takes up the next frame, or parks; one that was being sent has
\* arrived, unless the peer is gone.
LEMMA ForwardShows ==
  ASSUME IInv, Ways, Ways', NEW c \in Clients, pc[c] # "off", GetOrPark(c),
         UNCHANGED <<runState, snap, alerted, drainer, bus>>,
         view' = [view EXCEPT ![c] = view'[c]],
         IF pc[c] = "send" /\ ~gone[c] THEN view'[c] = Applied(frame[c], view[c])
                                       ELSE view'[c] = view[c]
  PROVE  [Feed!Next]_(Feed!vars)
PROOF
  <1> DEFINE Q == Seq(RS!RunStates)
             rest == RunsOf(queue[c]) \o OnBus(c)
  <1>1. Elsewhere(c)
    BY DEF GetOrPark, Elsewhere, IInv, ClientTypes
  <1>2. pc'[c] # "off" /\ gone' = gone /\ overflowed' = overflowed /\ buf' = buf
    BY DEF GetOrPark, IInv, ClientTypes, bus
  <1>3. Phase'[c] = Phase[c]
    BY <1>2 DEF Phase, Live
  <1>4. OnBus(c)' = OnBus(c)
    BY <1>2 DEF OnBus
  <1>5. CASE gone[c]
    <2>1. Way(c)' = Way(c)
      BY <1>2, <1>5 DEF Way
    <2>2. Display'[c] = Display[c]
      BY <1>5 DEF Display
    <2> QED BY <1>1, <1>3, <2>1, <2>2, StillShows
  <1>6. CASE ~gone[c]
    <2>1. Way(c)' = rest
      BY <1>2, <1>4, <1>6, ForwardQueue DEF Way
    <2>2. Sending(c) \in Q /\ RunsOf(queue[c]) \in Q /\ OnBus(c) \in Q /\ rest \in Q
      BY ConcatProperties DEF Ways
    <2>3. Way(c) = Sending(c) \o rest
      <3>1. Way(c) = (Sending(c) \o RunsOf(queue[c])) \o OnBus(c)
        BY <1>6 DEF Way
      <3> QED BY <2>2, <3>1, ConcatAssociative
    <2> HIDE DEF rest
    <2>4. CASE pc[c] # "send"
      <3>1. Way(c)' = Way(c)
        <4>1. Sending(c) = << >>
          BY <2>4 DEF Sending
        <4> QED BY <2>1, <2>2, <2>3, <4>1, ConcatEmptySeq
      <3>2. Display'[c] = Display[c]
        BY <2>4 DEF Display
      <3> QED BY <1>1, <1>3, <3>1, <3>2, StillShows
    <2>5. CASE pc[c] = "send"
      <3>1. frame[c] \in Frames /\ view'[c] = Applied(frame[c], view[c])
        BY <1>6, <2>5 DEF IInv, ClientTypes
      <3>2. Sending(c) = IF "run" \in DOMAIN frame[c] THEN <<frame[c]["run"]>> ELSE << >>
        BY <2>5, <3>1, RunsOne DEF Sending
      <3>3. CASE "run" \notin DOMAIN frame[c]
        <4>1. Way(c)' = Way(c)
          BY <2>1, <2>2, <2>3, <3>2, <3>3, ConcatEmptySeq
        <4>2. /\ "run" \in DOMAIN view'[c] <=> "run" \in DOMAIN view[c]
              /\ "run" \in DOMAIN view[c] => view'[c]["run"] = view[c]["run"]
          BY <3>1, <3>3 DEF Applied
        <4>3. Display'[c] = Display[c]
          BY <4>2 DEF Display
        <4> QED BY <1>1, <1>3, <4>1, <4>3, StillShows
      <3>4. CASE "run" \in DOMAIN frame[c]
        <4> DEFINE x == frame[c]["run"]
        <4>1. Sending(c) = <<x>> /\ x \in RS!RunStates
          BY <2>2, <3>2, <3>4, ElementOfSeq
        <4>2. view'[c]["run"] = x /\ "run" \in DOMAIN view'[c]
          BY <3>1, <3>4 DEF Applied
        <4>3. Display'[c] = x
          BY <4>2 DEF Display
        <4> HIDE DEF x
        <4>4. <<x>> \o rest # << >> /\ Head(<<x>> \o rest) = x /\ Tail(<<x>> \o rest) = rest
          BY <2>2, <4>1
        <4>5. /\ \A d \in Clients \ {c} :
                   Phase'[d] = Phase[d] /\ Display'[d] = Display[d] /\ Ahead'[d] = Ahead[d]
              /\ runState' = runState /\ dropped' = dropped
              /\ Ahead[c] = <<x>> \o rest /\ Ahead'[c] = rest
          BY <1>1, <2>1, <2>3, <4>1, OthersShow
        <4>6. Phase' = Phase
          BY <1>3, <4>5 DEF Phase
        <4>7. Display' = [Display EXCEPT ![c] = x]
          BY <4>3, <4>5 DEF Display
        <4>8. Ahead' = [Ahead EXCEPT ![c] = rest]
          BY <4>5 DEF Ways
        <4>9. Feed!Show(c)
          BY <4>4, <4>5, <4>6, <4>7, <4>8 DEF Feed!Show
        <4> QED BY <4>9 DEF Feed!Next
      <3> QED BY <3>3, <3>4
    <2> QED BY <2>4, <2>5
  <1> QED BY <1>5, <1>6

\* A peer that leaves gets nothing any more.
LEMMA VanishShows ==
  ASSUME IInv, Ways, Ways', NEW c \in Clients, Vanish(c)
  PROVE  Feed!Cut
PROOF
  <1>1. /\ pc[c] # "off" /\ gone'[c] /\ pc' = pc /\ view' = view
        /\ Elsewhere(c)
    BY DEF Vanish, Elsewhere, IInv, ClientTypes
  <1>2. /\ \A d \in Clients \ {c} : Phase'[d] = Phase[d] /\ Ahead'[d] = Ahead[d]
        /\ runState' = runState /\ dropped' = dropped
        /\ Ahead[c] = Way(c) /\ Ahead'[c] = Way(c)'
    BY <1>1, OthersShow
  <1>3. Display' = Display
    BY <1>1 DEF Display
  <1>4. Phase[c] # "off" /\ Phase'[c] = "cut"
    BY <1>1 DEF Phase, Live
  <1>5. Feed!IsPrefix(Ahead'[c], Ahead[c])
    <2>1. Ahead'[c] = << >> /\ Ahead[c] \in Seq(RS!RunStates)
      BY <1>1, <1>2 DEF Way, Ways
    <2> QED BY <2>1, PrefixOfConcat
  <1> QED BY <1>2, <1>3, <1>4, <1>5 DEF Feed!Cut

\* Every step of a handler.
LEMMA HandlersShow ==
  ASSUME IInv, Ways, Ways', NEW c \in Clients, Handler(c)
  PROVE  [Feed!Next]_(Feed!vars)
PROOF
  <1>1. /\ view \in [Clients -> Fulls \cup {Blank}]
        /\ pc \in [Clients -> {"off", "send", "get"}]
    BY DEF IInv, ClientTypes
  <1>2. CASE Sent(c) \/ SendFailed(c)
    <2>1. /\ pc[c] = "send" /\ (End(c) \/ GetOrPark(c))
          /\ UNCHANGED <<runState, snap, alerted, drainer, bus>>
          /\ view' = [view EXCEPT ![c] =
                        IF pc'[c] = "off" THEN Blank
                        ELSE IF ~gone[c] THEN Applied(frame[c], view[c]) ELSE view[c]]
      BY <1>2 DEF Sent, SendFailed, Loop
    <2>2. CASE End(c)
      <3>1. pc'[c] = "off"
        BY <1>1, <2>2 DEF End
      <3>2. Feed!Close(c)
        BY <2>1, <2>2, <3>1, EndShows
      <3> QED BY <3>2 DEF Feed!Next
    <2>3. CASE GetOrPark(c)
      <3>1. pc'[c] # "off"
        BY <1>1, <2>3 DEF GetOrPark
      <3>2. /\ view'[c] = IF ~gone[c] THEN Applied(frame[c], view[c]) ELSE view[c]
            /\ view' = [view EXCEPT ![c] = view'[c]]
        BY <1>1, <2>1, <3>1
      <3> QED BY <2>1, <2>3, <3>2, ForwardShows
    <2> QED BY <2>1, <2>2, <2>3
  <1>3. CASE Got(c)
    <2>1. /\ pc[c] = "get" /\ GetOrPark(c)
          /\ UNCHANGED <<runState, snap, alerted, drainer, bus>> /\ view' = view
      BY <1>3 DEF Got
    <2>2. view' = [view EXCEPT ![c] = view'[c]]
      BY <1>1, <2>1
    <2> QED BY <2>1, <2>2, ForwardShows
  <1> QED BY <1>2, <1>3 DEF Handler

\* Every step of the stream is a step of RunFeed, or none.
LEMMA NextShows ==
  ASSUME IInv, Ways, Ways', [Next]_vars
  PROVE  [Feed!Next]_(Feed!vars)
PROOF
  <1>1. CASE ReplaceTarget \/ Notify \/ UNCHANGED vars
    <2>1. /\ UNCHANGED <<runState, buf, dropped, pc, frame, queue, overflowed, gone, view>>
      BY <1>1 DEF ReplaceTarget, Notify, vars, bus, client
    <2>2. Phase' = Phase /\ Display' = Display
      BY <2>1 DEF Phase, Display, Live
    <2>3. Ahead' = Ahead
      BY <2>1 DEF Ahead, OnTheWay
    <2> QED BY <2>1, <2>2, <2>3 DEF Feed!vars
  <1>2. CASE Publish \/ DropAlertTick \/ HostStatsTick
    BY <1>2, PublishShows
  <1>3. CASE Broadcast
    BY <1>3, BroadcastShows DEF Feed!Next
  <1>4. ASSUME NEW c \in Clients, Accept(c) \/ Handler(c) \/ Vanish(c)
        PROVE  [Feed!Next]_(Feed!vars)
    BY <1>4, AcceptShows, HandlersShow, VanishShows DEF Feed!Next
  <1> QED BY <1>1, <1>2, <1>3, <1>4 DEF Next

\* RunFeed begins as the stream does.
LEMMA InitShows ==
  ASSUME Init
  PROVE  Feed!Init
PROOF
  <1> USE StatusStreamAssumption DEF Init
  <1>1. runState \in RS!RunStates /\ dropped = 0
    BY DEF RS!RunStates
  <1>2. Phase = [c \in Clients |-> "off"]
    BY DEF Phase
  <1>3. Display = [c \in Clients |-> "none"]
    BY DEF Display, Blank, None
  <1>4. Ahead = [c \in Clients |-> << >>]
    <2>1. \A c \in Clients : OnTheWay(c) = (<< >> \o << >>) \o << >>
      BY DEF OnTheWay
    <2>2. \A c \in Clients : RunsOf(OnTheWay(c)) = << >>
      <3>1. (<< >> \o << >>) \o << >> = << >>
        OBVIOUS
      <3> QED BY <2>1, <3>1, RunsOne
    <2> QED BY <2>2 DEF Ahead
  <1> QED BY <1>1, <1>2, <1>3, <1>4 DEF Feed!Init, Feed!NoRun

\* The stream implements RunFeed: a dashboard begins with the run state as it is and
\* is shown every later one in order, until it is cut off; only a bus that overflows
\* and says so loses one.
THEOREM RefinesFeed == Spec => RefinesRunFeed
PROOF
  <1>1. IInv /\ IInv' /\ [Next]_vars => [Feed!Next]_(Feed!vars)
    <2> SUFFICES ASSUME IInv, IInv', [Next]_vars PROVE [Feed!Next]_(Feed!vars)
      OBVIOUS
    <2>1. Ways
      BY AheadIsWay
    <2>2. Ways'
      BY AheadIsWay, PTL
    <2> QED BY <2>1, <2>2, NextShows
  <1> QED BY <1>1, InitShows, Inductive, PTL DEF Spec, RefinesRunFeed, Feed!Spec
=============================================================================
