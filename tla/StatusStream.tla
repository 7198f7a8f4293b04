---------------------------- MODULE StatusStream ----------------------------
(***************************************************************************)
(* The way of a status change to a dashboard: the supervisor publishes on  *)
(* the event bus (app/fanout/event_bus.py), the broadcaster drains it into *)
(* one bounded queue per WebSocket, the /ws handler (app/api/ws.py) sends  *)
(* a snapshot and then what its queue holds, and the browser               *)
(* (web/src/lib/wsReducer.ts) applies each frame to what it shows.         *)
(*                                                                         *)
(* A frame is a record of the fields it carries, and so is what a browser  *)
(* shows.  One target stands for all of them.  The broadcaster does not    *)
(* yield between taking a batch and its last put_nowait, nor does a        *)
(* handler between two sends: these are one step.                          *)
(***************************************************************************)
EXTENDS Naturals, Sequences, FiniteSets, SequencesExt

CONSTANTS
  Clients,        \* connections
  Roles,          \* expected_worker_roles of the target
  RoleStates,     \* worker states that reports carry
  FirstRun,       \* the run state when the first dashboard may connect
  Moves,          \* the run actions that happen
  BusCapacity,    \* EVENT_BUS_CAPACITY
  QueueCapacity,  \* WS_PER_CLIENT_QUEUE_CAPACITY
  MaxDrops        \* bound of the model: a full bus is drained after that many

ASSUME StatusStreamAssumption ==
  /\ BusCapacity \in Nat /\ QueueCapacity \in Nat \ {0}
  /\ QueueCapacity < BusCapacity   \* 256 and 10,000
  /\ MaxDrops \in Nat
  /\ FirstRun \in {"offline", "starting", "armed", "live", "stopping", "error"}
  /\ {"primary"} \subseteq Roles /\ Roles \subseteq {"primary", "backup"}

VARIABLES
  runState,   \* Supervisor._run_state
  snap,       \* the target's WorkerSet: the last snapshot of each role
  buf,        \* EventBus._buf
  dropped,    \* EventBus._dropped_total
  alerted,    \* Supervisor._last_drop_alert_total
  notify,     \* a bus.notify() task has been scheduled and has not run
  drainer,    \* the broadcaster: "waiting" on the condition, or "ready" to run
  pc,         \* the handler of each connection: "off", in "send" or in "get"
  frame,      \* the frame a handler is sending
  queue,      \* WsSubscriber.queue
  overflowed, \* WsSubscriber.overflowed
  gone,       \* the peer of a connection is no longer there
  view,       \* what the browser shows
  base        \* history: dropped_total as state.full said it

bus    == <<buf, dropped, notify>>
client == <<pc, frame, queue, overflowed, gone, view, base>>
vars   == <<runState, snap, alerted, drainer, bus, client>>

RS == INSTANCE RunState

None == "none"

\* What a frame may carry; no field, no frame, no view.
Fields == {"run", "target", "dropped"}
Blank  == << >>

\* The reducer: what v shows when u has arrived.
Applied(u, v) ==
  [f \in DOMAIN u \cup DOMAIN v |-> IF f \in DOMAIN u THEN u[f] ELSE v[f]]

-----------------------------------------------------------------------------
(* The target aggregate (app/domain/target.py, app/domain/health.py).      *)

RoleState(s, r) == IF s[r] = None THEN "idle" ELSE s[r]

\* The roles that deliver.
Healthy(s) == {r \in Roles : s[r] = "running"}

\* The ladder of compute_ui_state for an enabled target with a credential: the
\* first rung that applies.
UiState(s) ==
  IF \A r \in Roles : s[r] = None THEN "idle"
  ELSE IF \E r \in Roles : RoleState(s, r) = "failed_open" THEN "failed_open"
  ELSE IF \E r \in Roles : RoleState(s, r) = "starting" THEN "starting"
  ELSE IF Healthy(s) = Roles THEN "running"
  ELSE IF Cardinality(Roles) = 2 /\ Healthy(s) # {} THEN "degraded"
  ELSE "errored"

\* _snapshot_to_view for the roles that have reported, with the tile's state.
TargetView(s) ==
  [ui |-> UiState(s), roles |-> [r \in {q \in Roles : s[q] # None} |-> s[r]]]

NoSnapshots == [r \in Roles |-> None]

-----------------------------------------------------------------------------
(* The bus.                                                                *)

\* Seeded bug: nobody wakes the drainer.
Put_Silent(u) ==
  LET full == Len(buf) >= BusCapacity
  IN  /\ buf' = Append(IF full THEN Tail(buf) ELSE buf, u)
      /\ dropped' = IF full /\ dropped < MaxDrops THEN dropped + 1 ELSE dropped
      /\ UNCHANGED notify

\* Seeded bug: a full bus evicts nothing.
Put_Unbounded(u) ==
  /\ Len(buf) > BusCapacity => dropped < MaxDrops
  /\ buf' = Append(buf, u)
  /\ dropped' = IF Len(buf) > BusCapacity THEN dropped + 1 ELSE dropped
  /\ notify' = TRUE

\* Seeded bug: a full bus evicts without counting.
Put_Uncounted(u) ==
  /\ buf' = Append(IF Len(buf) >= BusCapacity THEN Tail(buf) ELSE buf, u)
  /\ notify' = TRUE
  /\ UNCHANGED dropped

\* put() on a deque with maxlen, and _notify_bus_soon.
Put(u) ==
  LET full == Len(buf) >= BusCapacity
  IN  /\ full => dropped < MaxDrops
      /\ buf' = Append(IF full THEN Tail(buf) ELSE buf, u)
      /\ dropped' = IF full THEN dropped + 1 ELSE dropped
      /\ notify' = TRUE

\* notify(): notify_all under the condition.  Two that are due are as good as one.
Notify ==
  /\ notify
  /\ notify' = FALSE
  /\ drainer' = "ready"
  /\ UNCHANGED <<runState, snap, alerted, buf, dropped, client>>

-----------------------------------------------------------------------------
(* What the supervisor publishes.                                          *)

\* _set_run_state and the two OBS signals, all through _publish_run_state.
PublishRunState ==
  /\ \E a \in Moves : runState' \in RS!Transition(runState, a)
  /\ Put([run |-> runState'])
  /\ UNCHANGED <<snap, alerted, drainer, client>>

\* _handle_worker_event: ingest the worker's snapshot, publish the target's.
HandleWorkerEvent(r, s) ==
  /\ snap' = [snap EXCEPT ![r] = s]
  /\ Put([target |-> TargetView(snap')])
  /\ UNCHANGED <<runState, alerted, drainer, client>>

\* start_run and enable_target put a Target without snapshots in the place of
\* the old one and publish nothing.
ReplaceTarget ==
  /\ snap # NoSnapshots
  /\ snap' = NoSnapshots
  /\ UNCHANGED <<runState, alerted, drainer, bus, client>>

\* One turn of _drop_alert_loop that has something to say.
DropAlertTick ==
  /\ dropped > alerted
  /\ alerted' = dropped
  /\ Put([dropped |-> dropped])
  /\ UNCHANGED <<runState, snap, drainer, client>>

\* One turn of _host_stats_loop whose sample succeeds.
HostStatsTick ==
  /\ Put(Blank)
  /\ UNCHANGED <<runState, snap, alerted, drainer, client>>

-----------------------------------------------------------------------------
(* The broadcaster.                                                        *)

Registered == {c \in Clients : pc[c] # "off"}

\* The events of a batch that find room in c's queue.
Fitting(c) == SubSeq(buf, 1, Min({Len(buf), QueueCapacity - Len(queue[c])}))

\* Seeded bug: a queue that fills up during the batch is not noticed.
Broadcast_ChecksBefore ==
  LET open == {c \in Registered : ~overflowed[c]}
  IN  /\ drainer = "ready"
      /\ queue' = [c \in Clients |-> IF c \in open THEN queue[c] \o Fitting(c) ELSE queue[c]]
      /\ overflowed' = [c \in Clients |->
           overflowed[c] \/ (c \in open /\ buf # << >> /\ Len(queue[c]) = QueueCapacity)]
      /\ buf' = << >>
      /\ drainer' = "waiting"
      /\ UNCHANGED <<runState, snap, alerted, dropped, notify, pc, frame, gone, view, base>>

\* drain() takes the whole buffer; ws_broadcaster offers every event to every
\* subscriber that has not overflowed, and marks one whose queue is full.
Broadcast ==
  LET open == {c \in Registered : ~overflowed[c]}
  IN  /\ drainer = "ready"
      /\ queue' = [c \in Clients |-> IF c \in open THEN queue[c] \o Fitting(c) ELSE queue[c]]
      /\ overflowed' = [c \in Clients |-> overflowed[c] \/ (c \in open /\ Fitting(c) # buf)]
      /\ buf' = << >>
      /\ drainer' = "waiting"
      /\ UNCHANGED <<runState, snap, alerted, dropped, notify, pc, frame, gone, view, base>>

-----------------------------------------------------------------------------
(* The /ws handler and its browser.                                        *)

\* _build_state_full.
StateFull == [run |-> runState, target |-> TargetView(snap), dropped |-> dropped]

\* Seeded bug: registered without the snapshot.
Accept_NoSnapshot(c) ==
  /\ pc[c] = "off"
  /\ pc' = [pc EXCEPT ![c] = "get"]
  /\ base' = [base EXCEPT ![c] = dropped]
  /\ view' = [view EXCEPT ![c] = [f \in Fields |-> None]]
  /\ UNCHANGED <<runState, snap, alerted, drainer, bus, frame, queue, overflowed, gone>>

\* accept() has returned: register, build state.full and begin to send it.
Accept(c) ==
  /\ pc[c] = "off"
  /\ pc' = [pc EXCEPT ![c] = "send"]
  /\ frame' = [frame EXCEPT ![c] = StateFull]
  /\ base' = [base EXCEPT ![c] = dropped]
  /\ UNCHANGED <<runState, snap, alerted, drainer, bus, queue, overflowed, gone, view>>

\* The handler returns: registry.remove, and the socket is closed.
End(c) ==
  /\ pc' = [pc EXCEPT ![c] = "off"]
  /\ frame' = [frame EXCEPT ![c] = Blank]
  /\ queue' = [queue EXCEPT ![c] = << >>]
  /\ overflowed' = [overflowed EXCEPT ![c] = FALSE]
  /\ gone' = [gone EXCEPT ![c] = FALSE]
  /\ base' = [base EXCEPT ![c] = 0]

\* Seeded bug: the flag is looked at only when the queue is empty.
Loop_DrainsFirst(c) ==
  IF queue[c] # << >>
  THEN /\ pc' = [pc EXCEPT ![c] = "send"]
       /\ frame' = [frame EXCEPT ![c] = Head(queue[c])]
       /\ queue' = [queue EXCEPT ![c] = Tail(@)]
       /\ UNCHANGED <<overflowed, gone, base>>
  ELSE /\ pc' = [pc EXCEPT ![c] = "get"]
       /\ frame' = [frame EXCEPT ![c] = Blank]
       /\ UNCHANGED <<queue, overflowed, gone, base>>

\* queue.get() returns an event, which is sent; or it parks.
GetOrPark(c) ==
  /\ IF queue[c] = << >>
     THEN /\ pc' = [pc EXCEPT ![c] = "get"]
          /\ frame' = [frame EXCEPT ![c] = Blank]
          /\ UNCHANGED queue
     ELSE /\ pc' = [pc EXCEPT ![c] = "send"]
          /\ frame' = [frame EXCEPT ![c] = Head(queue[c])]
          /\ queue' = [queue EXCEPT ![c] = Tail(@)]
  /\ UNCHANGED <<overflowed, gone, base>>

\* The top of _forward_loop: close 1011 once overflowed, else the next event.
Loop(c) == IF overflowed[c] THEN End(c) ELSE GetOrPark(c)

\* send_json returns; the browser applies the frame.
Sent(c) ==
  /\ pc[c] = "send" /\ ~gone[c]
  /\ Loop(c)
  /\ view' = [view EXCEPT ![c] = IF pc'[c] = "off" THEN Blank ELSE Applied(frame[c], @)]
  /\ UNCHANGED <<runState, snap, alerted, drainer, bus>>

\* send_json raises.  The one of state.full is suppressed on a disconnect: the
\* loop is entered all the same.
SendFailed(c) ==
  /\ pc[c] = "send" /\ gone[c]
  /\ \/ End(c)
     \/ DOMAIN frame[c] = Fields /\ Loop(c)
  /\ view' = [view EXCEPT ![c] = IF pc'[c] = "off" THEN Blank ELSE @]
  /\ UNCHANGED <<runState, snap, alerted, drainer, bus>>

\* A parked queue.get() returns: overflowed is not looked at before the send.
Got(c) ==
  /\ pc[c] = "get" /\ queue[c] # << >>
  /\ GetOrPark(c)
  /\ UNCHANGED <<runState, snap, alerted, drainer, bus, view>>

\* The browser leaves or the network breaks.  A parked handler does not notice.
Vanish(c) ==
  /\ pc[c] # "off" /\ ~gone[c]
  /\ gone' = [gone EXCEPT ![c] = TRUE]
  /\ UNCHANGED <<runState, snap, alerted, drainer, bus, pc, frame, queue, overflowed, view, base>>

-----------------------------------------------------------------------------
Init ==
  /\ runState = FirstRun
  /\ snap = NoSnapshots
  /\ buf = << >> /\ dropped = 0 /\ alerted = 0
  /\ notify = FALSE /\ drainer = "ready"
  /\ pc = [c \in Clients |-> "off"]
  /\ frame = [c \in Clients |-> Blank]
  /\ queue = [c \in Clients |-> << >>]
  /\ overflowed = [c \in Clients |-> FALSE]
  /\ gone = [c \in Clients |-> FALSE]
  /\ view = [c \in Clients |-> Blank]
  /\ base = [c \in Clients |-> 0]

Publish ==
  \/ PublishRunState
  \/ \E r \in Roles, s \in RoleStates : HandleWorkerEvent(r, s)

Handler(c) == Sent(c) \/ SendFailed(c) \/ Got(c)

Next ==
  \/ Publish \/ ReplaceTarget \/ DropAlertTick \/ HostStatsTick
  \/ Notify \/ Broadcast
  \/ \E c \in Clients : Accept(c) \/ Handler(c) \/ Vanish(c)

Spec == Init /\ [][Next]_vars

\* The event loop runs what is due, the two periodic loops tick, and a send
\* ends: the peer takes the frame or the server's keepalive gives it up.
Fairness ==
  /\ WF_vars(Notify) /\ WF_vars(Broadcast)
  /\ WF_vars(DropAlertTick) /\ WF_vars(HostStatsTick)
  /\ \A c \in Clients : WF_vars(Handler(c))

FairSpec == Spec /\ Fairness

-----------------------------------------------------------------------------
(* Properties.                                                             *)

Snaps == [Roles -> RoleStates \cup {None}]

Fulls ==
  [run : RS!RunStates, target : {TargetView(s) : s \in Snaps}, dropped : 0 .. MaxDrops]

Frames ==
  {Blank} \cup [run : RS!RunStates] \cup [target : {TargetView(s) : s \in Snaps}]
  \cup [dropped : 0 .. MaxDrops] \cup Fulls

\* Every buffer is within its capacity and every frame well formed.
TypeOK ==
  /\ runState \in RS!RunStates
  /\ snap \in Snaps
  /\ Len(buf) <= BusCapacity /\ Range(buf) \subseteq Frames
  /\ dropped \in 0 .. MaxDrops /\ alerted \in 0 .. dropped
  /\ notify \in BOOLEAN /\ drainer \in {"waiting", "ready"}
  /\ \A c \in Clients :
       /\ pc[c] \in {"off", "send", "get"}
       /\ frame[c] \in Frames /\ view[c] \in Fulls \cup {Blank}
       /\ Len(queue[c]) <= QueueCapacity /\ Range(queue[c]) \subseteq Frames
       /\ overflowed[c] \in BOOLEAN /\ gone[c] \in BOOLEAN
       /\ base[c] \in 0 .. dropped

\* The frames on their way to c, oldest first.
OnTheWay(c) ==
  (IF pc[c] = "send" THEN <<frame[c]>> ELSE << >>)
    \o queue[c] \o (IF pc[c] = "off" \/ overflowed[c] THEN << >> ELSE buf)

\* Field f of what c shows when all of that has arrived.
Finally(c, f) ==
  LET s == OnTheWay(c)
      I == {i \in DOMAIN s : f \in DOMAIN s[i]}
  IN  IF I = {} THEN view[c][f] ELSE s[Max(I)][f]

Live(c) == pc[c] # "off" /\ ~overflowed[c] /\ ~gone[c]

\* What is on its way to a dashboard brings it to the truth, although a batch
\* that is older than its snapshot may follow the snapshot and queues are short:
\* the run state of the supervisor, and a tile that is right unless the target
\* has just been replaced.  The exception is a bus that has dropped an event since
\* the snapshot, and that is still full.  (put, drain, ws_broadcaster, ws_endpoint)
TruthOrDrop ==
  \A c \in Clients : Live(c) =>
    \/ dropped > base[c] /\ Len(buf) = BusCapacity
    \/ /\ Finally(c, "run") = runState
       /\ snap # NoSnapshots => Finally(c, "target") = TargetView(snap)

\* The frames of s that carry the run state, by their places, and what they carry,
\* in their order.
Carriers(s) == {i \in DOMAIN s : "run" \in DOMAIN s[i]}

Rank(s, i) == Cardinality(Carriers(s) \cap 1 .. i)

RunsOf(s) ==
  [k \in 1 .. Cardinality(Carriers(s)) |->
     s[CHOOSE i \in Carriers(s) : Rank(s, i) = k]["run"]]

\* A connection as RunFeed sees it: whether new states reach it, the run state on
\* display, and those on their way.
Phase ==
  [c \in Clients |-> IF pc[c] = "off" THEN "off" ELSE IF Live(c) THEN "live" ELSE "cut"]

Display == [c \in Clients |-> IF "run" \in DOMAIN view[c] THEN view[c]["run"] ELSE None]

Ahead == [c \in Clients |-> IF gone[c] THEN << >> ELSE RunsOf(OnTheWay(c))]

\* The stream implements the promise of RunFeed about the run state.
Feed ==
  INSTANCE RunFeed WITH
    RunStates <- RS!RunStates, run <- runState, lost <- dropped,
    phase <- Phase, shown <- Display, ahead <- Ahead

RefinesRunFeed == Feed!Spec

\* A dashboard comes to show that the run is live, if it stays live: no wake-up
\* of the drainer is lost between put, notify and drain.
LiveIsShown ==
  \A c \in Clients :
    (Live(c) /\ runState = "live") ~>
      (~Live(c) \/ runState # "live" \/ dropped > base[c]
         \/ ("run" \in DOMAIN view[c] /\ view[c]["run"] = "live"))

\* A connection that cannot go on ends: one too slow for its queue is closed, so
\* that the browser comes back for a new snapshot (close 1011 in _forward_loop), and
\* the handler of a peer that has left, who is not heard while it is parked, notices
\* at its next send, which there always is.
DeadEnds == \A c \in Clients : (overflowed[c] \/ gone[c]) ~> pc[c] = "off"

\* A dashboard that may have missed an event does not live on: a bus that drops is
\* fuller than any queue, so that the next batch cuts it off, and it comes back to
\* a snapshot.  bus.drop_alert reaches only those that missed nothing.
DropCuts == \A c \in Clients : (Live(c) /\ dropped > base[c]) ~> ~Live(c)
=============================================================================
