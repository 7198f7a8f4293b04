------------------------------ MODULE RunFeed -------------------------------
(***************************************************************************)
(* What the status stream promises a dashboard about the run state: a      *)
(* connection begins with the run state as it is, and from then on shows   *)
(* every later one, in order and without a gap, until it is cut off.  A    *)
(* bus that overflows may lose a state; it says so.  StatusStream is shown *)
(* to implement this.                                                      *)
(***************************************************************************)
EXTENDS Naturals, Sequences, SequencesExt

CONSTANTS
  Clients,   \* connections
  RunStates  \* what a run may be in

VARIABLES
  run,    \* the run state
  lost,   \* how many events the bus has lost
  phase,  \* of each connection: "off", "live", or "cut" (it gets no new state)
  shown,  \* the run state each connection has displayed last, or NoRun
  ahead   \* the run states each connection will display, oldest first

vars == <<run, lost, phase, shown, ahead>>

NoRun == "none"

\* What a connection shows once everything ahead of it has arrived.
Finally(s, a) == IF a = << >> THEN s ELSE Last(a)

Init ==
  /\ run \in RunStates
  /\ lost = 0
  /\ phase = [c \in Clients |-> "off"]
  /\ shown = [c \in Clients |-> NoRun]
  /\ ahead = [c \in Clients |-> << >>]

\* A snapshot, and behind it states that are older than it: they end with run.
Connect(c) ==
  /\ phase[c] = "off"
  /\ phase' = [phase EXCEPT ![c] = "live"]
  /\ ahead'[c] # << >> /\ Head(ahead'[c]) = run
  /\ Last(ahead'[c]) = run
  /\ \A d \in Clients \ {c} : ahead'[d] = ahead[d]
  /\ UNCHANGED <<run, lost, shown>>

\* A new run state reaches every live connection.
Move ==
  /\ run' # run
  /\ lost' = lost
  /\ ahead' = [c \in Clients |-> IF phase[c] = "live" THEN Append(ahead[c], run') ELSE ahead[c]]
  /\ UNCHANGED <<phase, shown>>

\* The bus is full: whatever is published, the oldest waiting event goes, the
\* same for every live connection.
Lose ==
  /\ lost' = lost + 1
  /\ \A c \in Clients :
       LET more == IF run' # run THEN <<run'>> ELSE << >>
       IN  IF phase[c] = "live"
           THEN \/ ahead'[c] = ahead[c] \o more
                \/ \E i \in 1 .. Len(ahead[c]) : ahead'[c] = RemoveAt(ahead[c], i) \o more
           ELSE ahead'[c] = ahead[c]
  /\ UNCHANGED <<phase, shown>>

Show(c) ==
  /\ ahead[c] # << >>
  /\ shown' = [shown EXCEPT ![c] = Head(ahead[c])]
  /\ ahead' = [ahead EXCEPT ![c] = Tail(@)]
  /\ UNCHANGED <<run, lost, phase>>

\* Connections that are too slow, or gone, get what is before the cut at most.
Cut ==
  /\ \A c \in Clients :
       \/ phase'[c] = phase[c] /\ ahead'[c] = ahead[c]
       \/ phase[c] # "off" /\ phase'[c] = "cut" /\ IsPrefix(ahead'[c], ahead[c])
  /\ UNCHANGED <<run, lost, shown>>

Close(c) ==
  /\ phase[c] # "off"
  /\ phase' = [phase EXCEPT ![c] = "off"]
  /\ shown' = [shown EXCEPT ![c] = NoRun]
  /\ ahead' = [ahead EXCEPT ![c] = << >>]
  /\ UNCHANGED <<run, lost>>

Next ==
  \/ Move \/ Lose \/ Cut
  \/ \E c \in Clients : Connect(c) \/ Show(c) \/ Close(c)

Spec == Init /\ [][Next]_vars
=============================================================================
