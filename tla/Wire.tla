-------------------------------- MODULE Wire --------------------------------
(***************************************************************************)
(* The WebSocket connections between one runner and the hub.  A connection *)
(* has two ends that do not change together: the hub's socket (hubWs), the *)
(* runner's socket (ws, with the phase of its connect/reconnect cycle in   *)
(* link), and between them two FIFO channels.  A connection that is cut    *)
(* carries nothing new; what was already sent may still arrive, up to a    *)
(* point.  Each end learns of it by a close event of its own, in any order *)
(* with the events of the next connection.                                 *)
(***************************************************************************)
EXTENDS Protocol, Sequences

CONSTANTS Conn,       \* connection ids, reused once both ends are gone
          NoConn,     \* no connection
          MaxQueue    \* bound on the messages in flight in one direction

ASSUME NoConnFresh == NoConn \notin Conn

VARIABLES
  ws,        \* the runner's this.ws while it is connecting or open
  link,      \* where the runner is in its connect/reconnect cycle
  hubWs,     \* the hub's socket of each connection
  cut,       \* the connection carries nothing more
  toHub,     \* messages in flight to the hub
  toRunner   \* messages in flight to the runner

wireVars == <<ws, link, hubWs, cut, toHub, toRunner>>

\* "boot":      the process is up, cmdRun has not called connect() yet
\* "firstTry":  cmdRun's first connect() is under way
\* "bootRetry": that failed, cmdRun's own timer is armed
\* "waiting":   an open socket closed, the runner's reconnect timer is armed
\* "retrying":  a connect() started by a timer is under way
\* "open":      the socket is open
\* "gaveUp":    not connected, and no timer is armed
Link == {"boot", "firstTry", "bootRetry", "waiting", "retrying", "open", "gaveUp"}

Connecting == link \in {"firstTry", "retrying"}

HubWs == {"none", "open", "closing"}

WireTypeOK ==
  /\ ws \in Conn \cup {NoConn}
  /\ link \in Link
  /\ hubWs \in [Conn -> HubWs]
  /\ cut \in [Conn -> BOOLEAN]
  /\ toHub \in [Conn -> Seq(RunnerToHubMsg)]
  /\ toRunner \in [Conn -> Seq(HubToRunnerMsg)]

WireInit ==
  /\ ws = NoConn
  /\ link = "boot"
  /\ hubWs = [c \in Conn |-> "none"]
  /\ cut = [c \in Conn |-> TRUE]
  /\ toHub = [c \in Conn |-> << >>]
  /\ toRunner = [c \in Conn |-> << >>]

\* A connection id that neither end still refers to.
FreeConn(c) == hubWs[c] = "none" /\ ws # c

-----------------------------------------------------------------------------
\* MachineRunner.sendToHub: only an open socket sends, anything else is
\* dropped without a trace.  An open socket over a cut connection drops too.
RunnerSends(msgs) ==
  toHub' = IF link = "open" /\ ~cut[ws]
           THEN [toHub EXCEPT ![ws] = @ \o msgs]
           ELSE toHub

\* Room for n more messages on the channel to the hub (bound MaxQueue).
RoomToHub(n) == link = "open" => Len(toHub[ws]) + n <= MaxQueue

\* Hub.sendToRunner, on connection c.
HubSends(c, msg) ==
  toRunner' = IF hubWs[c] = "open" /\ ~cut[c]
              THEN [toRunner EXCEPT ![c] = Append(@, msg)]
              ELSE toRunner

RoomToRunner(c) == Len(toRunner[c]) < MaxQueue

\* The message the runner's "message" event delivers next.
Delivered(msg) ==
  /\ link = "open"
  /\ toRunner[ws] # << >>
  /\ msg = Head(toRunner[ws])

RunnerConsumes == toRunner' = [toRunner EXCEPT ![ws] = Tail(@)]

HubConsumes(c) == toHub' = [toHub EXCEPT ![c] = Tail(@)]
=============================================================================
