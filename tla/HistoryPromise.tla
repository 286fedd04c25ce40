--------------------------- MODULE HistoryPromise ---------------------------
(***************************************************************************)
(* What the hub promises a client that asks for the history of a session:  *)
(* one reply at most, to the asker alone; and as long as the asker is      *)
(* there and the machine is online, the request is not forgotten.  No      *)
(* sockets, no messages, no timers.                                        *)
(***************************************************************************)

CONSTANTS Client,     \* client connections
          Machine,
          Req         \* request ids

VARIABLES
  made,       \* every request made so far: who asked which machine
  pending,    \* the requests that the hub still has to see to
  replies,    \* the clients each request was answered to
  here,       \* clients whose connection is not over
  listening,  \* clients that can still be sent something
  online      \* machines with a runner

promiseVars == <<made, pending, replies, here, listening, online>>

Init ==
  /\ made = [r \in {} |-> {}]
  /\ pending = {}
  /\ replies = [r \in Req |-> << >>]
  /\ here = {}
  /\ listening = {}
  /\ online = {}

\* A client that is here asks a machine that is online.
Ask(r, c, m) ==
  /\ r \in Req \ DOMAIN made
  /\ c \in here
  /\ m \in online
  /\ made' = [q \in DOMAIN made \cup {r} |->
                IF q = r THEN [conn |-> c, machine |-> m] ELSE made[q]]
  /\ pending' = pending \cup {r}
  /\ UNCHANGED <<replies, here, listening, online>>

\* The asker, and nobody else, is sent the reply.
Reply(r) ==
  /\ r \in pending
  /\ made[r].conn \in listening
  /\ pending' = pending \ {r}
  /\ replies' = [replies EXCEPT ![r] = <<made[r].conn>>]
  /\ UNCHANGED <<made, here, listening, online>>

\* The reply has nobody to go to.
Swallow(r) ==
  /\ r \in pending
  /\ made[r].conn \notin listening
  /\ pending' = pending \ {r}
  /\ UNCHANGED <<made, replies, here, listening, online>>

Join(c) ==
  /\ here' = here \cup {c}
  /\ listening' = listening \cup {c}
  /\ UNCHANGED <<made, pending, replies, online>>

\* Some clients are told to go.
Dismiss == \E left \in SUBSET listening :
  /\ listening' = left
  /\ UNCHANGED <<made, pending, replies, here, online>>

\* A connection ends, and with it exactly the requests it made.
Leave(c) ==
  /\ here' = here \ {c}
  /\ listening' = listening \ {c}
  /\ pending' = {r \in pending : made[r].conn # c}
  /\ UNCHANGED <<made, replies, online>>

MachineOnline(m) ==
  /\ online' = online \cup {m}
  /\ UNCHANGED <<made, pending, replies, here, listening>>

\* A machine goes offline, and with it exactly the requests made to it.
MachineOffline(m) ==
  /\ online' = online \ {m}
  /\ pending' = {r \in pending : made[r].machine # m}
  /\ UNCHANGED <<made, replies, here, listening>>

\* The hub stops: everybody is told to go and nothing is pending.
Stop ==
  /\ pending' = {}
  /\ listening' = {}
  /\ UNCHANGED <<made, replies, here, online>>

Next ==
  \/ \E r \in Req, c \in Client, m \in Machine : Ask(r, c, m)
  \/ \E r \in Req : Reply(r) \/ Swallow(r)
  \/ \E c \in Client : Join(c) \/ Leave(c)
  \/ \E m \in Machine : MachineOnline(m) \/ MachineOffline(m)
  \/ Dismiss
  \/ Stop

Spec == Init /\ [][Next]_promiseVars
=============================================================================
