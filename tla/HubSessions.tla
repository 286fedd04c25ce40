----------------------------- MODULE HubSessions -----------------------------
(***************************************************************************)
(* The hub's handling of sessions for one account and one machine: the     *)
(* rows of the sessions table (hub/src/db.ts), the registered runner       *)
(* connection and its life cycle (hub/src/hub.ts), the dispatch of client  *)
(* messages (hub/src/ws/clientMessage.ts) and of runner messages           *)
(* (hub/src/ws/runnerMessage.ts).  A client message that the hub refuses   *)
(* (unknown session, machine offline) changes nothing and is no action.    *)
(***************************************************************************)
EXTENDS Wire

VARIABLES
  status,     \* column status of each session, "absent" before its row exists
  sdkOf,      \* column sdk_session_id
  archived,   \* sessions whose archived_at is set
  runner,     \* the entry of this.runners for the machine
  shown       \* <<prompt, run>> of the user_prompts relayed to the clients

rowVars == <<status, sdkOf, archived>>
hubVars == <<rowVars, runner, shown>>

HubTypeOK ==
  /\ status \in [Session -> Status \cup {"absent"}]
  /\ sdkOf \in ResumeMap
  /\ archived \subseteq Session
  /\ runner \in Conn \cup {NoConn}
  /\ shown \in [Session -> SUBSET (PromptNo \X Run)]

HubInit ==
  /\ status = [s \in Session |-> "absent"]
  /\ sdkOf = [s \in Session |-> NoSdk]
  /\ archived = {}
  /\ runner = NoConn
  /\ shown = [s \in Session |-> {}]

\* The message at the head of connection c's channel to the hub.  The
\* handlers stay attached while the hub closes the socket.
Arrives(c, msg) ==
  /\ hubWs[c] # "none"
  /\ toHub[c] # << >>
  /\ msg = Head(toHub[c])

HubHandles(c) == HubConsumes(c) /\ UNCHANGED <<ws, link, hubWs, cut, toRunner>>

-----------------------------------------------------------------------------
\* The sessions table.

\* updateSessionStatus: an UPDATE, so that it makes no row.
UpdateStatus(s, st) ==
  status' = IF status[s] = "absent" THEN status
            ELSE [status EXCEPT ![s] = st]

\* A bug: a demotion to a status that is none.
MarkDisconnected ==
  status' = [s \in Session |-> IF status[s] \in ActiveStatus THEN "disconnected"
                               ELSE status[s]]

\* markSessionsIdleForMachine.
MarkIdle ==
  status' = [s \in Session |-> IF status[s] \in ActiveStatus THEN "idle"
                               ELSE status[s]]

\* listResumableSessionsForMachine.  Its order and its limit of 1000 rows are
\* left out (ResumeMap has them): a machine has at most 1000 sessions.
Resumable ==
  [s \in Session |-> IF status[s] # "absent" /\ s \notin archived
                     THEN sdkOf[s] ELSE NoSdk]

-----------------------------------------------------------------------------
\* Client messages.

\* handleStartSession: a new row, born "running".
HandleStartSession(s) ==
  /\ status[s] = "absent"
  /\ runner # NoConn
  /\ RoomToRunner(runner)
  /\ status' = [status EXCEPT ![s] = "running"]
  /\ HubSends(runner, HubStartSession(s))
  /\ UNCHANGED <<sdkOf, archived, runner, shown, ws, link, hubWs, cut, toHub>>

\* resolveSessionRunner: the session exists and its machine is online.  It
\* does not ask whether the session is archived.
HasRunner(s) == status[s] # "absent" /\ runner # NoConn

HandleSendPrompt(s) ==
  /\ HasRunner(s)
  /\ RoomToRunner(runner)
  /\ UpdateStatus(s, "running")
  /\ HubSends(runner, HubSendPrompt(s))
  /\ UNCHANGED <<sdkOf, archived, runner, shown, ws, link, hubWs, cut, toHub>>

\* A client answers a prompt it was shown, whenever it likes: nothing takes
\* an answered or abandoned prompt off the screen of every device.
HandleRespondToPrompt(s, p, r) ==
  /\ HasRunner(s)
  /\ <<p, r>> \in shown[s]
  /\ RoomToRunner(runner)
  /\ HubSends(runner, HubRespondToPrompt(s, p, r))
  /\ UNCHANGED <<hubVars, ws, link, hubWs, cut, toHub>>

HandleArchiveSession(s) ==
  /\ status[s] # "absent"
  /\ s \notin archived
  /\ archived' = archived \cup {s}
  /\ UNCHANGED <<status, sdkOf, runner, shown, wireVars>>

-----------------------------------------------------------------------------
\* Runner messages, on any connection that is not closed yet.

ReceiveUserPrompt(c) ==
  \E s \in Session, p \in PromptNo, r \in Run :
    /\ Arrives(c, UserPrompt(s, p, r))
    /\ shown' = [shown EXCEPT ![s] = @ \cup {<<p, r>>}]
    /\ HubHandles(c)
    /\ UNCHANGED <<rowVars, runner>>

ReceiveStatus(c) ==
  \E s \in Session, st \in Status :
    /\ Arrives(c, SessionStatus(s, st))
    /\ UpdateStatus(s, st)
    /\ HubHandles(c)
    /\ UNCHANGED <<sdkOf, archived, runner, shown>>

ReceiveDone(c) ==
  \E s \in Session, k \in MaybeSdk :
    /\ Arrives(c, SessionDone(s, k))
    /\ UpdateStatus(s, "idle")
    /\ sdkOf' = IF k = NoSdk \/ status[s] = "absent" THEN sdkOf
                ELSE [sdkOf EXCEPT ![s] = k]
    /\ HubHandles(c)
    /\ UNCHANGED <<archived, runner, shown>>

ReceiveError(c) ==
  \E s \in Session :
    /\ Arrives(c, SessionError(s))
    /\ UpdateStatus(s, "error")
    /\ HubHandles(c)
    /\ UNCHANGED <<sdkOf, archived, runner, shown>>

-----------------------------------------------------------------------------
\* Runner connections.

\* handleRunnerConnection: close the connection it replaces, register the
\* new one, replay the resume map to it.
AcceptRunner(c) ==
  /\ ws = c
  /\ Connecting
  /\ hubWs[c] = "none"
  /\ ~cut[c]
  /\ hubWs' = [d \in Conn |-> IF d = c THEN "open"
                              ELSE IF d = runner THEN "closing" ELSE hubWs[d]]
  /\ runner' = c
  /\ toRunner' = [toRunner EXCEPT ![c] = <<HubRunnerResync(Resumable)>>]
  /\ UNCHANGED <<rowVars, shown, ws, link, cut, toHub>>

\* Bugs: any close, or any but the right one, takes the machine offline.
AnyConnection(c) == runner # NoConn
AnotherConnection(c) == runner # c

\* The close handler's question: is this socket the machine's entry?
IsRegistered(c) == runner = c

\* The "close" event, after all that still arrived.  Only the registered
\* connection takes the machine offline and its sessions to idle.
HubWsClose(c) ==
  /\ hubWs[c] # "none"
  /\ cut[c]
  /\ toHub[c] = << >>
  /\ hubWs' = [hubWs EXCEPT ![c] = "none"]
  /\ IF IsRegistered(c) THEN runner' = NoConn /\ MarkIdle
     ELSE UNCHANGED <<runner, status>>
  /\ UNCHANGED <<sdkOf, archived, shown, ws, link, cut, toHub, toRunner>>

\* panicAccount: the runner's socket is closed, its entry stays until the
\* close event.
PanicAccount ==
  /\ runner # NoConn
  /\ hubWs[runner] = "open"
  /\ hubWs' = [hubWs EXCEPT ![runner] = "closing"]
  /\ UNCHANGED <<hubVars, ws, link, cut, toHub, toRunner>>

\* The hub process stops and starts again.  The rows survive as they are;
\* connections and what was in flight to the hub do not.
RestartHub ==
  /\ runner' = NoConn
  /\ hubWs' = [c \in Conn |-> "none"]
  /\ cut' = [c \in Conn |-> TRUE]
  /\ toHub' = [c \in Conn |-> << >>]
  /\ UNCHANGED <<rowVars, shown, ws, link, toRunner>>
=============================================================================
