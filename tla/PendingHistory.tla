--------------------------- MODULE PendingHistory ---------------------------
(***************************************************************************)
(* get_session_history: the hub's PendingHistoryStore and all that adds to *)
(* it, takes from it and drops from it -- clients, runner replies, TTL     *)
(* timers, closing connections (hub/src/state/pendingHistory.ts, hub.ts,   *)
(* ws/clientMessage.ts, ws/runnerMessage.ts) -- with the runners'          *)
(* getHistory, which answers on whatever connection the runner has by then.*)
(***************************************************************************)
EXTENDS Sequences

CONSTANTS Client,     \* client connections, each used once
          Machine,
          Link,       \* runner connections, each used once
          MachineOf,  \* the machine of each
          NoLink,
          Req         \* request ids (randomUUID)

ASSUME MachineOfType == MachineOf \in [Link -> Machine]
ASSUME NoLinkFresh == NoLink \notin Link

VARIABLES
  entries,    \* PendingHistoryStore.entries
  timers,     \* requests whose TTL timer is armed
  clientWs,   \* the hub's socket of each client connection
  runners,    \* Hub.runners
  linkWs,     \* the hub's socket of each runner connection
  lost,       \* runner connections whose runner end is gone
  socket,     \* the open socket of each runner
  asked,      \* hub_get_history in flight, as <<connection, request>>
  fetching,   \* getHistory calls that wait for the SDK, as <<machine, request>>
  answers,    \* session_history in flight, as <<connection, request>>
  made,       \* every request made so far      (read by properties only)
  replies,    \* the clients each was answered to (read by properties only)
  stopped     \* Hub.stop() was called

hubState == <<entries, timers, clientWs, runners, linkWs, made, replies, stopped>>
runnerState == <<lost, socket, asked, fetching, answers>>
vars == <<hubState, runnerState>>

WsState == {"none", "open", "closing", "closed"}

\* A socket whose handlers may still run.
Handling == {"open", "closing"}

Request == [conn : Client, machine : Machine]

\* The store and the hub's maps only ever hold requests, timers and sockets of
\* their kind, whichever handlers compete for an entry.
TypeOK ==
  /\ DOMAIN entries \subseteq Req
  /\ entries \in [DOMAIN entries -> Request]
  /\ timers \subseteq Req
  /\ clientWs \in [Client -> WsState]
  /\ runners \in [Machine -> Link \cup {NoLink}]
  /\ linkWs \in [Link -> WsState]
  /\ lost \subseteq Link
  /\ socket \in [Machine -> Link \cup {NoLink}]
  /\ asked \subseteq Link \X Req
  /\ fetching \subseteq Machine \X Req
  /\ answers \subseteq Link \X Req
  /\ DOMAIN made \subseteq Req
  /\ made \in [DOMAIN made -> Request]
  /\ replies \in [Req -> Seq(Client)]
  /\ stopped \in BOOLEAN

Init ==
  /\ entries = [r \in {} |-> {}]
  /\ timers = {}
  /\ clientWs = [c \in Client |-> "none"]
  /\ runners = [m \in Machine |-> NoLink]
  /\ linkWs = [l \in Link |-> "none"]
  /\ lost = {}
  /\ socket = [m \in Machine |-> NoLink]
  /\ asked = {}
  /\ fetching = {}
  /\ answers = {}
  /\ made = [r \in {} |-> {}]
  /\ replies = [r \in Req |-> << >>]
  /\ stopped = FALSE

-----------------------------------------------------------------------------
\* The store.

\* Map.set, on a partial function.
With(f, r, e) == [q \in DOMAIN f \cup {r} |-> IF q = r THEN e ELSE f[q]]

Without(rs) == [r \in DOMAIN entries \ rs |-> entries[r]]

\* A bug: no timer for the entry.
AddUntimed(r, e) == entries' = With(entries, r, e) /\ UNCHANGED timers

Add(r, e) == entries' = With(entries, r, e) /\ timers' = timers \cup {r}

\* A bug: put nothing in the entry's place, instead of deleting it.
TakeNulled(r) == entries' = With(entries, r, NoLink) /\ timers' = timers \ {r}

\* A bug: clear the timer of a request and leave its entry.
TakeTimerOnly(r) == timers' = timers \ {r} /\ UNCHANGED entries

Take(r) == entries' = Without({r}) /\ timers' = timers \ {r}

\* A bug: forget to drop.
DropNothing(rs) == UNCHANGED <<entries, timers>>

\* A bug: drop everything, whatever the predicate says.
DropAll(rs) == entries' = Without(DOMAIN entries) /\ timers' = {}

\* dropMatching, for the requests rs that its predicate accepts.
DropMatching(rs) == entries' = Without(rs) /\ timers' = timers \ rs

RequestsOf(c) == {r \in DOMAIN entries : entries[r].conn = c}
RequestsTo(m) == {r \in DOMAIN entries : entries[r].machine = m}

\* Hub.sendToClient to the asker of an entry: only an open socket is sent to.
ReplyTo(r, c) ==
  replies' = IF clientWs[c] = "open" THEN [replies EXCEPT ![r] = Append(@, c)]
             ELSE replies

-----------------------------------------------------------------------------
\* Clients.

ClientConnects(c) ==
  /\ ~stopped
  /\ clientWs[c] = "none"
  /\ clientWs' = [clientWs EXCEPT ![c] = "open"]
  /\ UNCHANGED <<entries, timers, runners, linkWs, made, replies, stopped, runnerState>>

\* handleGetSessionHistory, for a session of machine m: add an entry with its
\* timer, then ask the runner -- if its socket is open.
GetHistory(c, m, r) ==
  /\ clientWs[c] \in Handling
  /\ runners[m] # NoLink
  /\ r \notin DOMAIN made
  /\ Add(r, [conn |-> c, machine |-> m])
  /\ made' = With(made, r, [conn |-> c, machine |-> m])
  /\ asked' = IF linkWs[runners[m]] = "open" THEN asked \cup {<<runners[m], r>>} ELSE asked
  /\ UNCHANGED <<clientWs, runners, linkWs, replies, stopped, lost, socket,
                 fetching, answers>>

\* The close event of a client's socket.
ClientCloses(c) ==
  /\ clientWs[c] \in Handling
  /\ clientWs' = [clientWs EXCEPT ![c] = "closed"]
  /\ DropMatching(RequestsOf(c))
  /\ UNCHANGED <<runners, linkWs, made, replies, stopped, runnerState>>

\* The TTL timer of a request fires.
Expire(r) ==
  /\ r \in timers
  /\ timers' = timers \ {r}
  /\ IF r \in DOMAIN entries
     THEN entries' = Without({r}) /\ ReplyTo(r, entries[r].conn)
     ELSE UNCHANGED <<entries, replies>>
  /\ UNCHANGED <<clientWs, runners, linkWs, made, stopped, runnerState>>

-----------------------------------------------------------------------------
\* The hub's side of the runner connections.

\* handleRunnerConnection: replace and register; the entries stay, because a
\* runner may answer on its next connection.
AcceptRunner(l) ==
  LET m == MachineOf[l]
  IN /\ ~stopped
     /\ linkWs[l] = "none"
     /\ l \notin lost
     /\ \A k \in Link : MachineOf[k] = m /\ linkWs[k] # "none" => k \in lost
     /\ linkWs' = [k \in Link |->
                     IF k = l THEN "open"
                     ELSE IF k = runners[m] THEN "closing" ELSE linkWs[k]]
     /\ runners' = [runners EXCEPT ![m] = l]
     /\ UNCHANGED <<entries, timers, clientWs, made, replies, stopped, runnerState>>

\* session_history, on any connection of the machine that was asked: peek,
\* then take and reply.  Unknown (expired, dropped) requests are ignored.
ReceiveAnswer(l, r) ==
  /\ <<l, r>> \in answers
  /\ linkWs[l] \in Handling
  /\ answers' = answers \ {<<l, r>>}
  /\ IF r \in DOMAIN entries /\ entries[r].machine = MachineOf[l]
     THEN Take(r) /\ ReplyTo(r, entries[r].conn)
     ELSE UNCHANGED <<entries, timers, replies>>
  /\ UNCHANGED <<clientWs, runners, linkWs, made, stopped, lost, socket, asked, fetching>>

\* The close event of a runner connection.  Answers on it that did not arrive
\* never will; only the registered one takes the machine's requests along.
LinkCloses(l) ==
  LET m == MachineOf[l]
  IN /\ linkWs[l] \in Handling
     /\ l \in lost
     /\ linkWs' = [linkWs EXCEPT ![l] = "closed"]
     /\ answers' = {a \in answers : a[1] # l}
     /\ IF runners[m] = l
        THEN runners' = [runners EXCEPT ![m] = NoLink] /\ DropMatching(RequestsTo(m))
        ELSE UNCHANGED <<runners, entries, timers>>
     /\ UNCHANGED <<clientWs, made, replies, stopped, lost, socket, asked, fetching>>

\* Every open client is told to go, and every registered runner connection.
CloseAll ==
  /\ clientWs' = [c \in Client |-> IF clientWs[c] = "open" THEN "closing" ELSE clientWs[c]]
  /\ linkWs' = [l \in Link |-> IF linkWs[l] = "open" /\ runners[MachineOf[l]] = l
                               THEN "closing" ELSE linkWs[l]]

PanicAccount ==
  /\ CloseAll
  /\ UNCHANGED <<entries, timers, runners, made, replies, stopped, runnerState>>

\* Hub.stop(), up to the close events that follow.
Stop ==
  /\ ~stopped
  /\ stopped' = TRUE
  /\ CloseAll
  /\ DropMatching(Req)
  /\ UNCHANGED <<runners, made, replies, runnerState>>

-----------------------------------------------------------------------------
\* The runners.

RunnerOpens(l) ==
  /\ linkWs[l] \in Handling
  /\ l \notin lost
  /\ socket[MachineOf[l]] = NoLink
  /\ socket' = [socket EXCEPT ![MachineOf[l]] = l]
  /\ UNCHANGED <<hubState, lost, asked, fetching, answers>>

\* The runner's end of a connection is gone, and with it what was on its way
\* to the runner; of what it had sent a part may still arrive.
Lose(l) ==
  /\ l \notin lost
  /\ lost' = lost \cup {l}
  /\ socket' = [m \in Machine |-> IF socket[m] = l THEN NoLink ELSE socket[m]]
  /\ asked' = {a \in asked : a[1] # l}
  /\ \E gone \in SUBSET {a \in answers : a[1] = l} : answers' = answers \ gone

RunnerLoses(l) ==
  /\ linkWs[l] # "none"
  /\ Lose(l)
  /\ UNCHANGED <<hubState, fetching>>

\* hub_get_history: getHistory up to its await.
RunnerFetches(l, r) ==
  /\ <<l, r>> \in asked
  /\ socket[MachineOf[l]] = l
  /\ asked' = asked \ {<<l, r>>}
  /\ fetching' = fetching \cup {<<MachineOf[l], r>>}
  /\ UNCHANGED <<hubState, lost, socket, answers>>

\* getHistory after its await, with messages or an error: it answers on the
\* socket the runner has now, or drops the answer.
RunnerAnswers(m, r) ==
  /\ <<m, r>> \in fetching
  /\ fetching' = fetching \ {<<m, r>>}
  /\ answers' = IF socket[m] = NoLink THEN answers ELSE answers \cup {<<socket[m], r>>}
  /\ UNCHANGED <<hubState, lost, socket, asked>>

\* The process ends while it is connected.
RestartRunner(m) ==
  /\ socket[m] # NoLink
  /\ Lose(socket[m])
  /\ fetching' = {f \in fetching : f[1] # m}
  /\ UNCHANGED hubState

-----------------------------------------------------------------------------
Next ==
  \/ \E c \in Client : ClientConnects(c) \/ ClientCloses(c)
  \/ \E c \in Client, m \in Machine, r \in Req : GetHistory(c, m, r)
  \/ \E r \in Req : Expire(r)
  \/ \E l \in Link : AcceptRunner(l) \/ LinkCloses(l) \/ RunnerOpens(l) \/ RunnerLoses(l)
  \/ \E l \in Link, r \in Req : ReceiveAnswer(l, r) \/ RunnerFetches(l, r)
  \/ \E m \in Machine, r \in Req : RunnerAnswers(m, r)
  \/ \E m \in Machine : RestartRunner(m)
  \/ PanicAccount
  \/ Stop

Spec == Init /\ [][Next]_vars

\* Timers fire.  Nothing is assumed of runners, clients or the network.
FairSpec == Spec /\ \A r \in Req : WF_vars(Expire(r))

-----------------------------------------------------------------------------
\* Every pending request has an asker whose close event is still to come, a
\* registered runner, and an armed timer: it cannot leak.
EntryAttended ==
  \A r \in DOMAIN entries :
    /\ clientWs[entries[r].conn] \in Handling
    /\ runners[entries[r].machine] # NoLink
    /\ r \in timers

\* Whatever happens, a request is answered once at most, to its asker.
OneReply ==
  \A r \in Req : replies[r] # << >> =>
    r \in DOMAIN made \ DOMAIN entries /\ replies[r] = <<made[r].conn>>

\* The store, the sockets and the timers keep the promise.
Promise == INSTANCE HistoryPromise WITH
  pending   <- DOMAIN entries,
  here      <- {c \in Client : clientWs[c] \in Handling},
  listening <- {c \in Client : clientWs[c] = "open"},
  online    <- {m \in Machine : runners[m] # NoLink}

KeepsPromise == Promise!Spec

\* No client waits for ever: while the asker stays and the machine stays
\* online, a reply comes, at the latest from the timer.
Answered ==
  \A r \in Req :
    r \in DOMAIN entries
      ~> /\ r \in DOMAIN made
         /\ \/ replies[r] # << >>
            \/ clientWs[made[r].conn] # "open"
            \/ runners[made[r].machine] = NoLink
=============================================================================
