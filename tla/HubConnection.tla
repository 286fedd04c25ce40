---------------------------- MODULE HubConnection ----------------------------
(***************************************************************************)
(* The client's connection to the hub (CCNetworking/HubConnection.swift):  *)
(* login, register, stored tokens, the reconnect loop, logout and panic,   *)
(* with the hub's side from AuthTokens.  The class runs on the main actor, *)
(* so its methods interleave at their awaits only.  A flow is one such     *)
(* call, or one task of scheduleReconnect, and `at' is where it awaits.    *)
(***************************************************************************)
EXTENDS AuthTokens

CONSTANTS Loop,       \* slots for tasks of scheduleReconnect
          Sock,       \* slots for WebSocketClient objects
          MaxActs,    \* bound on the user's logins, registrations and panics
          MaxFaults   \* bound on faults

ASSUME CallersAreFlows == Caller = {"user", "leave"} \cup Loop
ASSUME LoopsApart == Loop \cap {"none", "user", "leave"} = {}
ASSUME SocksApart == "none" \notin Sock /\ Sock # {}
ASSUME MaxActsNat == MaxActs \in Nat
ASSUME MaxFaultsNat == MaxFaults \in Nat

VARIABLES
  stored,        \* the pair in the keychain, or None
  state,         \* HubConnection.state
  reconnecting,  \* shouldReconnect
  wsClient,      \* the socket of wsClient, or "none"
  readerTask,    \* messageStreamTask: the socket that it reads, or "none"
  loopTask,      \* reconnectTask: its slot, or "none"
  flow,          \* flow[f]: where f awaits; the socket and JWT it connects with
  cancelled,     \* loops whose task was cancelled
  sock,          \* sock[s]: the connection, seen from both ends
  reader,        \* reader[s]: the task that iterates over the messages of s
  acts,          \* acts of the user so far
  faults,        \* faults so far
  once,          \* connected since the launch or the login, not signed out
                 \* (read by properties only, as the next two)
  overtaken,     \* a logout began while another flow awaited the network
  left           \* a logout ended, and no login began since

clientVars == <<stored, state, reconnecting, wsClient, readerTask, loopTask,
                flow, cancelled, sock, reader, once, overtaken, left>>
vars == <<authVars, clientVars, acts, faults>>

\* "rest": login or register; "ws": connect with the stored JWT, a rejection
\* leads to a refresh; "ws2": connect with new tokens; "leaving": disconnect
Phase == {"idle", "sleep", "rest", "ws", "refresh", "ws2", "panic", "leaving"}

Idle == [at |-> "idle", ws |-> "none", jwt |-> None]

\* "asked": upgrade under way; "open": accepted, the first frames are sent;
\* "refused": closed with 4001; "dead": closed or lost
SockState == {"free", "asked", "open", "refused", "dead"}

TypeOK ==
  /\ AuthTypeOK
  /\ stored \in Pair \cup {None}
  /\ state \in {"disconnected", "connecting", "connected"}
  /\ reconnecting \in BOOLEAN
  /\ wsClient \in Sock \cup {"none"}
  /\ readerTask \in Sock \cup {"none"}
  /\ loopTask \in Loop \cup {"none"}
  /\ flow \in [Caller -> [at : Phase, ws : Sock \cup {"none"}, jwt : Pair \cup {None}]]
  /\ cancelled \subseteq Loop
  /\ sock \in [Sock -> SockState]
  /\ reader \in [Sock -> {"none", "reading", "cancelled"}]
  /\ acts \in 0..MaxActs
  /\ faults \in 0..MaxFaults
  /\ once \in BOOLEAN /\ overtaken \in BOOLEAN /\ left \in BOOLEAN

Init ==
  /\ AuthInit
  /\ stored = None
  /\ state = "disconnected"
  /\ reconnecting = FALSE
  /\ wsClient = "none"
  /\ readerTask = "none"
  /\ loopTask = "none"
  /\ flow = [f \in Caller |-> Idle]
  /\ cancelled = {}
  /\ sock = [s \in Sock |-> "free"]
  /\ reader = [s \in Sock |-> "none"]
  /\ acts = 0
  /\ faults = 0
  /\ once = FALSE
  /\ overtaken = FALSE
  /\ left = FALSE

Live == {l \in Loop : flow[l].at # "idle"}

\* Flows that a logout does not stop: nothing cancels them, or nothing that
\* they await heeds the cancellation.
InFlight == {f \in Caller : flow[f].at \in {"rest", "ws", "refresh", "ws2"}}

\* What an action does to the two counts.
Act == acts < MaxActs /\ acts' = acts + 1 /\ UNCHANGED faults

Fault == faults < MaxFaults /\ faults' = faults + 1 /\ UNCHANGED acts

NoFault == UNCHANGED <<acts, faults>>
-----------------------------------------------------------------------------
(* Parts of the actions.                                                   *)

Goes(f, phase) == flow' = [flow EXCEPT ![f] = [Idle EXCEPT !.at = phase]]

\* A request of f to the hub, that f awaits in the given phase.
Ask(f, phase, op, arg) ==
  /\ call' = [call EXCEPT ![f] = [op |-> op, at |-> "hub", arg |-> arg, got |-> None]]
  /\ Goes(f, phase)

Answered(f) == call' = [call EXCEPT ![f] = NoCall]

FreeSock == CHOOSE s \in Sock : sock[s] = "free"

\* connectWebSocket with the JWT of p, up to its await of ws.connect.
Connect(f, phase, p) ==
  /\ \E s \in Sock : sock[s] = "free"
  /\ sock' = [sock EXCEPT ![FreeSock] = "asked"]
  /\ flow' = [flow EXCEPT ![f] = [at |-> phase, ws |-> FreeSock, jwt |-> p]]
  /\ state' = "connecting"
  /\ reconnecting' = TRUE

\* A bug: a failed attempt ends the loop.
GivesUp(f) == Goes(f, "idle")

\* A call ends with an error; a loop that may goes round again.
Throw(f) == Goes(f, IF f \in Loop \ cancelled /\ reconnecting THEN "sleep" ELSE "idle")

\* cancel() of loopTask, where it still runs.
CancelLoop == cancelled \cup (Live \cap {loopTask})

\* A bug: the old reader goes on.
KeepReader == reader

\* cancel() of messageStreamTask, where it still runs.
CancelReader ==
  [s \in Sock |-> IF s = readerTask /\ reader[s] = "reading"
                    THEN "cancelled" ELSE reader[s]]

FreeLoop == CHOOSE l \in Loop : flow[l].at = "idle"

\* A bug: the loop before is not cancelled.
SchedulesBesides ==
  /\ \E l \in Loop : flow[l].at = "idle"
  /\ cancelled' = cancelled \ {FreeLoop}
  /\ loopTask' = FreeLoop
  /\ Goes(FreeLoop, "sleep")

\* scheduleReconnect.  A loop that is scheduled tests shouldReconnect before
\* its first sleep; a logout until then cancels it, which it sees after it.
Schedule ==
  /\ \E l \in Loop : flow[l].at = "idle"
  /\ cancelled' = CancelLoop \ {FreeLoop}
  /\ loopTask' = FreeLoop
  /\ Goes(FreeLoop, "sleep")

\* handleDisconnect.
HandleDisconnect ==
  /\ state' = "disconnected"
  /\ wsClient' = "none"
  /\ IF reconnecting THEN Schedule ELSE UNCHANGED <<flow, cancelled, loopTask>>

-----------------------------------------------------------------------------
(* Login and registration, offered while isAuthenticated is false.  A      *)
(* cancelled reader is in the main actor's queue before the user can act.  *)

Login(op) ==
  /\ state # "connected" /\ stored = None
  /\ flow["user"].at = "idle"
  /\ \A s \in Sock : reader[s] # "cancelled"
  /\ Committed < MaxPair
  /\ op \in {"register", "login"}
  /\ Ask("user", "rest", op, None)
  /\ left' = FALSE
  /\ UNCHANGED <<account, rows, overdue, jwts, issued, heirs, gone, stored, state,
                 reconnecting, wsClient, readerTask, loopTask, cancelled, sock,
                 reader, once, overtaken>>
  /\ Act

\* A bug: tokens of a refresh are used and not saved.
UsesTokensUnsaved(f) ==
  /\ flow[f].at \in {"rest", "refresh"}
  /\ call[f].at = "granted"
  /\ stored' = IF flow[f].at = "rest" THEN call[f].got ELSE stored
  /\ Connect(f, "ws2", call[f].got)
  /\ Answered(f)
  /\ UNCHANGED <<account, rows, overdue, jwts, issued, heirs, gone, wsClient,
                 readerTask, loopTask, cancelled, reader, once, overtaken, left>>
  /\ NoFault

\* The reply of register, login or refresh: saveTokens, connect.
TokensArrive(f) ==
  /\ flow[f].at \in {"rest", "refresh"}
  /\ call[f].at = "granted"
  /\ stored' = call[f].got
  /\ Connect(f, "ws2", call[f].got)
  /\ Answered(f)
  /\ UNCHANGED <<account, rows, overdue, jwts, issued, heirs, gone, wsClient,
                 readerTask, loopTask, cancelled, reader, once, overtaken, left>>
  /\ NoFault

TokensRefused(f) ==
  /\ flow[f].at \in {"rest", "refresh"}
  /\ call[f].at = "refused"
  /\ Throw(f)
  /\ Answered(f)
  /\ UNCHANGED <<account, rows, overdue, jwts, issued, heirs, gone, stored, state,
                 reconnecting, wsClient, readerTask, loopTask, cancelled, sock,
                 reader, once, overtaken, left>>
  /\ NoFault

\* A request of f fails: before the hub looks at it (or by its rate limiter), or
\* with the reply lost.  URLSession gives up the request of a cancelled loop.
RequestFails(f) ==
  /\ flow[f].at \in {"rest", "refresh", "panic"}
  /\ call[f].at # "bcrypt"
  /\ Throw(f)
  /\ Answered(f)
  /\ gone' = gone \cup (IF call[f].op = "refresh" /\ call[f].at = "granted"
                           THEN {call[f].arg} ELSE {})
  /\ UNCHANGED <<account, rows, overdue, jwts, issued, heirs, stored, state,
                 reconnecting, wsClient, readerTask, loopTask, cancelled, sock,
                 reader, once, overtaken, left>>
  /\ IF f \in cancelled THEN NoFault ELSE Fault

-----------------------------------------------------------------------------
(* Connecting.                                                             *)

\* handleClientConnection: the JWT is verified, the first lists are sent.
HubAccepts(f) ==
  /\ flow[f].at \in {"ws", "ws2"}
  /\ sock[flow[f].ws] = "asked"
  /\ sock' = [sock EXCEPT ![flow[f].ws] =
                            IF flow[f].jwt \in jwts THEN "open" ELSE "refused"]
  /\ UNCHANGED <<authVars, stored, state, reconnecting, wsClient, readerTask,
                 loopTask, flow, cancelled, reader, once, overtaken, left>>
  /\ NoFault

\* ws.connect returns with the first frame: the client is committed, the old
\* reader is cancelled, a new one is started.  A loop ends.
ConnectReturns(f) ==
  LET s == flow[f].ws IN
  /\ flow[f].at \in {"ws", "ws2"}
  /\ sock[s] \in {"open", "dead"}
  /\ wsClient' = s
  /\ state' = "connected"
  /\ reader' = [CancelReader EXCEPT ![s] = "reading"]
  /\ readerTask' = s
  /\ Goes(f, "idle")
  /\ once' = TRUE
  /\ UNCHANGED <<authVars, stored, reconnecting, loopTask, cancelled, sock,
                 overtaken, left>>
  /\ NoFault

\* Close code 4001.  With the stored JWT: refresh, with the refresh token that
\* is in the keychain now.
ConnectRejected(f) ==
  /\ flow[f].at \in {"ws", "ws2"}
  /\ sock[flow[f].ws] = "refused"
  /\ sock' = [sock EXCEPT ![flow[f].ws] = "free"]
  /\ state' = "disconnected"
  /\ IF flow[f].at = "ws" /\ stored # None
       THEN Ask(f, "refresh", "refresh", stored)
       ELSE Throw(f) /\ UNCHANGED call
  /\ UNCHANGED <<account, rows, overdue, jwts, issued, heirs, gone, stored,
                 reconnecting, wsClient, readerTask, loopTask, cancelled, reader,
                 once, overtaken, left>>
  /\ NoFault

\* No network, no hub, or ten seconds without a first frame.
ConnectFails(f) ==
  /\ flow[f].at \in {"ws", "ws2"}
  /\ sock' = [sock EXCEPT ![flow[f].ws] = "free"]
  /\ state' = "disconnected"
  /\ Throw(f)
  /\ UNCHANGED <<authVars, stored, reconnecting, wsClient, readerTask, loopTask,
                 cancelled, reader, once, overtaken, left>>
  /\ IF sock[flow[f].ws] = "dead" THEN NoFault ELSE Fault

\* The reader of s ends: its stream failed, or it was cancelled.
ReaderEnds(s) ==
  /\ reader[s] = "cancelled" \/ (reader[s] = "reading" /\ sock[s] = "dead")
  /\ reader' = [reader EXCEPT ![s] = "none"]
  /\ sock' = [sock EXCEPT ![s] = "free"]
  /\ HandleDisconnect
  /\ UNCHANGED <<authVars, stored, reconnecting, readerTask, once, overtaken, left>>
  /\ NoFault

\* The sleep of a loop ends: attemptReconnect, unless it was cancelled.
LoopWakes(l) ==
  /\ flow[l].at = "sleep"
  /\ \/ /\ l \in cancelled
        /\ Goes(l, "idle")
        /\ UNCHANGED <<state, reconnecting, sock>>
     \/ /\ l \notin cancelled
        /\ stored = None
        /\ Throw(l)
        /\ UNCHANGED <<state, reconnecting, sock>>
     \/ /\ l \notin cancelled
        /\ stored # None
        /\ Connect(l, "ws", stored)
  /\ UNCHANGED <<authVars, stored, wsClient, readerTask, loopTask, cancelled,
                 reader, once, overtaken, left>>
  /\ NoFault

-----------------------------------------------------------------------------
(* Panic, and the logout that follows it: nothing else of the app calls    *)
(* logout.                                                                 *)

\* Nothing of logout after its await of disconnect.
Forget ==
  /\ wsClient' = "none"
  /\ stored' = None
  /\ state' = "disconnected"
  /\ once' = FALSE

\* A bug: shouldReconnect stays.
LogoutThatReconnects ==
  /\ UNCHANGED reconnecting
  /\ cancelled' = CancelLoop
  /\ loopTask' = "none"
  /\ reader' = CancelReader
  /\ readerTask' = "none"
  /\ overtaken' = (overtaken \/ InFlight # {})
  /\ IF wsClient = "none"
       THEN /\ Forget
            /\ Goes("leave", "idle")
            /\ left' = TRUE
            /\ UNCHANGED sock
       ELSE /\ Goes("leave", "leaving")
            /\ sock' = [sock EXCEPT ![wsClient] = "dead"]
            /\ UNCHANGED <<wsClient, stored, state, once, left>>

\* logout, up to the await of disconnect, or to its end without one.
StartLogout ==
  /\ reconnecting' = FALSE
  /\ cancelled' = CancelLoop
  /\ loopTask' = "none"
  /\ reader' = CancelReader
  /\ readerTask' = "none"
  /\ overtaken' = (overtaken \/ InFlight # {})
  /\ IF wsClient = "none"
       THEN /\ Forget
            /\ Goes("leave", "idle")
            /\ left' = TRUE
            /\ UNCHANGED sock
       ELSE /\ Goes("leave", "leaving")
            /\ sock' = [sock EXCEPT ![wsClient] = "dead"]
            /\ UNCHANGED <<wsClient, stored, state, once, left>>

\* disconnect returned.
EndLogout ==
  /\ flow["leave"].at = "leaving"
  /\ Forget
  /\ Goes("leave", "idle")
  /\ left' = TRUE
  /\ UNCHANGED <<authVars, reconnecting, readerTask, loopTask, cancelled, sock,
                 reader, overtaken>>
  /\ NoFault

Panic ==
  /\ flow["leave"].at = "idle"
  /\ stored # None
  /\ Ask("leave", "panic", "panic", stored)
  /\ UNCHANGED <<account, rows, overdue, jwts, issued, heirs, gone, stored, state,
                 reconnecting, wsClient, readerTask, loopTask, cancelled, sock,
                 reader, once, overtaken, left>>
  /\ Act

\* panicAccount closes every connection that it accepted with 4003.
CloseAll == [s \in Sock |-> IF sock[s] = "open" THEN "dead" ELSE sock[s]]

\* handlePanic: a JWT past its hour is refused with 401.
HubPanics ==
  /\ call["leave"].at = "hub"
  /\ IF call["leave"].arg \in jwts
       THEN /\ RevokeAll
            /\ sock' = CloseAll
            /\ call' = [call EXCEPT !["leave"].at = "granted"]
       ELSE /\ Refuse("leave")
            /\ UNCHANGED <<account, rows, overdue, jwts, issued, heirs, gone, sock>>
  /\ UNCHANGED <<stored, state, reconnecting, wsClient, readerTask, loopTask, flow,
                 cancelled, reader, once, overtaken, left>>
  /\ NoFault

PanicReturns ==
  /\ flow["leave"].at = "panic"
  /\ \/ /\ call["leave"].at = "granted"
        /\ StartLogout
     \/ /\ call["leave"].at = "refused"
        /\ Goes("leave", "idle")
        /\ UNCHANGED <<stored, state, reconnecting, wsClient, readerTask, loopTask,
                       cancelled, sock, reader, once, overtaken, left>>
  /\ Answered("leave")
  /\ UNCHANGED <<account, rows, overdue, jwts, issued, heirs, gone>>
  /\ NoFault

-----------------------------------------------------------------------------
(* Time, the network, the operating system and the other devices.          *)

Untouched ==
  UNCHANGED <<stored, state, reconnecting, wsClient, readerTask, loopTask, flow,
              cancelled, reader, once, overtaken, left>>

\* Only a pair that the client still uses can make a difference.
TimePasses ==
  /\ \/ \E p \in Pair : p = stored /\ JwtExpires(p) /\ NoFault
     \/ \E p \in Pair : p = stored /\ RefreshExpires(p) /\ Fault
  /\ Untouched
  /\ UNCHANGED sock

SocketDrops(s) ==
  /\ sock[s] = "open"
  /\ sock' = [sock EXCEPT ![s] = "dead"]
  /\ UNCHANGED authVars
  /\ Untouched
  /\ Fault

OtherDevice ==
  /\ \/ RegistersElsewhere /\ UNCHANGED sock /\ NoFault
     \/ RevokeAll /\ account /\ sock' = CloseAll /\ UNCHANGED call /\ Fault
  /\ Untouched

\* The app is killed and launched again: with a stored JWT it connects.
Relaunch ==
  /\ gone' = gone \cup {call[f].arg : f \in {g \in Caller :
                          call[g].op = "refresh" /\ call[g].at = "granted"}}
  /\ call' = [f \in Caller |-> NoCall]
  /\ IF stored = None
       THEN /\ flow' = [f \in Caller |-> Idle]
            /\ sock' = [s \in Sock |-> "free"]
            /\ state' = "disconnected"
            /\ reconnecting' = FALSE
       ELSE LET first == CHOOSE s \in Sock : TRUE IN
            /\ flow' = [[f \in Caller |-> Idle] EXCEPT !["user"] =
                          [at |-> "ws", ws |-> first, jwt |-> stored]]
            /\ sock' = [[s \in Sock |-> "free"] EXCEPT ![first] = "asked"]
            /\ state' = "connecting"
            /\ reconnecting' = TRUE
  /\ wsClient' = "none"
  /\ readerTask' = "none"
  /\ loopTask' = "none"
  /\ cancelled' = {}
  /\ reader' = [s \in Sock |-> "none"]
  /\ once' = FALSE
  /\ overtaken' = FALSE
  /\ left' = FALSE
  /\ UNCHANGED <<account, rows, overdue, jwts, issued, heirs, stored>>
  /\ Fault

\* Steps of the hub on its own: what AuthTokens defines.
Hub(c) == HubStep(c) /\ Untouched /\ UNCHANGED sock /\ NoFault

User == Panic \/ \E op \in {"register", "login"} : Login(op)

Flows(f) ==
  \/ TokensArrive(f) \/ TokensRefused(f) \/ RequestFails(f)
  \/ HubAccepts(f) \/ ConnectReturns(f) \/ ConnectRejected(f) \/ ConnectFails(f)

Next ==
  \/ User
  \/ \E f \in Caller : Hub(f) \/ Flows(f)
  \/ \E l \in Loop : LoopWakes(l)
  \/ \E s \in Sock : ReaderEnds(s) \/ SocketDrops(s)
  \/ HubPanics \/ PanicReturns \/ EndLogout
  \/ TimePasses \/ OtherDevice \/ Relaunch

HubWorks == \E f \in Caller : Hub(f) \/ HubAccepts(f)

\* What the flows that connect wait for, and the tasks.
AppWorks ==
  \/ \E s \in Sock : ReaderEnds(s)
  \/ \E l \in Loop : LoopWakes(l)
  \/ \E f \in Caller :
       TokensArrive(f) \/ TokensRefused(f) \/ ConnectReturns(f) \/ ConnectRejected(f)

\* Neither process hangs: requests are answered, timers fire, tasks go on.
Fairness ==
  /\ WF_vars(HubWorks) /\ WF_vars(HubPanics)
  /\ WF_vars(AppWorks) /\ WF_vars(PanicReturns \/ EndLogout)

Spec == Init /\ [][Next]_vars /\ Fairness

-----------------------------------------------------------------------------
(* Properties.                                                             *)

\* A refresh token is good for one exchange, also when the reply is lost and
\* the client asks again, or two flows ask at once (auth.ts, refresh).
RefreshOnce == \A p \in Pair : heirs[p] <= 1

\* The client never spends the refresh token it lives on: what the keychain
\* holds is in the hub's table, or the exchange for it is under way, unless a
\* panic, the 30 days or a lost reply took it (HubConnection.swift, the tokens
\* are saved before the connection is tried).
StoredTokenGood ==
  stored # None =>
    \/ stored \in rows \cup gone
    \/ \E f \in Caller : call[f].op = "refresh" /\ call[f].arg = stored

\* Whatever tasks overlap, at most one reader feeds messages to the app, and a
\* client that shows "connected" has it on the socket that it sends to, but for
\* the moment in which a logout waits for that socket to close.
OneFeed ==
  /\ \A s, t \in Sock : reader[s] = "reading" /\ reader[t] = "reading" => s = t
  /\ state = "connected" /\ flow["leave"].at # "leaving" =>
       wsClient # "none" /\ reader[wsClient] = "reading"

\* At most one loop runs that was not told to stop.
OneLoop == \A k, l \in Live \ cancelled : k = l

\* Signed out stays signed out: no loop, no reader and no late reply brings
\* back the connection or the tokens, unless the logout began while a request or
\* a connect awaited the network (HubConnection.swift, logout).
SignedOut ==
  /\ stored = None /\ state = "disconnected"
  /\ \A s \in Sock : reader[s] # "reading"
  /\ Live \subseteq cancelled

StaysOut == left /\ ~overtaken => SignedOut

\* What ends the duty to reconnect.
Excused == ~once \/ overtaken \/ stored \in gone

\* A client that was connected, and did not sign out, is connected again for
\* good once the faults are over.
ComesBack == <>[](state = "connected" \/ Excused)
=============================================================================
