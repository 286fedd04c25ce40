------------------------- MODULE HubConnectionProofs -------------------------
(***************************************************************************)
(* The safety of the client's connection, for any number of pairs, loops   *)
(* and sockets and any number of acts and faults.  The inductive invariant *)
(* is built in layers: types; what a flow awaits; loops; readers; the      *)
(* exchange of refresh tokens; the silence after a logout.                 *)
(***************************************************************************)
EXTENDS HubConnection, Integers, TLAPS

FlowOK ==
  /\ flow \in [Caller -> [at : Phase, ws : Sock \cup {"none"}, jwt : Pair \cup {None}]]
  /\ \A f \in Caller : flow[f].at \in {"ws", "ws2"} => flow[f].ws \in Sock

\* What is stored, sent and received was issued.
NumbersOK ==
  /\ stored \in 0..issued
  /\ \A f \in Caller : /\ call[f].arg \in 0..issued
                       /\ call[f].got \in 0..issued
                       /\ call[f].op = "refresh" => call[f].arg # None

TypeInv == TypeOK /\ FlowOK /\ NumbersOK

\* A request is under way exactly where a flow awaits one, and of its kind; only
\* "leave" panics and logs out.
CallsAwaited ==
  /\ \A f \in Caller : flow[f].at \notin {"rest", "refresh", "panic"} => call[f] = NoCall
  /\ flow["leave"].at \in {"idle", "panic", "leaving"}
  /\ call["leave"] = NoCall \/ call["leave"].op = "panic"
  /\ \A f \in Caller \ {"leave"} :
       flow[f].at \notin {"panic", "leaving"} /\ call[f].op # "panic"

\* Every loop but the last one scheduled was cancelled.
LoopInv == Live \ cancelled \subseteq {loopTask}

FeedInv ==
  /\ \A s \in Sock : reader[s] = "reading" => s = readerTask
  /\ state = "connected" /\ flow["leave"].at # "leaving" =>
       wsClient # "none" /\ reader[wsClient] = "reading"

\* A pair in the table was never exchanged, nor was one that is not issued yet.
HeirsInv ==
  \A p \in Pair : /\ heirs[p] <= 1
                  /\ p \in rows => heirs[p] = 0
                  /\ p > issued => heirs[p] = 0

Granted(f) == call[f].at = "granted" /\ call[f].op # "panic"

\* A pair that is granted and has not arrived is in the table or gone, and is
\* neither stored, nor sent in a request, nor granted to another flow.
FreshInv ==
  \A f \in Caller : Granted(f) =>
    /\ call[f].got \in 1..issued
    /\ call[f].got \in rows \cup gone
    /\ call[f].got # stored
    /\ \A g \in Caller : call[g].op = "refresh" => call[g].arg # call[f].got
    /\ \A g \in Caller : Granted(g) /\ g # f => call[g].got # call[f].got

Exchanged(p) == \E f \in Caller : Granted(f) /\ call[f].op = "refresh" /\ call[f].arg = p

TokenInv ==
  /\ overdue \subseteq gone
  /\ FreshInv
  /\ stored # None => stored \in rows \cup gone \/ Exchanged(stored)

Quiet ==
  /\ ~reconnecting
  /\ InFlight = {}
  /\ Live \subseteq cancelled
  /\ \A s \in Sock : reader[s] # "reading"

OutInv ==
  /\ flow["leave"].at \in {"panic", "leaving"} => stored # None
  /\ (left \/ flow["leave"].at = "leaving") /\ ~overtaken => Quiet
  /\ left /\ ~overtaken =>
       stored = None /\ state = "disconnected" /\ flow["leave"].at = "idle"

-----------------------------------------------------------------------------
(* What the parts of the actions do to flows and calls.                    *)

LEMMA FlowNames == /\ {"user", "leave"} \subseteq Caller /\ Loop \subseteq Caller
                   /\ "user" \notin Loop /\ "leave" \notin Loop /\ "none" \notin Loop
                   /\ None \notin Pair
BY CallersAreFlows, LoopsApart DEF None, Pair

CallOK == call \in [Caller -> Call]

\* The flow goes on without a connection.
LEMMA GoesEffect ==
  ASSUME FlowOK, NEW f \in Caller, NEW ph \in Phase \ {"ws", "ws2"}, Goes(f, ph)
  PROVE  /\ FlowOK'
         /\ flow'[f].at = ph
         /\ \A g \in Caller \ {f} : flow'[g] = flow[g]
BY DEF FlowOK, Goes, Idle, Phase, None

\* An error ends the flow, or sends a loop that may go on to sleep.
LEMMA ThrowEffect ==
  ASSUME FlowOK, NEW f \in Caller, Throw(f)
  PROVE  /\ FlowOK'
         /\ flow'[f].at \in {"sleep", "idle"}
         /\ f \notin Loop => flow'[f].at = "idle"
         /\ \A g \in Caller \ {f} : flow'[g] = flow[g]
<1>1. CASE Goes(f, "sleep") /\ f \in Loop
  BY <1>1, GoesEffect DEF Phase
<1>2. CASE Goes(f, "idle")
  BY <1>2, GoesEffect DEF Phase
<1> QED BY <1>1, <1>2 DEF Throw

LEMMA FreeSockIsSock ==
  ASSUME \E s \in Sock : sock[s] = "free"
  PROVE  FreeSock \in Sock
BY DEF FreeSock

LEMMA FreeLoopIsFree ==
  ASSUME \E l \in Loop : flow[l].at = "idle"
  PROVE  FreeLoop \in Loop /\ flow[FreeLoop].at = "idle"
BY DEF FreeLoop

\* A connect begins.
LEMMA ConnectEffect ==
  ASSUME FlowOK, NEW f \in Caller, NEW ph \in {"ws", "ws2"},
         NEW p \in Pair \cup {None}, Connect(f, ph, p)
  PROVE  /\ FlowOK'
         /\ flow'[f].at = ph
         /\ \A g \in Caller \ {f} : flow'[g] = flow[g]
<1>1. FreeSock \in Sock
  BY FreeSockIsSock DEF Connect
<1>2. flow' = [flow EXCEPT ![f] = [at |-> ph, ws |-> FreeSock, jwt |-> p]]
  BY DEF Connect
<1> HIDE DEF FreeSock
<1> QED BY <1>1, <1>2 DEF FlowOK, Phase

\* A new loop is scheduled in place of the last one.
LEMMA ScheduleEffect ==
  ASSUME FlowOK, cancelled \subseteq Loop, Schedule
  PROVE  /\ FlowOK'
         /\ loopTask' \in Loop
         /\ flow[loopTask'].at = "idle" /\ flow'[loopTask'].at = "sleep"
         /\ \A g \in Caller \ {loopTask'} : flow'[g] = flow[g]
         /\ cancelled' = (cancelled \cup (Live \cap {loopTask})) \ {loopTask'}
         /\ cancelled' \subseteq Loop
<1>1. FreeLoop \in Loop /\ flow[FreeLoop].at = "idle"
  BY FreeLoopIsFree DEF Schedule
<1>2. loopTask' = FreeLoop /\ Goes(FreeLoop, "sleep")
      /\ cancelled' = (cancelled \cup (Live \cap {loopTask})) \ {FreeLoop}
  BY DEF Schedule, CancelLoop
<1> HIDE DEF FreeLoop
<1>3. FreeLoop \in Caller /\ "sleep" \in Phase \ {"ws", "ws2"}
  BY <1>1, FlowNames DEF Phase
<1> QED BY <1>1, <1>2, <1>3, GoesEffect DEF Live

\* A request is sent.
LEMMA AskEffect ==
  ASSUME FlowOK, CallOK, NEW f \in Caller, NEW ph \in {"rest", "refresh", "panic"},
         NEW op \in Op, NEW p \in Pair \cup {None}, Ask(f, ph, op, p)
  PROVE  /\ FlowOK' /\ CallOK'
         /\ flow'[f].at = ph
         /\ call'[f] = [op |-> op, at |-> "hub", arg |-> p, got |-> None]
         /\ \A g \in Caller \ {f} : flow'[g] = flow[g] /\ call'[g] = call[g]
<1>1. Goes(f, ph) /\ ph \in Phase \ {"ws", "ws2"}
  BY DEF Ask, Phase
<1>2. call' = [call EXCEPT ![f] = [op |-> op, at |-> "hub", arg |-> p, got |-> None]]
  BY DEF Ask
<1>3. CallOK'
  BY <1>2 DEF CallOK, Call
<1> QED BY <1>1, <1>2, <1>3, GoesEffect DEF CallOK

\* A rejected flow asks for new tokens, or ends with an error.
LEMMA RejectedEffect ==
  ASSUME FlowOK, NEW f \in Caller, ConnectRejected(f)
  PROVE  \A g \in Caller \ {f} : flow'[g] = flow[g]
<1>1. Goes(f, "refresh") \/ Throw(f)
  BY DEF ConnectRejected, Ask
<1>2. CASE Goes(f, "refresh")
  BY <1>2, GoesEffect DEF Phase
<1>3. CASE Throw(f)
  BY <1>3, ThrowEffect
<1> QED BY <1>1, <1>2, <1>3

\* A flow takes its reply.
LEMMA AnsweredEffect ==
  ASSUME CallOK, NEW f \in Caller, Answered(f)
  PROVE  /\ CallOK'
         /\ call'[f] = NoCall
         /\ \A g \in Caller \ {f} : call'[g] = call[g]
BY DEF CallOK, Answered, NoCall, Call, Op

\* A handler refuses.
LEMMA RefuseEffect ==
  ASSUME CallOK, NEW f \in Caller, Refuse(f)
  PROVE  /\ CallOK'
         /\ call'[f].at = "refused"
         /\ call'[f].op = call[f].op /\ call'[f].arg = call[f].arg
         /\ call'[f].got = call[f].got
         /\ \A g \in Caller \ {f} : call'[g] = call[g]
BY DEF CallOK, Refuse, Call

\* A handler issues a pair.
LEMMA GrantEffect ==
  ASSUME CallOK, issued \in 0..MaxPair, NEW f \in Caller, NEW K, Grant(f, K)
  PROVE  /\ CallOK'
         /\ issued' = issued + 1 /\ issued' \in 1..MaxPair
         /\ rows' = K \cup {issued'} /\ jwts' = jwts \cup {issued'}
         /\ call'[f].at = "granted" /\ call'[f].got = issued'
         /\ call'[f].op = call[f].op /\ call'[f].arg = call[f].arg
         /\ \A g \in Caller \ {f} : call'[g] = call[g]
<1>1. issued' = issued + 1 /\ issued' \in 1..MaxPair
      /\ rows' = K \cup {issued'} /\ jwts' = jwts \cup {issued'}
  BY MaxPairNat DEF Grant
<1>2. call' = [call EXCEPT ![f].at = "granted", ![f].got = issued']
  BY <1>1 DEF Grant
<1>3. issued' \in Pair
  BY <1>1 DEF Pair
<1> QED BY <1>1, <1>2, <1>3 DEF CallOK, Call

-----------------------------------------------------------------------------
(* Types.                                                                  *)

LEMMA TypeInvInit == Init => TypeInv
<1> SUFFICES ASSUME Init PROVE TypeInv
  OBVIOUS
<1>1. AuthTypeOK
  <2>1. call \in [Caller -> Call]
    BY DEF Init, AuthInit, NoCall, Call, Op, None
  <2>2. heirs \in [Pair -> Nat] /\ issued \in 0..MaxPair
    BY MaxPairNat DEF Init, AuthInit
  <2> QED BY <2>1, <2>2 DEF Init, AuthInit, AuthTypeOK
<1>2. FlowOK
  BY DEF Init, FlowOK, Idle, Phase, None
<1>3. TypeOK
  <2>1. acts \in 0..MaxActs /\ faults \in 0..MaxFaults
    BY MaxActsNat, MaxFaultsNat DEF Init
  <2>2. /\ sock \in [Sock -> SockState]
        /\ reader \in [Sock -> {"none", "reading", "cancelled"}]
    BY DEF Init, SockState
  <2>3. flow \in [Caller -> [at : Phase, ws : Sock \cup {"none"}, jwt : Pair \cup {None}]]
    BY <1>2 DEF FlowOK
  <2> QED BY <1>1, <2>1, <2>2, <2>3 DEF Init, TypeOK
<1>4. NumbersOK
  BY DEF Init, AuthInit, NumbersOK, NoCall, None
<1> QED BY <1>2, <1>3, <1>4 DEF TypeInv

LEMMA RefuseTypes ==
  ASSUME AuthTypeOK, NumbersOK, NEW c \in Caller, Refuse(c), rows' \subseteq rows,
         UNCHANGED <<account, overdue, jwts, issued, heirs, gone, stored>>
  PROVE  AuthTypeOK' /\ NumbersOK'
<1>1. CallOK
  BY DEF CallOK, AuthTypeOK
<1>2. /\ CallOK'
      /\ \A g \in Caller : /\ call'[g].op = call[g].op /\ call'[g].arg = call[g].arg
                           /\ call'[g].got = call[g].got
  BY <1>1, RefuseEffect
<1>3. AuthTypeOK'
  BY <1>2 DEF AuthTypeOK, CallOK
<1>4. NumbersOK'
  BY <1>2 DEF NumbersOK
<1> QED BY <1>3, <1>4

\* The steps of the hub alone.
LEMMA HubTypes ==
  ASSUME AuthTypeOK, NumbersOK, NEW c \in Caller, HubStep(c), UNCHANGED stored
  PROVE  AuthTypeOK' /\ NumbersOK'
<1>1. CallOK /\ issued \in 0..MaxPair
  BY DEF CallOK, AuthTypeOK
<1>2. ASSUME Refuse(c), rows' \subseteq rows, heirs' = heirs,
             UNCHANGED <<account, overdue, jwts, issued, gone>>
      PROVE  AuthTypeOK' /\ NumbersOK'
  BY <1>2, RefuseTypes
<1>3. ASSUME NEW K \in SUBSET rows, Grant(c, K), heirs' \in [Pair -> Nat],
             account' \in BOOLEAN, UNCHANGED <<overdue, gone>>
      PROVE  AuthTypeOK' /\ NumbersOK'
  <2>1. AuthTypeOK'
    <3>1. /\ CallOK' /\ issued' \in 0..MaxPair /\ 1..issued \subseteq 1..issued'
          /\ rows' = K \cup {issued'} /\ jwts' = jwts \cup {issued'}
          /\ issued' \in 1..issued'
      BY <1>1, <1>3, GrantEffect
    <3> QED BY <1>3, <3>1 DEF AuthTypeOK, CallOK
  <2>2. NumbersOK'
    BY <1>1, <1>3, GrantEffect DEF NumbersOK
  <2> QED BY <2>1, <2>2
<1>4. CASE HubLooksUp(c)
  <2>1. CASE Refuse(c)
    BY <1>2, <1>4, <2>1 DEF HubLooksUp
  <2>2. CASE call' = [call EXCEPT ![c].at = "bcrypt"]
    BY <1>1, <1>4, <2>2 DEF HubLooksUp, Call, AuthTypeOK, NumbersOK, CallOK
  <2> QED BY <1>4, <2>1, <2>2 DEF HubLooksUp
<1>5. CASE HubRegisters(c)
  BY <1>2, <1>3, <1>5 DEF HubRegisters, AuthTypeOK
<1>6. CASE HubLogsIn(c)
  BY <1>2, <1>3, <1>6 DEF HubLogsIn, AuthTypeOK
<1>7. CASE HubRefreshes(c)
  <2> DEFINE p == call[c].arg
  <2>1. CASE Refuse(c) /\ rows' \subseteq rows /\ UNCHANGED <<jwts, issued, heirs>>
    BY <1>2, <1>7, <2>1 DEF HubRefreshes
  <2>2. CASE p \in rows /\ Grant(c, rows \ {p}) /\ heirs' = [heirs EXCEPT ![p] = @ + 1]
    <3>1. heirs' \in [Pair -> Nat] /\ rows \ {p} \in SUBSET rows
      <4>1. rows \subseteq Pair
        BY MaxPairNat DEF AuthTypeOK, Pair
      <4>2. p \in Pair
        BY <2>2, <4>1
      <4> HIDE DEF p
      <4> QED BY <2>2, <4>2 DEF AuthTypeOK
    <3>2. account' \in BOOLEAN /\ UNCHANGED <<overdue, gone>>
      BY <1>7 DEF HubRefreshes, AuthTypeOK
    <3> HIDE DEF p
    <3> QED BY <1>3, <2>2, <3>1, <3>2
  <2> QED BY <1>7, <2>1, <2>2 DEF HubRefreshes
<1> QED BY <1>4, <1>5, <1>6, <1>7 DEF HubStep

LEMMA RefreshArgs ==
  ASSUME NumbersOK, AuthTypeOK, NEW f \in Caller, call[f].op = "refresh"
  PROVE  call[f].arg \in 1..issued
BY MaxPairNat DEF NumbersOK, AuthTypeOK, None

LEMMA TypeInvNext == TypeInv /\ [Next]_vars => TypeInv'
<1> SUFFICES ASSUME TypeInv, [Next]_vars
             PROVE  TypeInv'
  OBVIOUS
<1> USE FlowNames DEF TypeInv, TypeOK
<1>0. FlowOK /\ CallOK /\ AuthTypeOK /\ NumbersOK /\ stored \in Pair \cup {None}
  BY DEF AuthTypeOK, CallOK
<1>a. ASSUME Act \/ Fault \/ NoFault
      PROVE  acts' \in 0..MaxActs /\ faults' \in 0..MaxFaults
  BY <1>a, MaxActsNat, MaxFaultsNat DEF Act, Fault, NoFault
<1>1. ASSUME NEW op \in {"register", "login"}, Login(op)
      PROVE  TypeInv'
  <2>1. /\ FlowOK' /\ CallOK'
        /\ call'["user"] = [op |-> op, at |-> "hub", arg |-> None, got |-> None]
        /\ \A g \in Caller \ {"user"} : call'[g] = call[g]
    BY <1>0, <1>1, AskEffect DEF Login, Op
  <2>2. NumbersOK'
    BY <1>0, <1>1, <2>1 DEF Login, NumbersOK, AuthTypeOK, None
  <2> QED BY <1>0, <1>1, <1>a, <2>1, <2>2 DEF Login, AuthTypeOK, CallOK, FlowOK
<1>2. CASE Panic
  <2>1. /\ FlowOK' /\ CallOK'
        /\ call'["leave"] = [op |-> "panic", at |-> "hub", arg |-> stored, got |-> None]
        /\ \A g \in Caller \ {"leave"} : call'[g] = call[g]
    BY <1>0, <1>2, AskEffect DEF Panic, Op
  <2>2. NumbersOK'
    BY <1>0, <1>2, <2>1 DEF Panic, NumbersOK, AuthTypeOK, None
  <2> QED BY <1>0, <1>2, <1>a, <2>1, <2>2 DEF Panic, AuthTypeOK, CallOK, FlowOK
<1>3. ASSUME NEW f \in Caller, Hub(f)
      PROVE  TypeInv'
  <2>1. AuthTypeOK' /\ NumbersOK'
    BY <1>0, <1>3, HubTypes DEF Hub, Untouched
  <2> QED BY <1>0, <1>3, <1>a, <2>1 DEF Hub, Untouched, FlowOK
<1>4. ASSUME NEW f \in Caller, TokensArrive(f)
      PROVE  TypeInv'
  <2>1. call[f].got \in Pair \cup {None} /\ call[f].got \in 0..issued
    BY <1>0 DEF CallOK, Call, NumbersOK
  <2>2. /\ FlowOK' /\ CallOK'
        /\ call'[f] = NoCall /\ \A g \in Caller \ {f} : call'[g] = call[g]
    BY <1>0, <1>4, <2>1, ConnectEffect, AnsweredEffect DEF TokensArrive
  <2>3. sock' \in [Sock -> SockState] /\ state' = "connecting" /\ reconnecting' = TRUE
    BY <1>4 DEF TokensArrive, Connect, SockState
  <2>4. NumbersOK'
    BY <1>0, <1>4, <2>1, <2>2 DEF TokensArrive, NumbersOK, NoCall, AuthTypeOK, None
  <2> QED BY <1>0, <1>4, <1>a, <2>1, <2>2, <2>3, <2>4
          DEF TokensArrive, AuthTypeOK, CallOK, FlowOK
<1>5. ASSUME NEW f \in Caller, TokensRefused(f)
      PROVE  TypeInv'
  <2>1. /\ FlowOK' /\ CallOK'
        /\ call'[f] = NoCall /\ \A g \in Caller \ {f} : call'[g] = call[g]
    BY <1>0, <1>5, ThrowEffect, AnsweredEffect DEF TokensRefused
  <2>2. NumbersOK'
    BY <1>0, <1>5, <2>1 DEF TokensRefused, NumbersOK, NoCall, AuthTypeOK, None
  <2> QED BY <1>0, <1>5, <1>a, <2>1, <2>2 DEF TokensRefused, AuthTypeOK, CallOK, FlowOK
<1>6. ASSUME NEW f \in Caller, RequestFails(f)
      PROVE  TypeInv'
  <2>1. /\ FlowOK' /\ CallOK'
        /\ call'[f] = NoCall /\ \A g \in Caller \ {f} : call'[g] = call[g]
    BY <1>0, <1>6, ThrowEffect, AnsweredEffect DEF RequestFails
  <2>2. NumbersOK'
    BY <1>0, <1>6, <2>1 DEF RequestFails, NumbersOK, NoCall, AuthTypeOK, None
  <2>3. gone' \subseteq 1..issued /\ issued' = issued
    BY <1>0, <1>6, RefreshArgs DEF RequestFails, AuthTypeOK
  <2> QED BY <1>0, <1>6, <1>a, <2>1, <2>2, <2>3 DEF RequestFails, AuthTypeOK, CallOK, FlowOK
<1>7. ASSUME NEW f \in Caller, HubAccepts(f)
      PROVE  TypeInv'
  BY <1>0, <1>7, <1>a DEF HubAccepts, authVars, AuthTypeOK, NumbersOK, FlowOK, SockState
<1>8. ASSUME NEW f \in Caller, ConnectReturns(f)
      PROVE  TypeInv'
  <2>1. FlowOK'
    BY <1>0, <1>8, GoesEffect DEF ConnectReturns, Phase
  <2>2. flow[f].ws \in Sock
    BY <1>0, <1>8 DEF ConnectReturns, FlowOK
  <2>3. reader' \in [Sock -> {"none", "reading", "cancelled"}]
    BY <1>8 DEF ConnectReturns, CancelReader
  <2> QED BY <1>0, <1>8, <1>a, <2>1, <2>2, <2>3
          DEF ConnectReturns, authVars, AuthTypeOK, NumbersOK, FlowOK
<1>9. ASSUME NEW f \in Caller, ConnectRejected(f)
      PROVE  TypeInv'
  <2>1. FlowOK' /\ CallOK' /\ NumbersOK'
    <3>1. CASE stored # None /\ Ask(f, "refresh", "refresh", stored)
      <4>1. /\ FlowOK' /\ CallOK'
            /\ call'[f] = [op |-> "refresh", at |-> "hub", arg |-> stored, got |-> None]
            /\ \A g \in Caller \ {f} : call'[g] = call[g]
        BY <1>0, <3>1, AskEffect DEF Op
      <4>2. NumbersOK'
        BY <1>0, <1>9, <3>1, <4>1 DEF ConnectRejected, NumbersOK, AuthTypeOK, None
      <4> QED BY <4>1, <4>2
    <3>2. CASE Throw(f) /\ UNCHANGED call
      BY <1>0, <1>9, <3>2, ThrowEffect DEF ConnectRejected, CallOK, NumbersOK
    <3> QED BY <1>9, <3>1, <3>2 DEF ConnectRejected
  <2>2. sock' \in [Sock -> SockState] /\ state' = "disconnected"
    BY <1>9 DEF ConnectRejected, SockState
  <2> QED BY <1>0, <1>9, <1>a, <2>1, <2>2 DEF ConnectRejected, AuthTypeOK, CallOK, FlowOK
<1>10. ASSUME NEW f \in Caller, ConnectFails(f)
       PROVE  TypeInv'
  <2>1. FlowOK'
    BY <1>0, <1>10, ThrowEffect DEF ConnectFails
  <2>2. sock' \in [Sock -> SockState] /\ state' = "disconnected"
    BY <1>10 DEF ConnectFails, SockState
  <2> QED BY <1>0, <1>10, <1>a, <2>1, <2>2
          DEF ConnectFails, authVars, AuthTypeOK, NumbersOK, FlowOK
<1>11. ASSUME NEW l \in Loop, LoopWakes(l)
       PROVE  TypeInv'
  <2>1. /\ FlowOK'
        /\ sock' \in [Sock -> SockState]
        /\ state' \in {"disconnected", "connecting", "connected"}
        /\ reconnecting' \in BOOLEAN
    <3>1. CASE Goes(l, "idle") /\ UNCHANGED <<state, reconnecting, sock>>
      BY <1>0, <3>1, GoesEffect DEF Phase
    <3>2. CASE Throw(l) /\ UNCHANGED <<state, reconnecting, sock>>
      BY <1>0, <3>2, ThrowEffect
    <3>3. CASE Connect(l, "ws", stored)
      <4>1. FlowOK'
        BY <1>0, <3>3, ConnectEffect
      <4> QED BY <3>3, <4>1 DEF Connect, SockState
    <3> QED BY <1>11, <3>1, <3>2, <3>3 DEF LoopWakes
  <2> QED BY <1>0, <1>11, <1>a, <2>1 DEF LoopWakes, authVars, AuthTypeOK, NumbersOK, FlowOK
<1>12. ASSUME NEW s \in Sock, ReaderEnds(s)
       PROVE  TypeInv'
  <2>1. FlowOK' /\ cancelled' \subseteq Loop /\ loopTask' \in Loop \cup {"none"}
    <3>1. CASE Schedule
      BY <1>0, <3>1, ScheduleEffect
    <3>2. CASE UNCHANGED <<flow, cancelled, loopTask>>
      BY <1>0, <3>2 DEF FlowOK
    <3> QED BY <1>12, <3>1, <3>2 DEF ReaderEnds, HandleDisconnect
  <2>2. /\ sock' \in [Sock -> SockState]
        /\ reader' \in [Sock -> {"none", "reading", "cancelled"}]
        /\ state' = "disconnected" /\ wsClient' = "none"
    BY <1>12 DEF ReaderEnds, HandleDisconnect, SockState
  <2> QED BY <1>0, <1>12, <1>a, <2>1, <2>2
          DEF ReaderEnds, authVars, AuthTypeOK, NumbersOK, FlowOK
<1>13. ASSUME NEW s \in Sock, SocketDrops(s)
       PROVE  TypeInv'
  BY <1>0, <1>13, <1>a
     DEF SocketDrops, Untouched, authVars, AuthTypeOK, NumbersOK, FlowOK, SockState
<1>14. CASE HubPanics
  <2>1. sock' \in [Sock -> SockState]
    BY <1>14 DEF HubPanics, CloseAll, SockState
  <2>2. AuthTypeOK' /\ NumbersOK'
    <3>1. CASE RevokeAll /\ call' = [call EXCEPT !["leave"].at = "granted"]
      BY <1>0, <1>14, <3>1 DEF HubPanics, RevokeAll, AuthTypeOK, NumbersOK, Call
    <3>2. CASE Refuse("leave") /\ UNCHANGED <<account, rows, overdue, jwts, issued, heirs, gone>>
      <4>1. UNCHANGED stored
        BY <1>14 DEF HubPanics
      <4> QED BY <1>0, <3>2, <4>1, RefuseTypes
    <3> QED BY <1>14, <3>1, <3>2 DEF HubPanics
  <2> QED BY <1>0, <1>14, <1>a, <2>1, <2>2 DEF HubPanics, FlowOK
<1>15. CASE PanicReturns
  <2>1. FlowOK' /\ stored' \in {stored, None}
    BY <1>0, <1>15, GoesEffect DEF PanicReturns, StartLogout, Forget, Phase
  <2>2. /\ CallOK' /\ call'["leave"] = NoCall
        /\ \A g \in Caller \ {"leave"} : call'[g] = call[g]
    BY <1>0, <1>15, AnsweredEffect DEF PanicReturns
  <2>3. NumbersOK'
    <3>1. UNCHANGED issued /\ issued \in Nat
      BY <1>0, <1>15, MaxPairNat DEF PanicReturns, AuthTypeOK
    <3>2. stored' \in 0..issued'
      BY <1>0, <2>1, <3>1 DEF NumbersOK, None
    <3> QED BY <1>0, <2>2, <3>1, <3>2 DEF NumbersOK, NoCall, None
  <2>4. AuthTypeOK'
    BY <1>0, <1>15, <2>2 DEF PanicReturns, AuthTypeOK, CallOK
  <2>5. /\ state' \in {"disconnected", "connecting", "connected"}
        /\ reconnecting' \in BOOLEAN
        /\ wsClient' \in Sock \cup {"none"} /\ readerTask' \in Sock \cup {"none"}
        /\ loopTask' \in Loop \cup {"none"} /\ cancelled' \subseteq Loop
        /\ once' \in BOOLEAN /\ overtaken' \in BOOLEAN /\ left' \in BOOLEAN
    BY <1>0, <1>15 DEF PanicReturns, StartLogout, Forget, CancelLoop, Live
  <2>6. /\ sock' \in [Sock -> SockState]
        /\ reader' \in [Sock -> {"none", "reading", "cancelled"}]
    BY <1>0, <1>15 DEF PanicReturns, StartLogout, CancelReader, SockState
  <2> QED BY <1>0, <1>15, <1>a, <2>1, <2>3, <2>4, <2>5, <2>6 DEF PanicReturns, FlowOK
<1>16. CASE EndLogout
  <2>1. FlowOK'
    BY <1>0, <1>16, GoesEffect DEF EndLogout, Phase
  <2>2. AuthTypeOK' /\ NumbersOK'
    BY <1>0, <1>16 DEF EndLogout, Forget, authVars, AuthTypeOK, NumbersOK, None
  <2> QED BY <1>0, <1>16, <1>a, <2>1, <2>2 DEF EndLogout, Forget, FlowOK
<1>17. CASE TimePasses
  <2>1. AuthTypeOK' /\ NumbersOK'
    BY <1>0, <1>17 DEF TimePasses, JwtExpires, RefreshExpires, Untouched, AuthTypeOK, NumbersOK
  <2> QED BY <1>0, <1>17, <1>a, <2>1 DEF TimePasses, Untouched, FlowOK
<1>18. CASE OtherDevice
  <2>1. AuthTypeOK' /\ NumbersOK'
    BY <1>0, <1>18
       DEF OtherDevice, RegistersElsewhere, RevokeAll, Untouched, AuthTypeOK, NumbersOK
  <2>2. sock' \in [Sock -> SockState]
    BY <1>18 DEF OtherDevice, CloseAll, SockState
  <2> QED BY <1>0, <1>18, <1>a, <2>1, <2>2 DEF OtherDevice, Untouched, FlowOK
<1>19. CASE Relaunch
  <2> DEFINE first == CHOOSE s \in Sock : TRUE
  <2>1. first \in Sock
    BY SocksApart
  <2>2. gone' \subseteq 1..issued /\ issued' = issued
    <3>1. \A f \in Caller : call[f].op = "refresh" => call[f].arg \in 1..issued
      BY <1>0, RefreshArgs
    <3>2. gone \subseteq 1..issued
      BY <1>0 DEF AuthTypeOK
    <3>3. /\ UNCHANGED issued
          /\ \A p \in gone' \ gone :
               \E f \in Caller : call[f].op = "refresh" /\ call[f].arg = p
      BY <1>19 DEF Relaunch
    <3>4. ASSUME NEW p \in gone'
          PROVE  p \in 1..issued
      <4>1. CASE p \in gone
        BY <3>2, <4>1
      <4>2. CASE p \notin gone
        <5>1. PICK f \in Caller : call[f].op = "refresh" /\ call[f].arg = p
          BY <3>3, <4>2
        <5> QED BY <3>1, <5>1
      <4> QED BY <4>1, <4>2
    <3> QED BY <3>3, <3>4
  <2>3. AuthTypeOK' /\ NumbersOK'
    BY <1>0, <1>19, <2>2
       DEF Relaunch, AuthTypeOK, NumbersOK, NoCall, Call, Op, None
  <2>4. FlowOK' /\ sock' \in [Sock -> SockState]
    <3> HIDE DEF first
    <3>1. CASE /\ flow' = [f \in Caller |-> Idle]
               /\ sock' = [s \in Sock |-> "free"]
      BY <3>1 DEF FlowOK, Idle, Phase, SockState, None
    <3>2. CASE /\ flow' = [[f \in Caller |-> Idle] EXCEPT !["user"] =
                             [at |-> "ws", ws |-> first, jwt |-> stored]]
               /\ sock' = [[s \in Sock |-> "free"] EXCEPT ![first] = "asked"]
      BY <1>0, <2>1, <3>2 DEF FlowOK, Idle, Phase, SockState, None
    <3> QED BY <1>19, <3>1, <3>2 DEF Relaunch, first
  <2> QED BY <1>0, <1>19, <1>a, <2>3, <2>4 DEF Relaunch, FlowOK
<1>20. CASE UNCHANGED vars
  BY <1>0, <1>20 DEF vars, clientVars, authVars, AuthTypeOK, NumbersOK, FlowOK
<1> QED BY <1>1, <1>2, <1>3, <1>4, <1>5, <1>6, <1>7, <1>8, <1>9, <1>10, <1>11, <1>12,
           <1>13, <1>14, <1>15, <1>16, <1>17, <1>18, <1>19, <1>20
        DEF Next, User, Flows

\* The variables of client and hub keep their types: no token is stored or asked for
\* that was not issued, and no two of the calls that overlap mix up their replies
\* (HubConnection.swift, auth.ts).
THEOREM TypeCorrect == Spec => []TypeOK
<1>1. TypeInv => TypeOK
  BY DEF TypeInv
<1> QED BY <1>1, TypeInvInit, TypeInvNext, PTL DEF Spec

-----------------------------------------------------------------------------
(* What the flows await.                                                   *)

\* A step of the hub alone changes one call, that was under way.
LEMMA HubStepEffect ==
  ASSUME CallOK, issued \in 0..MaxPair, NEW c \in Caller, HubStep(c)
  PROVE  /\ call[c].at \in {"hub", "bcrypt"}
         /\ call'[c].at \in {"bcrypt", "granted", "refused"}
         /\ call'[c].op = call[c].op /\ call'[c].arg = call[c].arg
         /\ \A g \in Caller \ {c} : call'[g] = call[g]
<1>1. CASE HubLooksUp(c)
  <2>1. CASE Refuse(c)
    BY <1>1, <2>1, RefuseEffect DEF HubLooksUp
  <2>2. CASE call' = [call EXCEPT ![c].at = "bcrypt"]
    BY <1>1, <2>2 DEF HubLooksUp, CallOK, Call
  <2> QED BY <1>1, <2>1, <2>2 DEF HubLooksUp
<1>2. CASE HubRegisters(c)
  BY <1>2, RefuseEffect, GrantEffect DEF HubRegisters
<1>3. CASE HubLogsIn(c)
  BY <1>3, RefuseEffect, GrantEffect DEF HubLogsIn
<1>4. CASE HubRefreshes(c)
  BY <1>4, RefuseEffect, GrantEffect DEF HubRefreshes
<1> QED BY <1>1, <1>2, <1>3, <1>4 DEF HubStep

LEMMA CallsAwaitedInit == Init => CallsAwaited
BY FlowNames DEF Init, AuthInit, CallsAwaited, Idle, NoCall

LEMMA CallsAwaitedNext == TypeInv /\ CallsAwaited /\ [Next]_vars => CallsAwaited'
<1> SUFFICES ASSUME TypeInv, CallsAwaited, [Next]_vars
             PROVE  CallsAwaited'
  OBVIOUS
<1> USE FlowNames
<1>0. FlowOK /\ CallOK /\ issued \in 0..MaxPair /\ stored \in Pair \cup {None}
  BY DEF TypeInv, TypeOK, AuthTypeOK, CallOK
<1>a. ASSUME UNCHANGED <<flow, call>>
      PROVE  CallsAwaited'
  BY <1>a DEF CallsAwaited
<1>b. ASSUME NEW f \in Caller, call'[f] = NoCall,
             flow'[f].at \in {"idle", "sleep", "ws", "ws2"},
             f = "leave" => flow'[f].at = "idle",
             \A g \in Caller \ {f} : flow'[g] = flow[g] /\ call'[g] = call[g]
      PROVE  CallsAwaited'
  BY <1>b DEF CallsAwaited, NoCall
<1>c. \A f \in Caller : flow[f].at \in {"idle", "sleep", "ws", "ws2", "leaving"}
                           => call[f] = NoCall
  BY DEF CallsAwaited
<1>1. ASSUME NEW op \in {"register", "login"}, Login(op)
      PROVE  CallsAwaited'
  <2>1. /\ flow'["user"].at = "rest"
        /\ call'["user"] = [op |-> op, at |-> "hub", arg |-> None, got |-> None]
        /\ \A g \in Caller \ {"user"} : flow'[g] = flow[g] /\ call'[g] = call[g]
    BY <1>0, <1>1, AskEffect DEF Login, Op
  <2> QED BY <2>1 DEF CallsAwaited
<1>2. CASE Panic
  <2>1. /\ flow'["leave"].at = "panic"
        /\ call'["leave"] = [op |-> "panic", at |-> "hub", arg |-> stored, got |-> None]
        /\ \A g \in Caller \ {"leave"} : flow'[g] = flow[g] /\ call'[g] = call[g]
    BY <1>0, <1>2, AskEffect DEF Panic, Op
  <2> QED BY <2>1 DEF CallsAwaited
<1>3. ASSUME NEW f \in Caller, Hub(f)
      PROVE  CallsAwaited'
  <2>1. /\ call[f].at \in {"hub", "bcrypt"} /\ call'[f].op = call[f].op /\ flow' = flow
        /\ \A g \in Caller \ {f} : call'[g] = call[g]
    BY <1>0, <1>3, HubStepEffect DEF Hub, Untouched
  <2>2. call[f] # NoCall
    BY <2>1 DEF NoCall
  <2> QED BY <2>1, <2>2 DEF CallsAwaited
<1>4. ASSUME NEW f \in Caller, TokensArrive(f)
      PROVE  CallsAwaited'
  <2>1. call[f].got \in Pair \cup {None}
    BY <1>0 DEF CallOK, Call
  <2>2. /\ call'[f] = NoCall /\ flow'[f].at = "ws2"
        /\ \A g \in Caller \ {f} : flow'[g] = flow[g] /\ call'[g] = call[g]
    BY <1>0, <1>4, <2>1, ConnectEffect, AnsweredEffect DEF TokensArrive
  <2>3. f # "leave"
    BY <1>4 DEF TokensArrive, CallsAwaited
  <2> QED BY <1>b, <2>2, <2>3
<1>5. ASSUME NEW f \in Caller, TokensRefused(f) \/ RequestFails(f)
      PROVE  CallsAwaited'
  <2>1. Throw(f) /\ Answered(f)
    BY <1>5 DEF TokensRefused, RequestFails
  <2> QED BY <1>0, <1>b, <2>1, ThrowEffect, AnsweredEffect
<1>6. ASSUME NEW f \in Caller, HubAccepts(f)
      PROVE  CallsAwaited'
  BY <1>6, <1>a DEF HubAccepts, authVars
<1>7. ASSUME NEW f \in Caller, ConnectReturns(f)
      PROVE  CallsAwaited'
  <2>1. /\ call' = call /\ call[f] = NoCall /\ flow'[f].at = "idle"
        /\ \A g \in Caller \ {f} : flow'[g] = flow[g]
    BY <1>0, <1>7, <1>c, GoesEffect DEF ConnectReturns, authVars, Phase
  <2> QED BY <1>b, <2>1
<1>8. ASSUME NEW f \in Caller, ConnectRejected(f)
      PROVE  CallsAwaited'
  <2>1. f # "leave" /\ call[f] = NoCall
    BY <1>8, <1>c DEF ConnectRejected, CallsAwaited
  <2>2. CASE Ask(f, "refresh", "refresh", stored)
    <3>1. /\ flow'[f].at = "refresh"
          /\ call'[f] = [op |-> "refresh", at |-> "hub", arg |-> stored, got |-> None]
          /\ \A g \in Caller \ {f} : flow'[g] = flow[g] /\ call'[g] = call[g]
      BY <1>0, <2>2, AskEffect DEF Op
    <3> QED BY <2>1, <3>1 DEF CallsAwaited
  <2>3. CASE Throw(f) /\ UNCHANGED call
    BY <1>0, <1>b, <2>1, <2>3, ThrowEffect
  <2> QED BY <1>8, <2>2, <2>3 DEF ConnectRejected
<1>9. ASSUME NEW f \in Caller, ConnectFails(f)
      PROVE  CallsAwaited'
  <2>1. call' = call /\ call[f] = NoCall /\ Throw(f)
    BY <1>9, <1>c DEF ConnectFails, authVars
  <2> QED BY <1>0, <1>b, <2>1, ThrowEffect
<1>10. ASSUME NEW l \in Loop, LoopWakes(l)
       PROVE  CallsAwaited'
  <2>1. call' = call /\ call[l] = NoCall /\ l \in Caller /\ l # "leave"
    BY <1>10, <1>c DEF LoopWakes, authVars
  <2>2. /\ flow'[l].at \in {"idle", "sleep", "ws"}
        /\ \A g \in Caller \ {l} : flow'[g] = flow[g]
    <3>1. CASE Goes(l, "idle")
      BY <1>0, <2>1, <3>1, GoesEffect DEF Phase
    <3>2. CASE Throw(l)
      BY <1>0, <2>1, <3>2, ThrowEffect
    <3>3. CASE Connect(l, "ws", stored)
      BY <1>0, <2>1, <3>3, ConnectEffect
    <3> QED BY <1>10, <3>1, <3>2, <3>3 DEF LoopWakes
  <2> QED BY <1>b, <2>1, <2>2
<1>11. ASSUME NEW s \in Sock, ReaderEnds(s)
       PROVE  CallsAwaited'
  <2>1. CASE Schedule
    <3>1. /\ loopTask' \in Loop /\ flow'[loopTask'].at = "sleep"
          /\ flow[loopTask'].at = "idle"
          /\ \A g \in Caller \ {loopTask'} : flow'[g] = flow[g]
      BY <1>0, <2>1, ScheduleEffect DEF TypeInv, TypeOK
    <3>2. call' = call /\ call[loopTask'] = NoCall
      BY <1>11, <1>c, <3>1 DEF ReaderEnds, authVars
    <3> QED BY <1>b, <3>1, <3>2
  <2>2. CASE UNCHANGED <<flow, cancelled, loopTask>>
    BY <1>11, <1>a, <2>2 DEF ReaderEnds, authVars
  <2> QED BY <1>11, <2>1, <2>2 DEF ReaderEnds, HandleDisconnect
<1>12. ASSUME NEW s \in Sock, SocketDrops(s)
       PROVE  CallsAwaited'
  BY <1>12, <1>a DEF SocketDrops, Untouched, authVars
<1>13. CASE HubPanics
  <2>1. call["leave"] # NoCall /\ flow' = flow
    BY <1>13 DEF HubPanics, NoCall
  <2>2. /\ call'["leave"].op = call["leave"].op
        /\ \A g \in Caller \ {"leave"} : call'[g] = call[g]
    BY <1>0, <1>13, RefuseEffect DEF HubPanics, CallOK, Call
  <2> QED BY <2>1, <2>2 DEF CallsAwaited
<1>14. CASE PanicReturns
  <2>1. /\ call'["leave"] = NoCall /\ flow'["leave"].at \in {"idle", "leaving"}
        /\ \A g \in Caller \ {"leave"} : flow'[g] = flow[g] /\ call'[g] = call[g]
    BY <1>0, <1>14, GoesEffect, AnsweredEffect DEF PanicReturns, StartLogout, Phase
  <2> QED BY <2>1 DEF CallsAwaited, NoCall
<1>15. CASE EndLogout
  <2>1. /\ call' = call /\ call["leave"] = NoCall /\ flow'["leave"].at = "idle"
        /\ \A g \in Caller \ {"leave"} : flow'[g] = flow[g]
    BY <1>0, <1>15, <1>c, GoesEffect DEF EndLogout, authVars, Phase
  <2> QED BY <1>b, <2>1
<1>16. CASE TimePasses \/ OtherDevice
  BY <1>16, <1>a
     DEF TimePasses, OtherDevice, JwtExpires, RefreshExpires, RegistersElsewhere, Untouched
<1>17. CASE Relaunch
  <2>1. \A f \in Caller : call'[f] = NoCall
    BY <1>17 DEF Relaunch
  <2>2. \A f \in Caller : flow'[f].at = "idle" \/ (f = "user" /\ flow'[f].at = "ws")
    BY <1>17 DEF Relaunch, Idle
  <2> QED BY <2>1, <2>2 DEF CallsAwaited, NoCall
<1>18. CASE UNCHANGED vars
  BY <1>18, <1>a DEF vars, clientVars, authVars
<1> QED BY <1>1, <1>2, <1>3, <1>4, <1>5, <1>6, <1>7, <1>8, <1>9, <1>10, <1>11, <1>12,
           <1>13, <1>14, <1>15, <1>16, <1>17, <1>18
        DEF Next, User, Flows

-----------------------------------------------------------------------------
(* Loops.                                                                  *)

LEMMA LoopInvInit == Init => LoopInv
BY FlowNames DEF Init, LoopInv, Live, Idle

LEMMA LoopInvNext == TypeInv /\ CallsAwaited /\ LoopInv /\ [Next]_vars => LoopInv'
<1> SUFFICES ASSUME TypeInv, CallsAwaited, LoopInv, [Next]_vars
             PROVE  LoopInv'
  OBVIOUS
<1> USE FlowNames
<1>0. /\ FlowOK /\ CallOK /\ stored \in Pair \cup {None} /\ cancelled \subseteq Loop
      /\ \A f \in Caller : call[f].got \in Pair \cup {None}
  BY DEF TypeInv, TypeOK, AuthTypeOK, CallOK, Call
<1>a. ASSUME UNCHANGED <<cancelled, loopTask>>,
             \A l \in Loop : flow[l].at = "idle" => flow'[l].at = "idle"
      PROVE  LoopInv'
  BY <1>a DEF LoopInv, Live
<1>b. ASSUME UNCHANGED <<cancelled, loopTask>>, NEW f \in Caller,
             f \in Loop => flow[f].at # "idle",
             \A g \in Caller \ {f} : flow'[g] = flow[g]
      PROVE  LoopInv'
  BY <1>a, <1>b
<1>1. ASSUME NEW op \in {"register", "login"}, Login(op)
      PROVE  LoopInv'
  <2>1. Ask("user", "rest", op, None) /\ op \in Op
    BY <1>1 DEF Login, Op
  <2>2. \A g \in Caller \ {"user"} : flow'[g] = flow[g]
    BY <1>0, <2>1, AskEffect
  <2> QED BY <1>1, <1>b, <2>2 DEF Login
<1>2. CASE Panic
  <2>1. \A g \in Caller \ {"leave"} : flow'[g] = flow[g]
    BY <1>0, <1>2, AskEffect DEF Panic, Op
  <2> QED BY <1>2, <1>b, <2>1 DEF Panic
<1>3. ASSUME NEW f \in Caller,
             \/ TokensArrive(f) \/ TokensRefused(f) \/ RequestFails(f)
             \/ ConnectReturns(f) \/ ConnectRejected(f) \/ ConnectFails(f)
      PROVE  LoopInv'
  <2>1. \A g \in Caller \ {f} : flow'[g] = flow[g]
    <3>1. CASE TokensArrive(f)
      BY <1>0, <3>1, ConnectEffect DEF TokensArrive
    <3>2. CASE TokensRefused(f) \/ RequestFails(f) \/ ConnectFails(f)
      BY <1>0, <3>2, ThrowEffect DEF TokensRefused, RequestFails, ConnectFails
    <3>3. CASE ConnectReturns(f)
      BY <1>0, <3>3, GoesEffect DEF ConnectReturns, Phase
    <3>4. CASE ConnectRejected(f)
      BY <1>0, <3>4, RejectedEffect
    <3> QED BY <1>3, <3>1, <3>2, <3>3, <3>4
  <2>2. flow[f].at # "idle" /\ UNCHANGED <<cancelled, loopTask>>
    BY <1>3 DEF TokensArrive, TokensRefused, RequestFails, ConnectReturns, ConnectRejected,
                ConnectFails
  <2> QED BY <1>b, <2>1, <2>2
<1>4. ASSUME NEW f \in Caller, Hub(f) \/ HubAccepts(f)
      PROVE  LoopInv'
  BY <1>4, <1>a DEF Hub, Untouched, HubAccepts
<1>5. ASSUME NEW l \in Loop, LoopWakes(l)
      PROVE  LoopInv'
  <2>1. \A g \in Caller \ {l} : flow'[g] = flow[g]
    <3>1. CASE Goes(l, "idle")
      BY <1>0, <3>1, GoesEffect DEF Phase
    <3>2. CASE Throw(l)
      BY <1>0, <3>2, ThrowEffect
    <3>3. CASE Connect(l, "ws", stored)
      BY <1>0, <3>3, ConnectEffect
    <3> QED BY <1>5, <3>1, <3>2, <3>3 DEF LoopWakes
  <2>2. flow[l].at # "idle" /\ UNCHANGED <<cancelled, loopTask>>
    BY <1>5 DEF LoopWakes
  <2> QED BY <1>b, <2>1, <2>2
<1>6. ASSUME NEW s \in Sock, ReaderEnds(s)
      PROVE  LoopInv'
  <2>1. CASE Schedule
    <3>1. /\ loopTask' \in Loop
          /\ \A g \in Caller \ {loopTask'} : flow'[g] = flow[g]
          /\ cancelled' = (cancelled \cup (Live \cap {loopTask})) \ {loopTask'}
      BY <1>0, <2>1, ScheduleEffect
    <3> QED BY <3>1 DEF LoopInv, Live
  <2>2. CASE UNCHANGED <<flow, cancelled, loopTask>>
    BY <1>a, <2>2
  <2> QED BY <1>6, <2>1, <2>2 DEF ReaderEnds, HandleDisconnect
<1>7. ASSUME NEW s \in Sock, SocketDrops(s)
      PROVE  LoopInv'
  BY <1>7, <1>a DEF SocketDrops, Untouched
<1>8. CASE HubPanics \/ TimePasses \/ OtherDevice
  BY <1>8, <1>a DEF HubPanics, TimePasses, OtherDevice, Untouched
<1>9. CASE PanicReturns
  <2>1. \A g \in Caller \ {"leave"} : flow'[g] = flow[g]
    BY <1>0, <1>9, GoesEffect DEF PanicReturns, StartLogout, Phase
  <2>2. CASE StartLogout
    <3>1. cancelled' = cancelled \cup (Live \cap {loopTask})
      BY <2>2 DEF StartLogout, CancelLoop
    <3> QED BY <2>1, <3>1 DEF LoopInv, Live
  <2>3. CASE UNCHANGED <<cancelled, loopTask>>
    BY <1>b, <2>1, <2>3
  <2> QED BY <1>9, <2>2, <2>3 DEF PanicReturns
<1>10. CASE EndLogout
  <2>1. \A g \in Caller \ {"leave"} : flow'[g] = flow[g]
    BY <1>0, <1>10, GoesEffect DEF EndLogout, Phase
  <2> QED BY <1>10, <1>b, <2>1 DEF EndLogout
<1>11. CASE Relaunch
  BY <1>11 DEF Relaunch, LoopInv, Live, Idle
<1>12. CASE UNCHANGED vars
  BY <1>12, <1>a DEF vars, clientVars
<1> QED BY <1>1, <1>2, <1>3, <1>4, <1>5, <1>6, <1>7, <1>8, <1>9, <1>10, <1>11, <1>12
        DEF Next, User, Flows

LoopLayer == TypeInv /\ CallsAwaited /\ LoopInv

LEMMA LoopLayerHolds == Spec => []LoopLayer
<1>1. Init => LoopLayer
  BY TypeInvInit, CallsAwaitedInit, LoopInvInit DEF LoopLayer
<1>2. LoopLayer /\ [Next]_vars => LoopLayer'
  BY TypeInvNext, CallsAwaitedNext, LoopInvNext DEF LoopLayer
<1> QED BY <1>1, <1>2, PTL DEF Spec

\* However disconnects, failed attempts, logouts and relaunches follow each other, at
\* most one reconnect loop is not cancelled (scheduleReconnect).
THEOREM LoopsAreSingle == Spec => []OneLoop
<1>1. LoopLayer => OneLoop
  BY DEF LoopLayer, LoopInv, OneLoop
<1> QED BY <1>1, LoopLayerHolds, PTL

-----------------------------------------------------------------------------
(* Readers.                                                                *)

LEMMA FeedInvInit == Init => FeedInv
BY DEF Init, FeedInv

LEMMA FeedInvNext == TypeInv /\ CallsAwaited /\ FeedInv /\ [Next]_vars => FeedInv'
<1> SUFFICES ASSUME TypeInv, CallsAwaited, FeedInv, [Next]_vars
             PROVE  FeedInv'
  OBVIOUS
<1> USE FlowNames
<1>0. /\ FlowOK /\ CallOK /\ stored \in Pair \cup {None}
      /\ reader \in [Sock -> {"none", "reading", "cancelled"}]
  BY DEF TypeInv, TypeOK, AuthTypeOK, CallOK
<1>a. ASSUME UNCHANGED <<reader, readerTask>>,
             \/ state' # "connected"
             \/ /\ UNCHANGED <<state, wsClient>>
                /\ flow["leave"].at = "leaving" => flow'["leave"].at = "leaving"
      PROVE  FeedInv'
  BY <1>a DEF FeedInv
<1>1. ASSUME NEW op \in {"register", "login"}, Login(op)
      PROVE  FeedInv'
  BY <1>1, <1>a DEF Login
<1>2. CASE Panic
  BY <1>2, <1>a DEF Panic
<1>3. ASSUME NEW f \in Caller, Hub(f) \/ HubAccepts(f)
      PROVE  FeedInv'
  BY <1>3, <1>a DEF Hub, Untouched, HubAccepts
<1>4. ASSUME NEW f \in Caller,
             TokensArrive(f) \/ ConnectRejected(f) \/ ConnectFails(f)
      PROVE  FeedInv'
  BY <1>4, <1>a DEF TokensArrive, Connect, ConnectRejected, ConnectFails
<1>5. ASSUME NEW f \in Caller, TokensRefused(f) \/ RequestFails(f)
      PROVE  FeedInv'
  <2>1. \A g \in Caller \ {f} : flow'[g] = flow[g]
    BY <1>0, <1>5, ThrowEffect DEF TokensRefused, RequestFails
  <2>2. flow[f].at # "leaving" /\ UNCHANGED <<reader, readerTask, state, wsClient>>
    BY <1>5 DEF TokensRefused, RequestFails
  <2> QED BY <1>a, <2>1, <2>2
<1>6. ASSUME NEW f \in Caller, ConnectReturns(f)
      PROVE  FeedInv'
  <2> DEFINE s == flow[f].ws
  <2>1. s \in Sock /\ s # "none"
    BY <1>0, <1>6, SocksApart DEF ConnectReturns, FlowOK
  <2>2. reader' = [CancelReader EXCEPT ![s] = "reading"] /\ readerTask' = s /\ wsClient' = s
    BY <1>6 DEF ConnectReturns
  <2>3. \A t \in Sock \ {s} : reader'[t] # "reading"
    BY <1>0, <2>2 DEF CancelReader, FeedInv
  <2>4. reader'[s] = "reading"
    BY <2>1, <2>2 DEF CancelReader
  <2> QED BY <2>1, <2>2, <2>3, <2>4 DEF FeedInv
<1>7. ASSUME NEW l \in Loop, LoopWakes(l)
      PROVE  FeedInv'
  <2>1. CASE Goes(l, "idle") /\ UNCHANGED state
    <3>1. \A g \in Caller \ {l} : flow'[g] = flow[g]
      BY <1>0, <2>1, GoesEffect DEF Phase
    <3> QED BY <1>7, <1>a, <2>1, <3>1 DEF LoopWakes
  <2>2. CASE Throw(l) /\ UNCHANGED state
    <3>1. \A g \in Caller \ {l} : flow'[g] = flow[g]
      BY <1>0, <2>2, ThrowEffect
    <3> QED BY <1>7, <1>a, <2>2, <3>1 DEF LoopWakes
  <2>3. CASE Connect(l, "ws", stored)
    BY <1>7, <1>a, <2>3 DEF LoopWakes, Connect
  <2> QED BY <1>7, <2>1, <2>2, <2>3 DEF LoopWakes
<1>8. ASSUME NEW s \in Sock, ReaderEnds(s)
      PROVE  FeedInv'
  BY <1>0, <1>8 DEF ReaderEnds, HandleDisconnect, FeedInv
<1>9. ASSUME NEW s \in Sock, SocketDrops(s)
      PROVE  FeedInv'
  BY <1>9, <1>a DEF SocketDrops, Untouched
<1>10. CASE HubPanics \/ TimePasses \/ OtherDevice
  BY <1>10, <1>a DEF HubPanics, TimePasses, OtherDevice, Untouched
<1>11. CASE PanicReturns
  <2>1. CASE StartLogout
    <3>1. \A s \in Sock : reader'[s] # "reading"
      BY <1>0, <2>1 DEF StartLogout, CancelReader, FeedInv
    <3>2. state' = "disconnected" \/ flow'["leave"].at = "leaving"
      <4>1. CASE wsClient = "none"
        BY <2>1, <4>1 DEF StartLogout, Forget
      <4>2. CASE wsClient # "none"
        BY <1>0, <2>1, <4>2, GoesEffect DEF StartLogout, Phase
      <4> QED BY <4>1, <4>2
    <3> QED BY <3>1, <3>2 DEF FeedInv
  <2>2. CASE /\ Goes("leave", "idle")
             /\ UNCHANGED <<state, wsClient, readerTask, reader>>
    BY <1>11, <1>a, <2>2 DEF PanicReturns
  <2> QED BY <1>11, <2>1, <2>2 DEF PanicReturns
<1>12. CASE EndLogout
  BY <1>12, <1>a DEF EndLogout, Forget
<1>13. CASE Relaunch
  BY <1>13 DEF Relaunch, FeedInv
<1>14. CASE UNCHANGED vars
  BY <1>14, <1>a DEF vars, clientVars
<1> QED BY <1>1, <1>2, <1>3, <1>4, <1>5, <1>6, <1>7, <1>8, <1>9, <1>10, <1>11, <1>12,
           <1>13, <1>14
        DEF Next, User, Flows

\* However the tasks overlap, at most one reader feeds the app, and a client that shows
\* "connected" has it on the socket that it sends to (connectWebSocket, logout).
THEOREM FeedIsSingle == Spec => []OneFeed
<1>1. Init => LoopLayer /\ FeedInv
  BY TypeInvInit, CallsAwaitedInit, LoopInvInit, FeedInvInit DEF LoopLayer
<1>2. LoopLayer /\ FeedInv /\ [Next]_vars => FeedInv'
  BY FeedInvNext DEF LoopLayer
<1>3. FeedInv => OneFeed
  BY DEF FeedInv, OneFeed
<1> QED BY <1>1, <1>2, <1>3, LoopLayerHolds, PTL DEF Spec

-----------------------------------------------------------------------------
(* Tokens.                                                                 *)

LEMMA HeirsInvInit == Init => HeirsInv
BY DEF Init, AuthInit, HeirsInv

\* Only a refresh changes a number of heirs, and it takes its row with it.
LEMMA HeirsInvHub ==
  ASSUME TypeInv, HeirsInv, NEW c \in Caller, HubStep(c)
  PROVE  HeirsInv'
<1>0. /\ CallOK /\ issued \in 0..MaxPair /\ rows \subseteq 1..issued
      /\ heirs \in [Pair -> Nat]
  BY DEF TypeInv, TypeOK, AuthTypeOK, CallOK
<1>a. ASSUME rows' \subseteq rows, UNCHANGED <<heirs, issued>>
      PROVE  HeirsInv'
  BY <1>a DEF HeirsInv
<1>b. ASSUME NEW K \in SUBSET rows, Grant(c, K), UNCHANGED heirs
      PROVE  HeirsInv'
  <2>1. issued' = issued + 1 /\ rows' = K \cup {issued'}
    BY <1>0, <1>b, GrantEffect
  <2>2. ASSUME NEW p \in Pair
        PROVE  /\ heirs[p] <= 1 /\ (p \in rows' => heirs[p] = 0)
               /\ (p > issued' => heirs[p] = 0)
    <3>1. p \in Int
      BY DEF Pair
    <3>2. p = issued' => p > issued
      BY <1>0, <2>1
    <3>3. p > issued' => p > issued
      BY <1>0, <2>1, <3>1
    <3> QED BY <2>1, <3>2, <3>3 DEF HeirsInv
  <2> QED BY <1>b, <2>2 DEF HeirsInv
<1>1. CASE HubLooksUp(c)
  BY <1>1, <1>a DEF HubLooksUp
<1>2. CASE HubRegisters(c)
  BY <1>2, <1>a, <1>b DEF HubRegisters
<1>3. CASE HubLogsIn(c)
  BY <1>3, <1>a, <1>b DEF HubLogsIn
<1>4. CASE HubRefreshes(c)
  <2> DEFINE p == call[c].arg
  <2>1. CASE rows' \subseteq rows /\ UNCHANGED <<heirs, issued>>
    BY <1>a, <2>1
  <2>2. CASE p \in rows /\ Grant(c, rows \ {p}) /\ heirs' = [heirs EXCEPT ![p] = @ + 1]
    <3> HIDE DEF p
    <3>1. issued' = issued + 1 /\ rows' = (rows \ {p}) \cup {issued'}
      BY <1>0, <2>2, GrantEffect
    <3>2. p \in Int /\ p <= issued
      BY <1>0, <2>2
    <3>3. ASSUME NEW q \in Pair
          PROVE  /\ heirs'[q] <= 1 /\ (q \in rows' => heirs'[q] = 0)
                 /\ (q > issued' => heirs'[q] = 0)
      <4>1. CASE q = p
        <5>1. heirs[p] = 0
          BY <2>2, <4>1 DEF HeirsInv
        <5>2. heirs'[p] = 1
          BY <1>0, <2>2, <4>1, <5>1
        <5>3. p \notin rows' /\ ~(p > issued')
          BY <1>0, <3>1, <3>2
        <5> QED BY <4>1, <5>2, <5>3
      <4>2. CASE q # p
        <5>1. heirs'[q] = heirs[q] /\ q \in Int
          BY <1>0, <2>2, <4>2 DEF Pair
        <5>2. q = issued' \/ q > issued' => q > issued
          BY <1>0, <3>1, <5>1
        <5> QED BY <3>1, <5>1, <5>2 DEF HeirsInv
      <4> QED BY <4>1, <4>2
    <3> QED BY <3>3 DEF HeirsInv
  <2> QED BY <1>4, <2>1, <2>2 DEF HubRefreshes
<1> QED BY <1>1, <1>2, <1>3, <1>4 DEF HubStep

LEMMA HeirsInvNext == TypeInv /\ HeirsInv /\ [Next]_vars => HeirsInv'
<1> SUFFICES ASSUME TypeInv, HeirsInv, [Next]_vars
             PROVE  HeirsInv'
  OBVIOUS
<1>a. ASSUME UNCHANGED <<heirs, issued>>, rows' \subseteq rows
      PROVE  HeirsInv'
  BY <1>a DEF HeirsInv
<1>1. ASSUME NEW f \in Caller, Hub(f)
      PROVE  HeirsInv'
  BY <1>1, HeirsInvHub DEF Hub
<1>2. CASE User
  BY <1>2, <1>a DEF User, Panic, Login
<1>3. ASSUME NEW f \in Caller, Flows(f)
      PROVE  HeirsInv'
  BY <1>3, <1>a DEF Flows, TokensArrive, TokensRefused, RequestFails, HubAccepts,
       ConnectReturns, ConnectRejected, ConnectFails, authVars
<1>4. ASSUME NEW l \in Loop, LoopWakes(l)
      PROVE  HeirsInv'
  BY <1>4, <1>a DEF LoopWakes, authVars
<1>5. ASSUME NEW s \in Sock, ReaderEnds(s) \/ SocketDrops(s)
      PROVE  HeirsInv'
  BY <1>5, <1>a DEF ReaderEnds, SocketDrops, authVars
<1>6. CASE HubPanics \/ PanicReturns \/ EndLogout
  BY <1>6, <1>a DEF HubPanics, RevokeAll, PanicReturns, EndLogout, authVars
<1>7. CASE TimePasses \/ OtherDevice \/ Relaunch
  BY <1>7, <1>a DEF TimePasses, JwtExpires, RefreshExpires, OtherDevice,
                     RegistersElsewhere, RevokeAll, Relaunch
<1>8. CASE UNCHANGED vars
  BY <1>8, <1>a DEF vars, authVars
<1> QED BY <1>1, <1>2, <1>3, <1>4, <1>5, <1>6, <1>7, <1>8 DEF Next

\* A refresh token is exchanged at most once, whatever replies are lost and however often
\* it is sent (auth.ts, refresh).
THEOREM RefreshedOnce == Spec => []RefreshOnce
<1>1. HeirsInv => RefreshOnce
  BY DEF HeirsInv, RefreshOnce
<1> QED BY <1>1, HeirsInvInit, HeirsInvNext, TypeInvInit, TypeInvNext, PTL DEF Spec

LEMMA TokenInvInit == Init => TokenInv
BY DEF Init, AuthInit, TokenInv, FreshInv, Granted, NoCall, None

\* Steps that grant nothing and take nothing that was granted.
LEMMA TokenFrame ==
  ASSUME TypeInv, TokenInv,
         overdue' \subseteq gone', rows \cup gone \subseteq rows' \cup gone',
         issued' = issued, stored' \in {stored, None},
         \A f \in Caller :
           /\ call'[f].at = "granted" /\ call'[f].op # "panic" => call'[f] = call[f]
           /\ call'[f].op = "refresh" =>
                \/ call[f].op = "refresh" /\ call'[f].arg = call[f].arg
                \/ call'[f].arg = stored
           /\ Granted(f) /\ call[f].op = "refresh" =>
                call'[f] = call[f] \/ call[f].arg \in gone'
  PROVE  TokenInv'
<1>1. ASSUME NEW f \in Caller, Granted(f)'
      PROVE  Granted(f) /\ call'[f] = call[f]
  BY <1>1 DEF Granted
<1>2. ASSUME NEW f \in Caller, Granted(f)'
      PROVE  /\ call'[f].got \in 1..issued'
             /\ call'[f].got \in rows' \cup gone'
             /\ call'[f].got # stored'
  BY <1>1, <1>2 DEF TokenInv, FreshInv, None
<1>3. ASSUME NEW f \in Caller, Granted(f)', NEW g \in Caller, call'[g].op = "refresh"
      PROVE  call'[g].arg # call'[f].got
  <2>1. Granted(f) /\ call'[f].got = call[f].got
    BY <1>1, <1>3
  <2>2. call[f].got # stored
        /\ (call[g].op = "refresh" => call[g].arg # call[f].got)
    BY <2>1 DEF TokenInv, FreshInv
  <2> QED BY <1>3, <2>1, <2>2
<1>4. ASSUME NEW f \in Caller, Granted(f)', NEW g \in Caller, Granted(g)', g # f
      PROVE  call'[g].got # call'[f].got
  BY <1>1, <1>4 DEF TokenInv, FreshInv
<1>5. FreshInv'
  BY <1>2, <1>3, <1>4 DEF FreshInv
<1>6. ASSUME stored' # None
      PROVE  stored' \in rows' \cup gone' \/ Exchanged(stored)'
  <2>1. stored' = stored
    BY <1>6
  <2>2. CASE stored \in rows \cup gone
    BY <2>1, <2>2
  <2>3. CASE Exchanged(stored)
    <3>1. PICK f \in Caller : Granted(f) /\ call[f].op = "refresh" /\ call[f].arg = stored
      BY <2>3 DEF Exchanged
    <3>2. CASE call'[f] = call[f]
      BY <2>1, <3>1, <3>2 DEF Exchanged, Granted
    <3>3. CASE call[f].arg \in gone'
      BY <2>1, <3>1, <3>3
    <3> QED BY <3>1, <3>2, <3>3
  <2> QED BY <1>6, <2>1, <2>2, <2>3 DEF TokenInv
<1> QED BY <1>5, <1>6 DEF TokenInv

\* A pair is granted: its row is new, and one row may go that is exchanged for it.
LEMMA TokenGrant ==
  ASSUME TypeInv, TokenInv, NEW c \in Caller, call[c].at \in {"hub", "bcrypt"},
         NEW K \in SUBSET rows, Grant(c, K), UNCHANGED <<stored, overdue, gone>>,
         K = rows \/ (call[c].op = "refresh" /\ K = rows \ {call[c].arg})
  PROVE  TokenInv'
<1>0. CallOK /\ issued \in 0..MaxPair
  BY DEF TypeInv, TypeOK, AuthTypeOK, CallOK
<1>1. /\ issued' = issued + 1 /\ rows' = K \cup {issued'}
      /\ call'[c].at = "granted" /\ call'[c].got = issued'
      /\ call'[c].op = call[c].op /\ call'[c].arg = call[c].arg
      /\ \A g \in Caller \ {c} : call'[g] = call[g]
  BY <1>0, GrantEffect
<1>2. \A g \in Caller : call'[g].op = call[g].op /\ call'[g].arg = call[g].arg
  BY <1>1
<1>3. ~Granted(c)
  BY DEF Granted
<1>4. /\ stored \in 0..issued
      /\ \A g \in Caller : call[g].arg \in 0..issued /\ call[g].got \in 0..issued
  BY DEF TypeInv, NumbersOK
<1>5. \A g \in Caller \ {c} : Granted(g)' <=> Granted(g)
  BY <1>1 DEF Granted
<1>6. ASSUME NEW f \in Caller, Granted(f)'
      PROVE  /\ call'[f].got \in 1..issued'
             /\ call'[f].got \in rows' \cup gone'
             /\ call'[f].got # stored'
             /\ \A g \in Caller : call'[g].op = "refresh" => call'[g].arg # call'[f].got
             /\ \A g \in Caller : Granted(g)' /\ g # f => call'[g].got # call'[f].got
  <2>1. CASE f = c
    <3>1. issued' \in 1..issued' /\ issued' \notin 0..issued
      BY <1>0, <1>1
    <3>2. \A g \in Caller : g # c => call'[g].got \in 0..issued
      BY <1>1, <1>4
    <3> QED BY <1>1, <1>2, <1>4, <2>1, <3>1, <3>2
  <2>2. CASE f # c
    <3>1. Granted(f) /\ call'[f] = call[f]
      BY <1>1, <1>5, <1>6, <2>2
    <3>2. /\ call[f].got \in 1..issued /\ call[f].got \in rows \cup gone
          /\ call[f].got # stored
          /\ \A g \in Caller : call[g].op = "refresh" => call[g].arg # call[f].got
          /\ \A g \in Caller : Granted(g) /\ g # f => call[g].got # call[f].got
      BY <3>1 DEF TokenInv, FreshInv
    <3>3. call[f].got \in 1..issued' /\ call[f].got # issued'
      BY <1>0, <1>1, <3>2
    <3>4. call[f].got \in rows' \cup gone'
      BY <1>1, <3>2
    <3>5. \A g \in Caller : Granted(g)' /\ g # f => call'[g].got # call'[f].got
      BY <1>1, <1>5, <3>1, <3>2, <3>3
    <3> QED BY <1>2, <3>1, <3>2, <3>3, <3>4, <3>5
  <2> QED BY <2>1, <2>2
<1>7. FreshInv'
  BY <1>6 DEF FreshInv
<1>8. ASSUME stored # None
      PROVE  stored \in rows' \cup gone \/ Exchanged(stored)'
  <2>1. CASE stored \in rows \cup gone
    <3>1. CASE stored \in rows' \cup gone
      BY <3>1
    <3>2. CASE stored \notin rows' \cup gone
      <4>1. call[c].op = "refresh" /\ call[c].arg = stored
        BY <1>1, <2>1, <3>2
      <4> QED BY <1>1, <4>1 DEF Exchanged, Granted
    <3> QED BY <3>1, <3>2
  <2>2. CASE Exchanged(stored)
    <3>1. PICK f \in Caller : Granted(f) /\ call[f].op = "refresh" /\ call[f].arg = stored
      BY <2>2 DEF Exchanged
    <3>2. f # c
      BY <1>3, <3>1
    <3> QED BY <1>1, <3>1, <3>2 DEF Exchanged, Granted
  <2> QED BY <1>8, <2>1, <2>2 DEF TokenInv
<1> QED BY <1>7, <1>8 DEF TokenInv, Exchanged

\* A flow saves the pair that it was granted.
LEMMA TokenArrives ==
  ASSUME TypeInv, TokenInv, NEW f \in Caller, call[f].op # "panic", TokensArrive(f)
  PROVE  TokenInv'
<1>1. CallOK /\ Granted(f)
  BY DEF TypeInv, TypeOK, AuthTypeOK, CallOK, TokensArrive, Granted
<1>2. /\ call'[f] = NoCall /\ stored' = call[f].got
      /\ \A g \in Caller \ {f} : call'[g] = call[g]
      /\ UNCHANGED <<rows, gone, overdue, issued>>
  BY <1>1, AnsweredEffect DEF TokensArrive
<1>3. call[f].got \in rows \cup gone
  BY <1>1 DEF TokenInv, FreshInv
<1>4. ASSUME NEW g \in Caller, Granted(g)'
      PROVE  g # f /\ Granted(g) /\ call'[g] = call[g]
  BY <1>2, <1>4 DEF Granted, NoCall
<1>5. ASSUME NEW g \in Caller, call'[g].op = "refresh"
      PROVE  call[g].op = "refresh" /\ call'[g] = call[g]
  BY <1>2, <1>5 DEF NoCall
<1>6. FreshInv'
  <2> SUFFICES ASSUME NEW g \in Caller, Granted(g)'
               PROVE  /\ call'[g].got \in 1..issued'
                      /\ call'[g].got \in rows' \cup gone'
                      /\ call'[g].got # stored'
                      /\ \A h \in Caller : call'[h].op = "refresh" => call'[h].arg # call'[g].got
                      /\ \A h \in Caller : Granted(h)' /\ h # g => call'[h].got # call'[g].got
    BY DEF FreshInv
  <2>1. g # f /\ Granted(g) /\ call'[g] = call[g]
    BY <1>4
  <2>2. /\ call[g].got \in 1..issued /\ call[g].got \in rows \cup gone
        /\ call[f].got # call[g].got
        /\ \A h \in Caller : call[h].op = "refresh" => call[h].arg # call[g].got
        /\ \A h \in Caller : Granted(h) /\ h # g => call[h].got # call[g].got
    BY <1>1, <2>1 DEF TokenInv, FreshInv
  <2> QED BY <1>2, <1>4, <1>5, <2>1, <2>2
<1> QED BY <1>2, <1>3, <1>6 DEF TokenInv

LEMMA TokenHub ==
  ASSUME TypeInv, TokenInv, NEW c \in Caller, HubStep(c), UNCHANGED stored
  PROVE  TokenInv'
<1>0. CallOK /\ overdue \subseteq gone
  BY DEF TypeInv, TypeOK, AuthTypeOK, CallOK, TokenInv
<1>1. ASSUME Refuse(c), call[c].at \in {"hub", "bcrypt"},
             rows \cup gone \subseteq rows' \cup gone',
             UNCHANGED <<issued, overdue, gone>>
      PROVE  TokenInv'
  <2>1. \A f \in Caller \ {c} : call'[f] = call[f]
    BY <1>0, <1>1, RefuseEffect
  <2>2. /\ call'[c].at = "refused" /\ ~Granted(c)
        /\ call'[c].op = call[c].op /\ call'[c].arg = call[c].arg
    BY <1>0, <1>1, RefuseEffect DEF Granted
  <2> QED BY <1>0, <1>1, <2>1, <2>2, TokenFrame
<1>2. CASE HubLooksUp(c)
  <2>1. CASE call' = [call EXCEPT ![c].at = "bcrypt"]
    <3>1. /\ call'[c].at = "bcrypt" /\ ~Granted(c)
          /\ call'[c].op = call[c].op /\ call'[c].arg = call[c].arg
          /\ \A f \in Caller \ {c} : call'[f] = call[f]
      BY <1>0, <1>2, <2>1 DEF HubLooksUp, Granted, CallOK, Call
    <3>2. UNCHANGED <<rows, issued, overdue, gone>>
      BY <1>2 DEF HubLooksUp
    <3> QED BY <1>0, <3>1, <3>2, TokenFrame
  <2> QED BY <1>1, <1>2, <2>1 DEF HubLooksUp
<1>3. CASE HubRegisters(c)
  BY <1>1, <1>3, TokenGrant DEF HubRegisters
<1>4. CASE HubLogsIn(c)
  BY <1>1, <1>4, TokenGrant DEF HubLogsIn
<1>5. CASE HubRefreshes(c)
  <2> DEFINE p == call[c].arg
  <2>1. CASE Refuse(c) /\ (rows' = rows \/ (p \in overdue /\ rows' = rows \ {p}))
             /\ UNCHANGED issued
    BY <1>0, <1>1, <1>5, <2>1 DEF HubRefreshes
  <2>2. CASE Grant(c, rows \ {p})
    BY <1>5, <2>2, TokenGrant DEF HubRefreshes
  <2> QED BY <1>5, <2>1, <2>2 DEF HubRefreshes
<1> QED BY <1>2, <1>3, <1>4, <1>5 DEF HubStep

LEMMA TokenInvNext == TypeInv /\ CallsAwaited /\ TokenInv /\ [Next]_vars => TokenInv'
<1> SUFFICES ASSUME TypeInv, CallsAwaited, TokenInv, [Next]_vars
             PROVE  TokenInv'
  OBVIOUS
<1> USE FlowNames
<1>0. /\ FlowOK /\ CallOK /\ stored \in Pair \cup {None} /\ overdue \subseteq gone
      /\ rows \subseteq Pair /\ gone \subseteq Pair
  BY MaxPairNat DEF TypeInv, TypeOK, AuthTypeOK, CallOK, TokenInv, Pair
<1>a. ASSUME UNCHANGED <<call, issued>>, overdue' \subseteq gone',
             rows \cup gone \subseteq rows' \cup gone', stored' \in {stored, None}
      PROVE  TokenInv'
  BY <1>a, TokenFrame
<1>b. \A f \in Caller : call[f].op # "none" =>
                           flow[f].at \in {"rest", "refresh", "panic"}
  BY DEF CallsAwaited, NoCall
<1>c. ASSUME NEW f \in Caller, ~Granted(f) \/ call[f].op # "refresh" \/ call[f].arg \in gone',
             call'[f].at # "granted" \/ call'[f].op = "panic",
             call'[f].op = "refresh" => call'[f].arg = stored,
             \A g \in Caller \ {f} : call'[g] = call[g],
             rows \cup gone \subseteq rows' \cup gone', UNCHANGED issued,
             overdue' \subseteq gone', stored' \in {stored, None}
      PROVE  TokenInv'
  BY <1>c, TokenFrame
<1>1. ASSUME NEW op \in {"register", "login"}, Login(op)
      PROVE  TokenInv'
  <2>1. /\ call'["user"] = [op |-> op, at |-> "hub", arg |-> None, got |-> None]
        /\ \A g \in Caller \ {"user"} : call'[g] = call[g]
    BY <1>0, <1>1, AskEffect DEF Login, Op
  <2>2. call["user"].op # "refresh"
    BY <1>b, <1>1 DEF Login
  <2> QED BY <1>0, <1>1, <1>c, <2>1, <2>2 DEF Login
<1>2. CASE Panic
  <2>1. /\ call'["leave"] = [op |-> "panic", at |-> "hub", arg |-> stored, got |-> None]
        /\ \A g \in Caller \ {"leave"} : call'[g] = call[g]
    BY <1>0, <1>2, AskEffect DEF Panic, Op
  <2>2. call["leave"].op # "refresh"
    BY <1>b, <1>2 DEF Panic
  <2> QED BY <1>0, <1>2, <1>c, <2>1, <2>2 DEF Panic
<1>3. ASSUME NEW f \in Caller, Hub(f)
      PROVE  TokenInv'
  BY <1>3, TokenHub DEF Hub, Untouched
<1>4. ASSUME NEW f \in Caller, TokensArrive(f)
      PROVE  TokenInv'
  <2>1. f # "leave"
    BY <1>4 DEF TokensArrive, CallsAwaited
  <2> QED BY <1>4, <2>1, TokenArrives DEF CallsAwaited
<1>5. ASSUME NEW f \in Caller, TokensRefused(f)
      PROVE  TokenInv'
  <2>1. call'[f] = NoCall /\ \A g \in Caller \ {f} : call'[g] = call[g]
    BY <1>0, <1>5, AnsweredEffect DEF TokensRefused
  <2>2. ~Granted(f)
    BY <1>5 DEF TokensRefused, Granted
  <2> QED BY <1>0, <1>5, <1>c, <2>1, <2>2 DEF TokensRefused, NoCall
<1>6. ASSUME NEW f \in Caller, RequestFails(f)
      PROVE  TokenInv'
  <2>1. call'[f] = NoCall /\ \A g \in Caller \ {f} : call'[g] = call[g]
    BY <1>0, <1>6, AnsweredEffect DEF RequestFails
  <2>2. call'[f].op = "none" /\ call'[f].at = "none"
    BY <2>1 DEF NoCall
  <2>3. gone' = gone \cup (IF call[f].op = "refresh" /\ call[f].at = "granted"
                            THEN {call[f].arg} ELSE {})
        /\ UNCHANGED <<rows, issued, overdue, stored>>
    BY <1>6 DEF RequestFails
  <2>4. ~Granted(f) \/ call[f].op # "refresh" \/ call[f].arg \in gone'
    BY <2>3 DEF Granted
  <2>5. gone \subseteq gone'
    BY <2>3
  <2> QED BY <1>0, <1>c, <2>1, <2>2, <2>3, <2>4, <2>5
<1>7. ASSUME NEW f \in Caller, ConnectRejected(f)
      PROVE  TokenInv'
  <2>1. CASE Ask(f, "refresh", "refresh", stored)
    <3>1. /\ call'[f] = [op |-> "refresh", at |-> "hub", arg |-> stored, got |-> None]
          /\ \A g \in Caller \ {f} : call'[g] = call[g]
      BY <1>0, <2>1, AskEffect DEF Op
    <3>2. call[f].op # "refresh"
      BY <1>b, <1>7 DEF ConnectRejected
    <3> QED BY <1>0, <1>7, <1>c, <3>1, <3>2 DEF ConnectRejected
  <2>2. CASE UNCHANGED call
    BY <1>0, <1>7, <1>a, <2>2 DEF ConnectRejected
  <2> QED BY <1>7, <2>1, <2>2 DEF ConnectRejected
<1>8. ASSUME NEW f \in Caller, HubAccepts(f) \/ ConnectReturns(f) \/ ConnectFails(f)
      PROVE  TokenInv'
  BY <1>0, <1>8, <1>a DEF HubAccepts, ConnectReturns, ConnectFails, authVars
<1>9. ASSUME NEW l \in Loop, LoopWakes(l)
      PROVE  TokenInv'
  BY <1>0, <1>9, <1>a DEF LoopWakes, authVars
<1>10. ASSUME NEW s \in Sock, ReaderEnds(s) \/ SocketDrops(s)
       PROVE  TokenInv'
  BY <1>0, <1>10, <1>a DEF ReaderEnds, SocketDrops, Untouched, authVars
<1>11. CASE HubPanics
  <2>1. call["leave"].op = "panic"
    BY <1>11 DEF HubPanics, CallsAwaited, NoCall
  <2>2. /\ call'["leave"].op = "panic"
        /\ \A g \in Caller \ {"leave"} : call'[g] = call[g]
    BY <1>0, <1>11, <2>1, RefuseEffect DEF HubPanics, CallOK, Call
  <2>3. /\ rows \cup gone \subseteq rows' \cup gone' /\ overdue' \subseteq gone'
        /\ UNCHANGED <<issued, stored>>
    BY <1>0, <1>11 DEF HubPanics, RevokeAll
  <2> QED BY <1>c, <2>1, <2>2, <2>3
<1>12. CASE PanicReturns
  <2>1. call'["leave"] = NoCall /\ \A g \in Caller \ {"leave"} : call'[g] = call[g]
    BY <1>0, <1>12, AnsweredEffect DEF PanicReturns
  <2>2. call["leave"].op # "refresh"
    BY DEF CallsAwaited, NoCall
  <2>3. stored' \in {stored, None}
    BY <1>12 DEF PanicReturns, StartLogout, Forget
  <2> QED BY <1>0, <1>12, <1>c, <2>1, <2>2, <2>3 DEF PanicReturns, NoCall
<1>13. CASE EndLogout
  BY <1>0, <1>13, <1>a DEF EndLogout, Forget, authVars
<1>14. CASE TimePasses
  BY <1>0, <1>14, <1>a DEF TimePasses, JwtExpires, RefreshExpires, Untouched
<1>15. CASE OtherDevice
  BY <1>0, <1>15, <1>a DEF OtherDevice, RegistersElsewhere, RevokeAll, Untouched
<1>16. CASE Relaunch
  <2>1. /\ UNCHANGED <<rows, issued, overdue, stored>>
        /\ \A f \in Caller : call'[f] = NoCall
        /\ gone \subseteq gone'
    BY <1>16 DEF Relaunch
  <2>2. ASSUME NEW f \in Caller, Granted(f), call[f].op = "refresh"
        PROVE  call[f].arg \in gone'
    BY <1>16, <2>2 DEF Relaunch, Granted
  <2> QED BY <1>0, <2>1, <2>2, TokenFrame DEF NoCall
<1>17. CASE UNCHANGED vars
  BY <1>0, <1>17, <1>a DEF vars, clientVars, authVars
<1> QED BY <1>1, <1>2, <1>3, <1>4, <1>5, <1>6, <1>7, <1>8, <1>9, <1>10, <1>11, <1>12,
           <1>13, <1>14, <1>15, <1>16, <1>17
        DEF Next, User, Flows

\* The refresh token in the keychain can be exchanged, or is being exchanged, unless a
\* panic, the 30 days or a lost reply took it (saveTokens comes before the connect).
THEOREM TokensStayGood == Spec => []StoredTokenGood
<1>1. Init => LoopLayer /\ TokenInv
  BY TypeInvInit, CallsAwaitedInit, LoopInvInit, TokenInvInit DEF LoopLayer
<1>2. LoopLayer /\ TokenInv /\ [Next]_vars => TokenInv'
  BY TokenInvNext DEF LoopLayer
<1>3. TokenInv => StoredTokenGood
  BY DEF TokenInv, Exchanged, StoredTokenGood
<1> QED BY <1>1, <1>2, <1>3, LoopLayerHolds, PTL DEF Spec

-----------------------------------------------------------------------------
(* Silence after a logout.                                                 *)

LEMMA OutInvInit == Init => OutInv
BY FlowNames DEF Init, OutInv, Idle

\* A logout that overtook nothing is over, or waits for its socket.
Out == (left \/ flow["leave"].at = "leaving") /\ ~overtaken

LEMMA OutInvNext ==
  TypeInv /\ CallsAwaited /\ LoopInv /\ FeedInv /\ TokenInv /\ OutInv /\ [Next]_vars
    => OutInv'
<1> SUFFICES ASSUME TypeInv, CallsAwaited, LoopInv, FeedInv, TokenInv, OutInv, [Next]_vars
             PROVE  OutInv'
  OBVIOUS
<1> USE FlowNames
<1>0. /\ FlowOK /\ CallOK /\ stored \in Pair \cup {None} /\ cancelled \subseteq Loop
      /\ reader \in [Sock -> {"none", "reading", "cancelled"}]
  BY DEF TypeInv, TypeOK, AuthTypeOK, CallOK
<1>a. ASSUME ~Out, UNCHANGED <<left, overtaken>>,
             flow'["leave"] = flow["leave"] \/ flow'["leave"].at = "idle",
             stored' = stored \/ stored' # None
      PROVE  OutInv'
  BY <1>a DEF Out, OutInv
<1>b. ASSUME UNCHANGED <<left, overtaken, flow, stored, reconnecting, cancelled>>,
             state' \in {state, "disconnected"},
             \A s \in Sock : reader'[s] = "reading" => reader[s] = "reading"
      PROVE  OutInv'
  <2>1. Quiet => Quiet'
    BY <1>b DEF Quiet, InFlight, Live
  <2> QED BY <1>b, <2>1 DEF OutInv
<1>c. ASSUME Out
      PROVE  Quiet /\ flow["leave"].at \in {"idle", "leaving"}
  BY <1>c DEF Out, OutInv, CallsAwaited
<1>d. ASSUME Out, NEW f \in Caller
      PROVE  flow[f].at \notin {"rest", "refresh", "ws", "ws2", "panic"}
  BY <1>c, <1>d DEF Quiet, InFlight, CallsAwaited
<1>1. ASSUME NEW op \in {"register", "login"}, Login(op)
      PROVE  OutInv'
  <2>1. Ask("user", "rest", op, None) /\ op \in Op
    BY <1>1 DEF Login, Op
  <2>2. \A g \in Caller \ {"user"} : flow'[g] = flow[g]
    BY <1>0, <2>1, AskEffect
  <2> QED BY <1>1, <2>2 DEF Login, OutInv
<1>2. CASE Panic
  <2>1. flow'["leave"].at = "panic"
    BY <1>0, <1>2, AskEffect DEF Panic, Op
  <2> QED BY <1>2, <2>1 DEF Panic, OutInv
<1>3. ASSUME NEW f \in Caller, Hub(f) \/ HubAccepts(f)
      PROVE  OutInv'
  BY <1>3, <1>b DEF Hub, Untouched, HubAccepts
<1>4. ASSUME NEW f \in Caller,
             \/ TokensArrive(f) \/ TokensRefused(f) \/ RequestFails(f)
             \/ ConnectReturns(f) \/ ConnectRejected(f) \/ ConnectFails(f)
      PROVE  OutInv'
  <2>1. ~Out /\ UNCHANGED <<left, overtaken>>
    BY <1>4, <1>d DEF TokensArrive, TokensRefused, RequestFails, ConnectReturns,
                      ConnectRejected, ConnectFails
  <2>2. flow'["leave"] = flow["leave"] \/ flow'["leave"].at = "idle"
    <3>1. CASE f = "leave"
      <4>1. RequestFails(f)
        BY <1>4, <3>1 DEF TokensArrive, TokensRefused, ConnectReturns, ConnectRejected,
                          ConnectFails, CallsAwaited
      <4> QED BY <1>0, <3>1, <4>1, ThrowEffect DEF RequestFails
    <3>2. CASE f # "leave" /\ TokensArrive(f)
      BY <1>0, <3>2, ConnectEffect DEF TokensArrive, CallOK, Call
    <3>3. CASE f # "leave" /\ (TokensRefused(f) \/ RequestFails(f) \/ ConnectFails(f))
      BY <1>0, <3>3, ThrowEffect DEF TokensRefused, RequestFails, ConnectFails
    <3>4. CASE f # "leave" /\ ConnectReturns(f)
      BY <1>0, <3>4, GoesEffect DEF ConnectReturns, Phase
    <3>5. CASE f # "leave" /\ ConnectRejected(f)
      BY <1>0, <3>5, RejectedEffect
    <3> QED BY <1>4, <3>1, <3>2, <3>3, <3>4, <3>5
  <2>3. stored' = stored \/ stored' # None
    <3>1. CASE TokensArrive(f)
      <4>1. Granted(f)
        BY <3>1 DEF TokensArrive, Granted, CallsAwaited
      <4>2. call[f].got # None
        BY <4>1 DEF TokenInv, FreshInv, None
      <4> QED BY <3>1, <4>2 DEF TokensArrive
    <3> QED BY <1>4, <3>1 DEF TokensRefused, RequestFails, ConnectReturns,
                              ConnectRejected, ConnectFails
  <2> QED BY <1>a, <2>1, <2>2, <2>3
<1>5. ASSUME NEW l \in Loop, LoopWakes(l)
      PROVE  OutInv'
  <2>1. /\ \A g \in Caller \ {l} : flow'[g] = flow[g]
        /\ Goes(l, "idle") => flow'[l].at = "idle"
    <3>1. CASE Goes(l, "idle")
      BY <1>0, <3>1, GoesEffect DEF Phase
    <3>2. CASE Throw(l) /\ ~Goes(l, "idle")
      BY <1>0, <3>2, ThrowEffect
    <3>3. CASE Connect(l, "ws", stored) /\ ~Goes(l, "idle")
      BY <1>0, <3>3, ConnectEffect
    <3> QED BY <1>5, <3>1, <3>2, <3>3 DEF LoopWakes
  <2>2. UNCHANGED <<left, overtaken, stored, cancelled, reader>>
    BY <1>5 DEF LoopWakes
  <2>3. CASE Out
    <3>1. l \in cancelled
      BY <1>c, <1>5, <2>3 DEF Quiet, Live, LoopWakes
    <3>2. UNCHANGED <<state, reconnecting>> /\ flow'[l].at = "idle"
      BY <1>5, <2>1, <3>1 DEF LoopWakes
    <3>3. Quiet'
      BY <1>c, <2>1, <2>2, <2>3, <3>2 DEF Quiet, InFlight, Live
    <3> QED BY <2>1, <2>2, <3>2, <3>3 DEF OutInv
  <2>4. CASE ~Out
    BY <1>a, <2>1, <2>2, <2>4
  <2> QED BY <2>3, <2>4
<1>6. ASSUME NEW s \in Sock, ReaderEnds(s)
      PROVE  OutInv'
  <2>1. /\ UNCHANGED <<left, overtaken, stored, reconnecting>> /\ state' = "disconnected"
        /\ \A t \in Sock : reader'[t] = "reading" => reader[t] = "reading"
    BY <1>0, <1>6 DEF ReaderEnds, HandleDisconnect
  <2>2. CASE reconnecting /\ Schedule
    <3>1. ~Out
      BY <1>c, <2>2 DEF Quiet
    <3>2. flow'["leave"] = flow["leave"]
      BY <1>0, <2>2, ScheduleEffect
    <3> QED BY <1>a, <2>1, <3>1, <3>2
  <2>3. CASE UNCHANGED <<flow, cancelled, loopTask>>
    BY <1>b, <2>1, <2>3
  <2> QED BY <1>6, <2>2, <2>3 DEF ReaderEnds, HandleDisconnect
<1>7. ASSUME NEW s \in Sock, SocketDrops(s)
      PROVE  OutInv'
  BY <1>7, <1>b DEF SocketDrops, Untouched
<1>8. CASE HubPanics \/ TimePasses \/ OtherDevice
  BY <1>8, <1>b DEF HubPanics, TimePasses, OtherDevice, Untouched
<1>9. CASE PanicReturns
  <2>1. ~Out /\ stored # None
    BY <1>9, <1>d DEF PanicReturns, OutInv
  <2>2. ~(left /\ ~overtaken)
    BY <2>1 DEF Out
  <2>3. CASE StartLogout
    <3>1. /\ flow'["leave"].at \in {"idle", "leaving"}
          /\ \A g \in Caller \ {"leave"} : flow'[g] = flow[g]
      BY <1>0, <2>3, GoesEffect DEF StartLogout, Phase
    <3>2. ASSUME ~overtaken'
          PROVE  Quiet'
      <4>1. InFlight = {} /\ ~reconnecting'
        BY <2>3, <3>2 DEF StartLogout
      <4>2. InFlight' = {}
        BY <3>1, <4>1 DEF InFlight
      <4>3. Live' \subseteq cancelled'
        BY <2>3, <3>1 DEF StartLogout, CancelLoop, LoopInv, Live
      <4>4. \A s \in Sock : reader'[s] # "reading"
        BY <1>0, <2>3 DEF StartLogout, CancelReader, FeedInv
      <4> QED BY <4>1, <4>2, <4>3, <4>4 DEF Quiet
    <3>3. CASE wsClient = "none"
      <4>1. flow'["leave"].at = "idle"
        BY <1>0, <2>3, <3>3, GoesEffect DEF StartLogout, Phase
      <4> QED BY <2>3, <3>2, <3>3, <4>1 DEF StartLogout, Forget, OutInv
    <3>4. CASE wsClient # "none"
      <4>1. UNCHANGED <<left, stored>> /\ (overtaken => overtaken')
        BY <2>3, <3>4 DEF StartLogout
      <4> QED BY <2>1, <2>2, <3>2, <4>1 DEF OutInv
    <3> QED BY <3>3, <3>4
  <2>4. CASE Goes("leave", "idle") /\ UNCHANGED <<left, overtaken, stored>>
    BY <1>0, <1>a, <2>1, <2>4, GoesEffect DEF Phase
  <2> QED BY <1>9, <2>3, <2>4 DEF PanicReturns
<1>10. CASE EndLogout
  <2>1. /\ flow'["leave"].at = "idle"
        /\ \A g \in Caller \ {"leave"} : flow'[g] = flow[g]
    BY <1>0, <1>10, GoesEffect DEF EndLogout, Phase
  <2>2. ASSUME ~overtaken
        PROVE  Quiet'
    <3>1. Quiet
      BY <1>10, <1>c, <2>2 DEF EndLogout, Out
    <3> QED BY <1>10, <2>1, <3>1 DEF EndLogout, Quiet, InFlight, Live
  <2> QED BY <1>10, <2>1, <2>2 DEF EndLogout, Forget, OutInv
<1>11. CASE Relaunch
  <2>1. flow'["leave"].at = "idle" /\ ~left'
    BY <1>11 DEF Relaunch, Idle
  <2> QED BY <2>1 DEF OutInv
<1>12. CASE UNCHANGED vars
  BY <1>12, <1>b DEF vars, clientVars
<1> QED BY <1>1, <1>2, <1>3, <1>4, <1>5, <1>6, <1>7, <1>8, <1>9, <1>10, <1>11, <1>12
        DEF Next, User, Flows

\* Signed out stays signed out, unless the logout overtook a request or a connect: no
\* loop, reader or late reply brings back the connection or the tokens (logout).
THEOREM SignedOutForGood == Spec => []StaysOut
<1>1. Init => LoopLayer /\ FeedInv /\ TokenInv /\ OutInv
  BY TypeInvInit, CallsAwaitedInit, LoopInvInit, FeedInvInit, TokenInvInit, OutInvInit
     DEF LoopLayer
<1>2. LoopLayer /\ FeedInv /\ TokenInv /\ OutInv /\ [Next]_vars
        => (FeedInv /\ TokenInv /\ OutInv)'
  BY FeedInvNext, TokenInvNext, OutInvNext DEF LoopLayer
<1>3. OutInv => StaysOut
  BY DEF OutInv, Quiet, StaysOut, SignedOut
<1> QED BY <1>1, <1>2, <1>3, LoopLayerHolds, PTL DEF Spec
=============================================================================
