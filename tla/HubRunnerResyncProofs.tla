------------------------ MODULE HubRunnerResyncProofs ------------------------
(***************************************************************************)
(* The resync does what handleRunnerConnection sends it for: no run starts *)
(* a new conversation for a session that had one on record when its runner *)
(* connected.                                                              *)
(***************************************************************************)
EXTENDS HubRunnerProofs

\* The sessions that the property protects.
OnRecord == replayed \ archived

Resolved(s) == ResolveSdkSessionId(s) # NoSdk

\* No resync at position i of the runner's channel or behind it.
NoResyncFrom(c, i) ==
  \A j \in i..Len(toRunner[c]) : toRunner[c][j].type # "hub_runner_resync"

\* The resync is the next message that the runner reads, and the only one.
ResyncAhead(c) ==
  /\ toRunner[c] # << >>
  /\ toRunner[c][1].type = "hub_runner_resync"
  /\ \A s \in OnRecord : toRunner[c][1].sessions[s] # NoSdk
  /\ NoResyncFrom(c, 2)

\* The runner has read it, and still knows the conversations.
ResyncRead(c) ==
  /\ link = "open"
  /\ NoResyncFrom(c, 1)
  /\ \A s \in OnRecord : Resolved(s)

\* The stages of a connection: not accepted yet, resync under way, resync
\* lost with the connection, resync read.
ReplayInv ==
  ws # NoConn =>
    \/ Connecting /\ hubWs[ws] = "none"
    \/ ResyncAhead(ws)
    \/ toRunner[ws] = << >> /\ cut[ws]
    \/ ResyncRead(ws)

-----------------------------------------------------------------------------
\* What a run knows is not forgotten: the finally block saves a run's
\* conversation in the resume map before the run's entry goes.
LEMMA SdkMovesKeepResolved ==
  ASSUME RunnerInv, NEW r \in DOMAIN runs, SdkMoves(r), NEW s \in Session, Resolved(s)
  PROVE  Resolved(s)'
<1> USE DEF Resolved, ResolveSdkSessionId
<1>2. sessions[s] # NoRun => /\ sessions[s] \in DOMAIN runs
                             /\ runs[sessions[s]].session = s
  BY DEF RunnerInv, EntriesLive, Current, Live
<1>3. /\ sessions \in [Session -> Run \cup {NoRun}]
      /\ sdkIds \in [Session -> MaybeSdk]
      /\ \A q \in DOMAIN runs : runs[q] \in RunState
  BY DEF RunnerInv, RunnerTypeOK, ResumeMap
<1>4. CASE SdkStarts(r)
  <2>1. PICK k \in SdkId : SdkInit(r, k)
    BY <1>4 DEF SdkStarts
  <2>2. /\ sessions' = sessions
        /\ sdkIds' = sdkIds
        /\ \A q \in DOMAIN runs : runs'[q].sdk = IF q = r THEN k ELSE runs[q].sdk
    BY <1>3, <2>1 DEF SdkInit, RunState
  <2> QED
    BY <1>2, <2>2, NoSdkFresh
<1>5. CASE CanUseTool(r) \/ SdkResult(r)
  <2>1. /\ sessions' = sessions
        /\ sdkIds' = sdkIds
        /\ \A q \in DOMAIN runs : runs'[q].sdk = runs[q].sdk
    BY <1>3, <1>5 DEF CanUseTool, SdkResult, RunState
  <2> QED
    BY <1>2, <2>1
<1>6. CASE Finally(r)
  <2>1. \A q \in DOMAIN runs \ {r} : runs'[q] = runs[q]
    BY <1>6 DEF Finally
  <2>2. sessions'[s] = IF sessions[s] = r THEN NoRun ELSE sessions[s]
    BY <1>2, <1>3, <1>6, NoRunFresh DEF Finally, Leaves, RunState, RunnerInv, RunnerTypeOK
  <2>3. sdkIds'[s] = IF runs[r].session = s /\ runs[r].sdk # NoSdk
                     THEN runs[r].sdk ELSE sdkIds[s]
    BY <1>3, <1>6 DEF Finally
  <2> QED
    BY <1>2, <2>1, <2>2, <2>3
<1> QED
  BY <1>4, <1>5, <1>6 DEF SdkMoves, SdkEnd, SdkEndEarly, SdkThrow

\* A run that supersedes another resumes what the session knew.
LEMMA RunSessionKeepsResolved ==
  ASSUME RunnerInv, NEW t \in Session, RunSession(t, ResolveSdkSessionId(t)),
         NEW s \in Session, Resolved(s)
  PROVE  Resolved(s)'
<1> DEFINE k == ResolveSdkSessionId(t)
<1>1. PICK r \in Run \ DOMAIN runs :
        /\ runs' = [q \in DOMAIN runs \cup {r} |->
                      IF q = r THEN NewRun(t, k)
                      ELSE IF q = sessions[t] THEN Aborted(runs[q]) ELSE runs[q]]
        /\ sessions' = [sessions EXCEPT ![t] = r]
        /\ sdkIds' = sdkIds
  BY DEF RunSession
<1>2. /\ sessions \in [Session -> Run \cup {NoRun}]
      /\ \A q \in DOMAIN runs : runs[q] \in RunState
      /\ sessions[s] # NoRun => sessions[s] \in DOMAIN runs
  BY DEF RunnerInv, RunnerTypeOK, EntriesLive, Current, Live
<1>3. runs'[r].sdk = k
  BY <1>1 DEF NewRun
<1>4. \A q \in DOMAIN runs : runs'[q].sdk = runs[q].sdk
  BY <1>1, <1>2 DEF Aborted, RunState
<1>5. CASE s = t
  BY <1>1, <1>2, <1>3, <1>5, NoRunFresh DEF Resolved, ResolveSdkSessionId
<1>6. CASE s # t
  BY <1>1, <1>2, <1>4, <1>6 DEF Resolved, ResolveSdkSessionId
<1> QED
  BY <1>5, <1>6

\* Every handler but the resync's keeps what the session knew.
LEMMA HandlersKeepResolved ==
  ASSUME RunnerInv, RunnerHandles, ~HandleResync, NEW s \in Session, Resolved(s)
  PROVE  Resolved(s)'
<1>1. ASSUME NEW t \in Session, StartSession(t) \/ SendPrompt(t) PROVE Resolved(s)'
  BY <1>1, RunSessionKeepsResolved DEF StartSession, SendPrompt
<1>2. ASSUME NEW t \in Session, RejectCwd(t) PROVE Resolved(s)'
  BY <1>2 DEF RejectCwd, runnerVars, Resolved, ResolveSdkSessionId
<1>3. ASSUME NEW t \in Session, NEW p \in PromptNo, ResolvePrompt(t, p)
      PROVE  Resolved(s)'
  <2>1. /\ sessions' = sessions
        /\ sdkIds' = sdkIds
        /\ \A q \in DOMAIN runs : runs'[q].sdk = runs[q].sdk
    BY <1>3 DEF ResolvePrompt, RunnerInv, RunnerTypeOK, RunState
  <2>2. sessions[s] # NoRun => sessions[s] \in DOMAIN runs
    BY DEF RunnerInv, EntriesLive, Current, Live
  <2> QED
    BY <2>1, <2>2 DEF Resolved, ResolveSdkSessionId
<1>4. ASSUME NEW t \in Session, NEW p \in PromptNo, IgnoreResponse(t, p)
      PROVE  Resolved(s)'
  BY <1>4 DEF IgnoreResponse, runnerVars, Resolved, ResolveSdkSessionId
<1> QED
  BY <1>1, <1>2, <1>3, <1>4 DEF RunnerHandles

-----------------------------------------------------------------------------
\* What a handler finds at the head of the channel, and leaves in it.
LEMMA DeliveredHead ==
  ASSUME WireInv, NEW msg, Delivered(msg)
  PROVE  /\ link = "open"
         /\ ws \in Conn
         /\ toRunner[ws] \in Seq(HubToRunnerMsg)
         /\ toRunner[ws] # << >>
         /\ toRunner[ws][1] = msg
BY DEF Delivered, WireInv, WireTypeOK, HasSocket

\* Once the resync is read there is none left in the channel.
LEMMA ConsumeClears ==
  ASSUME WireInv, NEW msg, Delivered(msg), RunnerConsumes, ws' = ws,
         NoResyncFrom(ws, 2)
  PROVE  NoResyncFrom(ws, 1)'
<1> DEFINE q == toRunner[ws]
<1>1. ws \in Conn /\ q \in Seq(HubToRunnerMsg) /\ q # << >>
  BY DeliveredHead
<1>2. toRunner'[ws] = Tail(q)
  BY <1>1 DEF RunnerConsumes, WireInv, WireTypeOK
<1>3. /\ Len(Tail(q)) = Len(q) - 1
      /\ Len(q) \in Nat
      /\ \A i \in 1..Len(Tail(q)) : Tail(q)[i] = q[i + 1]
  BY <1>1, HeadTailProperties, LenProperties
<1>4. \A i \in 1..Len(Tail(q)) : Tail(q)[i].type # "hub_runner_resync"
  <2> TAKE i \in 1..Len(Tail(q))
  <2>1. i + 1 \in 2..Len(q)
    BY <1>3
  <2> QED
    BY <1>3, <2>1 DEF NoResyncFrom
<1> QED
  BY <1>2, <1>4 DEF NoResyncFrom

\* The first message of a connection is the resync, and it is the only one.
LEMMA RunnerHandlesKeepsReplay ==
  ASSUME Inv, ReplayInv, RunnerHandles, UNCHANGED <<replayed, archived>>
  PROVE  ReplayInv'
<1> USE DEF Inv
<1>1. UNCHANGED <<ws, link, hubWs, cut>>
  BY RunnerHandlesKeepsWire
<1>2. PICK msg : Delivered(msg) /\ RunnerConsumes
  BY DEF RunnerHandles, StartSession, RejectCwd, SendPrompt, ResolvePrompt,
         IgnoreResponse, HandleResync
<1>3. /\ link = "open"
      /\ ws \in Conn
      /\ toRunner[ws] \in Seq(HubToRunnerMsg)
      /\ toRunner[ws] # << >>
      /\ toRunner[ws][1] = msg
  BY <1>2, DeliveredHead
<1>4. OnRecord' = OnRecord /\ OnRecord \subseteq Session
  BY DEF OnRecord, HistoryTypeOK
<1>5. NoResyncFrom(ws, 2) => NoResyncFrom(ws, 1)'
  BY <1>1, <1>2, ConsumeClears
<1>6. CASE HandleResync
  <2>1. PICK m \in ResumeMap : Delivered(HubRunnerResync(m)) /\ sdkIds' = m
    BY <1>6 DEF HandleResync
  <2>2. toRunner[ws][1] = HubRunnerResync(m)
    BY <2>1, DeliveredHead
  <2>3. toRunner[ws][1].type = "hub_runner_resync" /\ toRunner[ws][1].sessions = m
    BY <2>2 DEF HubRunnerResync
  <2>4. 1 \in 1..Len(toRunner[ws])
    BY <1>3, EmptySeq
  <2>5. ~ResyncRead(ws)
    BY <2>3, <2>4 DEF ResyncRead, NoResyncFrom
  <2>6. ResyncAhead(ws)
    BY <1>3, <2>5, NoConnFresh DEF ReplayInv, Connecting
  <2>7. \A s \in OnRecord : Resolved(s)'
    BY <1>6, <2>1, <2>3, <2>6 DEF ResyncAhead, HandleResync, Resolved, ResolveSdkSessionId
  <2> QED
    BY <1>1, <1>3, <1>4, <1>5, <2>6, <2>7 DEF ResyncAhead, ResyncRead, ReplayInv
<1>7. CASE ~HandleResync
  <2>1. toRunner[ws][1].type # "hub_runner_resync"
    <3>1. PICK s \in Session :
            \/ Delivered(HubStartSession(s))
            \/ Delivered(HubSendPrompt(s))
            \/ \E p \in PromptNo, r \in Run : Delivered(HubRespondToPrompt(s, p, r))
      BY <1>7 DEF RunnerHandles, StartSession, RejectCwd, SendPrompt, ResolvePrompt,
                  IgnoreResponse
    <3>2. ASSUME NEW m, m.type # "hub_runner_resync", Delivered(m)
          PROVE  toRunner[ws][1].type # "hub_runner_resync"
      BY <3>2, DeliveredHead
    <3>3. HubStartSession(s).type # "hub_runner_resync"
      BY DEF HubStartSession
    <3>4. HubSendPrompt(s).type # "hub_runner_resync"
      BY DEF HubSendPrompt
    <3>5. \A p \in PromptNo, r \in Run :
            HubRespondToPrompt(s, p, r).type # "hub_runner_resync"
      BY DEF HubRespondToPrompt
    <3> QED
      BY <3>1, <3>2, <3>3, <3>4, <3>5
  <2>2. ResyncRead(ws)
    BY <1>3, <2>1, NoConnFresh DEF ReplayInv, ResyncAhead, Connecting
  <2>3. NoResyncFrom(ws, 2)
    BY <2>2 DEF ResyncRead, NoResyncFrom
  <2>4. \A s \in OnRecord : Resolved(s)'
    BY <1>4, <1>7, <2>2, HandlersKeepResolved DEF ResyncRead
  <2> QED
    BY <1>1, <1>3, <1>4, <1>5, <2>3, <2>4 DEF ResyncRead, ReplayInv
<1> QED
  BY <1>6, <1>7

\* What the SDK does leaves the hub's messages alone.
LEMMA SdkMovesKeepsReplay ==
  ASSUME Inv, ReplayInv, NEW r \in DOMAIN runs, SdkMoves(r),
         UNCHANGED <<replayed, archived>>
  PROVE  ReplayInv'
<1>1. UNCHANGED <<ws, link, hubWs, cut, toRunner>>
  BY DEF SdkMoves, SdkStarts, SdkInit, CanUseTool, SdkResult, SdkEnd, SdkEndEarly,
         SdkThrow, wireVars
<1>2. \A s \in OnRecord : Resolved(s) => Resolved(s)'
  BY SdkMovesKeepResolved DEF OnRecord, Inv, HistoryTypeOK
<1> QED
  BY <1>1, <1>2 DEF ReplayInv, ResyncAhead, ResyncRead, NoResyncFrom, OnRecord, Connecting

\* A connection starts, opens or closes at the runner's end.
LEMMA RunnerConnectsKeepsReplay ==
  ASSUME Inv, ReplayInv, RunnerConnects, UNCHANGED <<replayed, archived>>
  PROVE  ReplayInv'
<1>1. ASSUME NEW c \in Conn, Connect(c) PROVE ReplayInv'
  BY <1>1 DEF Connect, FreeConn, ReplayInv, Connecting
<1>2. CASE Open
  BY <1>2 DEF Open, runnerVars, ReplayInv, ResyncAhead, ResyncRead, NoResyncFrom, OnRecord,
              Resolved, ResolveSdkSessionId, Connecting
<1>3. CASE ConnectFails \/ RunnerWsClose
  BY <1>3 DEF ConnectFails, RunnerWsClose, ReplayInv
<1> QED
  BY <1>1, <1>2, <1>3 DEF RunnerConnects

\* The hub's messages go behind the resync, never before it.
LEMMA HubSendsKeepsReplay ==
  ASSUME Inv, ReplayInv, NEW msg \in HubToRunnerMsg, msg.type # "hub_runner_resync",
         runner # NoConn, HubSends(runner, msg), archived \subseteq archived',
         UNCHANGED <<replayed, sessions, sdkIds, runs, ws, link, hubWs, cut>>
  PROVE  ReplayInv'
<1> SUFFICES ASSUME ws # NoConn PROVE ReplayInv'
  BY DEF ReplayInv
<1> DEFINE q == toRunner[ws]
<1>1. ws \in Conn /\ runner \in Conn /\ q \in Seq(HubToRunnerMsg)
  BY DEF Inv, WireInv, WireTypeOK, HubInv, HubTypeOK
<1>2. Len(q) \in Nat
  BY <1>1, LenProperties
<1>3. CASE toRunner'[ws] = q
  BY <1>3 DEF ReplayInv, ResyncAhead, ResyncRead, NoResyncFrom, OnRecord, Resolved,
              ResolveSdkSessionId, Connecting
<1>4. CASE toRunner'[ws] # q
  <2>1. /\ runner = ws
        /\ hubWs[ws] = "open"
        /\ ~cut[ws]
        /\ toRunner'[ws] = Append(q, msg)
    BY <1>1, <1>4 DEF HubSends, Inv, WireInv, WireTypeOK
  <2>2. /\ Len(Append(q, msg)) = Len(q) + 1
        /\ \A i \in 1..Len(q) : Append(q, msg)[i] = q[i]
        /\ Append(q, msg)[Len(q) + 1] = msg
        /\ Append(q, msg) # << >>
    BY <1>1, AppendProperties
  <2>3. ASSUME NEW n \in {1, 2}, NoResyncFrom(ws, n) PROVE NoResyncFrom(ws, n)'
    <3> SUFFICES ASSUME NEW j \in n..Len(Append(q, msg))
                 PROVE  Append(q, msg)[j].type # "hub_runner_resync"
      BY <2>1 DEF NoResyncFrom
    <3>1. CASE j = Len(q) + 1
      BY <2>2, <3>1
    <3>2. CASE j # Len(q) + 1
      BY <1>2, <2>2, <2>3, <3>2 DEF NoResyncFrom
    <3> QED
      BY <3>1, <3>2
  <2>4. CASE ResyncAhead(ws)
    <3>1. 1 \in 1..Len(q)
      BY <1>1, <2>4, EmptySeq DEF ResyncAhead
    <3>2. toRunner'[ws][1] = q[1]
      BY <2>1, <2>2, <3>1
    <3>3. ResyncAhead(ws)'
      BY <2>1, <2>2, <2>3, <2>4, <3>2 DEF ResyncAhead, OnRecord
    <3> QED
      BY <3>3 DEF ReplayInv
  <2>5. CASE ResyncRead(ws)
    BY <2>3, <2>5 DEF ReplayInv, ResyncRead, OnRecord, Resolved, ResolveSdkSessionId
  <2> QED
    BY <2>1, <2>4, <2>5 DEF ReplayInv
<1> QED
  BY <1>3, <1>4

\* A client's message is sent behind the resync, or changes a row only.
LEMMA ClientStepKeepsReplay ==
  ASSUME Inv, ReplayInv, ClientStep, UNCHANGED <<runnerVars, replayed>>
  PROVE  ReplayInv'
<1>1. PICK s \in Session :
        \/ HandleStartSession(s)
        \/ HandleSendPrompt(s)
        \/ \E p \in PromptNo, r \in Run : HandleRespondToPrompt(s, p, r)
        \/ HandleArchiveSession(s)
  BY DEF ClientStep
<1>2. CASE HandleStartSession(s)
  <2>1. HubStartSession(s) \in HubToRunnerMsg
    BY DEF HubStartSession, HubToRunnerMsg
  <2>2. HubStartSession(s).type # "hub_runner_resync"
    BY DEF HubStartSession
  <2> QED
    BY <1>2, <2>1, <2>2, HubSendsKeepsReplay DEF HandleStartSession, runnerVars
<1>3. CASE HandleSendPrompt(s)
  <2>1. HubSendPrompt(s) \in HubToRunnerMsg
    BY DEF HubSendPrompt, HubToRunnerMsg
  <2>2. HubSendPrompt(s).type # "hub_runner_resync"
    BY DEF HubSendPrompt
  <2> QED
    BY <1>3, <2>1, <2>2, HubSendsKeepsReplay DEF HandleSendPrompt, HasRunner, runnerVars
<1>4. ASSUME NEW p \in PromptNo, NEW r \in Run, HandleRespondToPrompt(s, p, r)
      PROVE  ReplayInv'
  <2>1. HubRespondToPrompt(s, p, r) \in HubToRunnerMsg
    BY DEF HubRespondToPrompt, HubToRunnerMsg
  <2>2. HubRespondToPrompt(s, p, r).type # "hub_runner_resync"
    BY DEF HubRespondToPrompt
  <2> QED
    BY <1>4, <2>1, <2>2, HubSendsKeepsReplay
       DEF HandleRespondToPrompt, HasRunner, hubVars, rowVars, runnerVars
<1>5. CASE HandleArchiveSession(s)
  BY <1>5 DEF HandleArchiveSession, wireVars, runnerVars, ReplayInv, ResyncAhead, ResyncRead,
              NoResyncFrom, OnRecord, Resolved, ResolveSdkSessionId, Connecting
<1> QED
  BY <1>1, <1>2, <1>3, <1>4, <1>5

\* A new connection starts with the resync of what is on record now.
LEMMA HubStepKeepsReplay ==
  ASSUME Inv, ReplayInv, HubStep, UNCHANGED runnerVars
  PROVE  ReplayInv'
<1> USE DEF Inv, WireInv, WireTypeOK
<1>1. ASSUME NEW c \in Conn, HubAccepts(c) PROVE ReplayInv'
  <2>1. /\ ws' = c
        /\ toRunner'[c] = <<HubRunnerResync(Resumable)>>
        /\ replayed' = {s \in Session : Resumable[s] # NoSdk}
    BY <1>1 DEF HubAccepts, AcceptRunner
  <2>2. /\ toRunner'[c][1].type = "hub_runner_resync"
        /\ toRunner'[c][1].sessions = Resumable
        /\ Len(toRunner'[c]) = 1
        /\ toRunner'[c] # << >>
    BY <2>1 DEF HubRunnerResync
  <2>3. \A s \in OnRecord' : Resumable[s] # NoSdk
    BY <2>1 DEF OnRecord
  <2>4. ResyncAhead(c)'
    BY <2>2, <2>3 DEF ResyncAhead, NoResyncFrom, OnRecord
  <2> QED
    BY <2>1, <2>4 DEF ReplayInv
<1>2. ASSUME NEW c \in Conn, HubReceives(c), UNCHANGED replayed PROVE ReplayInv'
  <2>1. UNCHANGED <<ws, link, hubWs, cut, toRunner, archived>>
    BY <1>2 DEF HubReceives, ReceiveUserPrompt, ReceiveStatus, ReceiveDone, ReceiveError,
                HubHandles, rowVars
  <2> QED
    BY <1>2, <2>1 DEF runnerVars, ReplayInv, ResyncAhead, ResyncRead, NoResyncFrom, OnRecord,
                      Resolved, ResolveSdkSessionId, Connecting
<1>3. ASSUME NEW c \in Conn, HubWsClose(c), UNCHANGED replayed PROVE ReplayInv'
  BY <1>3 DEF HubWsClose, runnerVars, ReplayInv, ResyncAhead, ResyncRead, NoResyncFrom,
              OnRecord, Resolved, ResolveSdkSessionId, Connecting
<1> QED
  BY <1>1, <1>2, <1>3 DEF HubStep

\* A cut takes messages from the end of the channel, the resync last.
LEMMA CutConnKeepsReplay ==
  ASSUME Inv, ReplayInv, NEW c \in Conn, CutConn(c), UNCHANGED replayed
  PROVE  ReplayInv'
<1> SUFFICES ASSUME ws # NoConn PROVE ReplayInv'
  BY DEF CutConn, ReplayInv
<1> DEFINE q == toRunner[ws]
<1>1. /\ UNCHANGED <<sessions, sdkIds, runs, archived, ws, link, hubWs>>
      /\ ws \in Conn
      /\ q \in Seq(HubToRunnerMsg)
      /\ Len(q) \in Nat
  BY LenProperties DEF CutConn, runnerVars, hubVars, rowVars, Inv, WireInv, WireTypeOK
<1>2. CASE c # ws
  <2>1. toRunner'[ws] = q /\ cut'[ws] = cut[ws]
    BY <1>1, <1>2 DEF CutConn, Inv, WireInv, WireTypeOK
  <2> QED
    BY <1>1, <2>1 DEF ReplayInv, ResyncAhead, ResyncRead, NoResyncFrom, OnRecord, Resolved,
                      ResolveSdkSessionId, Connecting
<1>3. CASE c = ws
  <2>1. PICK n \in 0..Len(q) : toRunner'[ws] = SubSeq(q, 1, n)
    BY <1>1, <1>3 DEF CutConn, Inv, WireInv, WireTypeOK
  <2>2. cut'[ws]
    BY <1>1, <1>3 DEF CutConn, Inv, WireInv, WireTypeOK
  <2>3. \A i \in 1..n : q[i] \in HubToRunnerMsg
    BY <1>1, <2>1, ElementOfSeq
  <2>4. /\ Len(SubSeq(q, 1, n)) = n
        /\ \A i \in 1..n : SubSeq(q, 1, n)[i] = q[i]
    BY <1>1, <2>1, <2>3, SubSeqProperties
  <2>5. CASE n = 0
    BY <1>1, <2>1, <2>2, <2>5, SubSeqEmpty DEF ReplayInv
  <2>6. CASE n # 0
    <3>1. q # << >> /\ toRunner'[ws] # << >> /\ toRunner'[ws][1] = q[1]
      BY <1>1, <2>1, <2>4, <2>6
    <3>2. \A i \in {1, 2} : NoResyncFrom(ws, i) => NoResyncFrom(ws, i)'
      BY <1>1, <2>1, <2>4 DEF NoResyncFrom
    <3> QED
      BY <1>1, <3>1, <3>2 DEF ReplayInv, ResyncAhead, ResyncRead, OnRecord, Resolved,
                              ResolveSdkSessionId, Connecting
  <2> QED
    BY <2>5, <2>6
<1> QED
  BY <1>2, <1>3

\* After a restart everything waits for the next connection's resync.
LEMMA DisturbKeepsReplay ==
  ASSUME Inv, ReplayInv, Disturb, UNCHANGED replayed
  PROVE  ReplayInv'
<1>1. CASE ConnectFails \/ RestartRunner
  BY <1>1 DEF ConnectFails, RestartRunner, ReplayInv
<1>2. CASE PanicAccount /\ UNCHANGED runnerVars
  <2>1. UNCHANGED <<sessions, sdkIds, runs, archived, ws, link, cut, toRunner>>
    BY <1>2 DEF PanicAccount, runnerVars, hubVars, rowVars
  <2>2. hubWs[ws] = "none" => hubWs'[ws] = "none"
    BY <1>2 DEF PanicAccount, Inv, WireInv, WireTypeOK
  <2> QED
    BY <2>1, <2>2 DEF ReplayInv, ResyncAhead, ResyncRead, NoResyncFrom, OnRecord, Resolved,
                      ResolveSdkSessionId, Connecting
<1>3. CASE RestartHub /\ UNCHANGED runnerVars
  <2>1. UNCHANGED <<sessions, sdkIds, runs, archived, ws, link, toRunner>>
    BY <1>3 DEF RestartHub, runnerVars, rowVars
  <2>2. ws # NoConn => cut'[ws] /\ hubWs'[ws] = "none"
    BY <1>3 DEF RestartHub, Inv, WireInv, WireTypeOK
  <2> QED
    BY <2>1, <2>2 DEF ReplayInv, ResyncAhead, ResyncRead, NoResyncFrom, OnRecord, Resolved,
                      ResolveSdkSessionId, Connecting
<1>4. ASSUME NEW c \in Conn, CutConn(c) PROVE ReplayInv'
  BY <1>4, CutConnKeepsReplay
<1> QED
  BY <1>1, <1>2, <1>3, <1>4 DEF Disturb

-----------------------------------------------------------------------------
\* Before the first connection nothing was replayed.
LEMMA ReplayInvInit == Init => ReplayInv
BY DEF Init, WireInit, ReplayInv

\* Every step keeps the resync ahead of everything, or read.
LEMMA ReplayInvNext == Inv /\ ReplayInv /\ [Next]_vars => ReplayInv'
<1> SUFFICES ASSUME Inv, ReplayInv, [Next]_vars PROVE ReplayInv'
  OBVIOUS
<1>1. CASE RunnerActs
  BY <1>1, RunnerHandlesKeepsReplay, SdkMovesKeepsReplay, RunnerConnectsKeepsReplay
     DEF RunnerActs, hubVars, rowVars
<1>2. CASE ClientDoes(ClientStep)
  BY <1>2, ClientStepKeepsReplay DEF ClientDoes
<1>3. CASE HubDoes(HubStep)
  BY <1>3, HubStepKeepsReplay DEF HubDoes
<1>4. CASE Disturb /\ UNCHANGED <<commands, replayed>>
  BY <1>4, DisturbKeepsReplay
<1>5. CASE UNCHANGED vars
  BY <1>5 DEF vars, wireVars, runnerVars, hubVars, rowVars, historyVars, ReplayInv,
              ResyncAhead, ResyncRead, NoResyncFrom, OnRecord, Resolved,
              ResolveSdkSessionId, Connecting
<1> QED
  BY <1>1, <1>2, <1>3, <1>4, <1>5, NextActs DEF Inv

\* Only a prompt starts a run, and it is read behind the resync.
LEMMA HandlersStartResolved ==
  ASSUME Inv, ReplayInv, RunnerHandles, NEW s \in OnRecord, StartsFresh(s)
  PROVE  FALSE
<1>1. s \in Session
  BY DEF OnRecord, Inv, HistoryTypeOK
<1>2. PICK t \in Session : StartSession(t) \/ SendPrompt(t)
  BY DEF RunnerHandles, RejectCwd, ResolvePrompt, IgnoreResponse, HandleResync, runnerVars,
         StartsFresh
<1>3. PICK r \in Run \ DOMAIN runs :
        /\ runs' = [q \in DOMAIN runs \cup {r} |->
                      IF q = r THEN NewRun(t, ResolveSdkSessionId(t))
                      ELSE IF q = sessions[t] THEN Aborted(runs[q]) ELSE runs[q]]
        /\ sessions' = [sessions EXCEPT ![t] = r]
  BY <1>2 DEF StartSession, SendPrompt, RunSession
<1>4. t = s /\ sessions'[s] = r
  BY <1>1, <1>3 DEF StartsFresh, Inv, RunnerInv, RunnerTypeOK
<1>5. runs'[r].sdk = ResolveSdkSessionId(s)
  BY <1>3, <1>4 DEF NewRun
<1>6. PICK m : Delivered(m) /\ m.type # "hub_runner_resync"
  <2>1. HubStartSession(t).type # "hub_runner_resync"
    BY DEF HubStartSession
  <2>2. HubSendPrompt(t).type # "hub_runner_resync"
    BY DEF HubSendPrompt
  <2> QED
    BY <1>2, <2>1, <2>2 DEF StartSession, SendPrompt
<1>7. /\ link = "open"
      /\ ws \in Conn
      /\ toRunner[ws] # << >>
      /\ toRunner[ws][1].type # "hub_runner_resync"
  BY <1>6, DeliveredHead DEF Inv
<1>8. ResyncRead(ws)
  BY <1>7, NoConnFresh DEF ReplayInv, ResyncAhead, Connecting
<1> QED
  BY <1>4, <1>5, <1>8 DEF ResyncRead, Resolved, StartsFresh

\* No other step gives a session a run.
LEMMA StepsStartResolved ==
  ASSUME Inv, ReplayInv, [Next]_vars, NEW s \in OnRecord, StartsFresh(s)
  PROVE  FALSE
<1>1. s \in Session
  BY DEF OnRecord, Inv, HistoryTypeOK
<1>2. CASE RunnerActs
  <2>1. CASE \E r \in DOMAIN runs : SdkMoves(r)
    <3>1. PICK r \in DOMAIN runs : sessions' = sessions \/ sessions' = Leaves(r)
      BY <2>1 DEF SdkMoves, SdkStarts, SdkInit, CanUseTool, SdkResult, SdkEnd, SdkEndEarly,
                  SdkThrow, Finally
    <3>2. sessions'[s] \in {sessions[s], NoRun}
      BY <1>1, <3>1 DEF Leaves, Inv, RunnerInv, RunnerTypeOK
    <3> QED
      BY <3>2 DEF StartsFresh
  <2>2. CASE RunnerConnects
    <3>1. sessions' = sessions
      BY <2>2 DEF RunnerConnects, Connect, Open, ConnectFails, RunnerWsClose, runnerVars
    <3> QED
      BY <3>1 DEF StartsFresh
  <2> QED
    BY <1>2, <2>1, <2>2, HandlersStartResolved DEF RunnerActs
<1>3. CASE ~RunnerActs
  <2>1. sessions' = sessions \/ RestartRunner
    BY <1>3, NextActs DEF Inv, ClientDoes, HubDoes, Disturb, ConnectFails, CutConn, vars,
                          runnerVars
  <2>2. RestartRunner => sessions'[s] = NoRun
    BY <1>1 DEF RestartRunner, NoneRunning
  <2> QED
    BY <2>1, <2>2 DEF StartsFresh
<1> QED
  BY <1>2, <1>3

\* A prompt never starts a second conversation for a session that had one on
\* record when its runner connected, whatever crashed or broke before.
THEOREM ResumesOnRecordHolds == Spec => ResumesOnRecord
<1>1. Init => Inv /\ ReplayInv
  BY InvInit, ReplayInvInit
<1>2. Inv /\ ReplayInv /\ [Next]_vars => (Inv /\ ReplayInv)'
  BY InvNext, ReplayInvNext
<1>3. Inv /\ ReplayInv /\ [Next]_vars
        => [\A s \in replayed \ archived : ~StartsFresh(s)]_vars
  BY StepsStartResolved DEF OnRecord
<1> QED
  BY <1>1, <1>2, <1>3, PTL DEF Spec, ResumesOnRecord
=============================================================================
