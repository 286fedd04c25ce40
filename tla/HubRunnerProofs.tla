--------------------------- MODULE HubRunnerProofs ---------------------------
(***************************************************************************)
(* Theorems about HubRunner, for every set of sessions, runs, SDK ids and  *)
(* connections and every bound.                                            *)
(***************************************************************************)
EXTENDS HubRunner, FiniteSetTheorems, SequenceTheorems, TLAPS

\* abort() and rejectPendingPrompts go together.
AbortedHoldsNothing ==
  \A r \in DOMAIN runs : runs[r].aborted => runs[r].pending = {}

\* What every step keeps about the sessions map and the runs.
RunnerInv ==
  /\ RunnerTypeOK
  /\ NoOrphanRun
  /\ EntriesLive
  /\ AbortedHoldsNothing

-----------------------------------------------------------------------------
\* The actions of the runner, one by one.

\* resolveSdkSessionId returns an SDK id or nothing.
LEMMA ResolveType ==
  ASSUME RunnerInv, NEW s \in Session
  PROVE  ResolveSdkSessionId(s) \in MaybeSdk
<1>1. CASE sessions[s] = NoRun
  BY <1>1 DEF RunnerInv, RunnerTypeOK, ResolveSdkSessionId, ResumeMap
<1>2. CASE sessions[s] # NoRun
  <2>1. runs[sessions[s]] \in RunState
    BY <1>2 DEF RunnerInv, RunnerTypeOK, EntriesLive, Current, Live
  <2> QED
    BY <2>1 DEF RunnerInv, RunnerTypeOK, ResolveSdkSessionId, ResumeMap, RunState
<1> QED
  BY <1>1, <1>2

\* Superseding: the new run takes the entry, the old one is aborted with
\* nothing pending.
LEMMA RunSessionKeepsInv ==
  ASSUME RunnerInv, NEW s \in Session, NEW k \in MaybeSdk, RunSession(s, k)
  PROVE  RunnerInv'
<1> DEFINE old == sessions[s]
<1>1. PICK r \in Run \ DOMAIN runs :
        /\ runs' = [q \in DOMAIN runs \cup {r} |->
                      IF q = r THEN NewRun(s, k)
                      ELSE IF q = old THEN Aborted(runs[q]) ELSE runs[q]]
        /\ sessions' = [sessions EXCEPT ![s] = r]
        /\ sdkIds' = sdkIds
  BY DEF RunSession
<1>2. /\ DOMAIN runs' = DOMAIN runs \cup {r}
      /\ runs'[r] = NewRun(s, k)
      /\ \A q \in DOMAIN runs : runs'[q] = IF q = old THEN Aborted(runs[q]) ELSE runs[q]
  BY <1>1
<1>3. NewRun(s, k) \in RunState
  BY MaxPromptNat DEF NewRun, RunState, Phase, PromptNo
<1>4. \A q \in DOMAIN runs : Aborted(runs[q]) \in RunState
  BY DEF RunnerInv, RunnerTypeOK, RunState, Aborted
<1>5. RunnerTypeOK'
  <2>1. sessions' \in [Session -> Run \cup {NoRun}]
    BY <1>1 DEF RunnerInv, RunnerTypeOK
  <2>2. sdkIds' \in ResumeMap
    BY <1>1 DEF RunnerInv, RunnerTypeOK
  <2>3. DOMAIN runs' \subseteq Run
    BY <1>2 DEF RunnerInv, RunnerTypeOK
  <2>4. \A q \in DOMAIN runs' : runs'[q] \in RunState
    BY <1>2, <1>3, <1>4 DEF RunnerInv, RunnerTypeOK
  <2>5. runs' \in [DOMAIN runs' -> RunState]
    BY <1>1, <2>4
  <2> QED
    BY <2>1, <2>2, <2>3, <2>5 DEF RunnerTypeOK
<1>6. NoOrphanRun'
  <2> SUFFICES ASSUME NEW q \in DOMAIN runs', ~runs'[q].aborted
               PROVE  sessions'[runs'[q].session] = q
    BY DEF NoOrphanRun
  <2>1. CASE q = r
    BY <1>1, <1>2, <2>1 DEF NewRun, RunnerInv, RunnerTypeOK
  <2>2. CASE q # r /\ q = old
    BY <1>2, <2>2 DEF Aborted, RunnerInv, RunnerTypeOK, RunState
  <2>3. CASE q # r /\ q # old
    <3>1. q \in DOMAIN runs /\ runs'[q] = runs[q]
      BY <1>2, <2>3
    <3>2. sessions[runs[q].session] = q
      BY <3>1 DEF RunnerInv, NoOrphanRun
    <3>3. runs[q].session # s
      BY <3>2, <2>3
    <3> QED
      BY <1>1, <3>1, <3>2, <3>3 DEF RunnerInv, RunnerTypeOK
  <2> QED
    BY <2>1, <2>2, <2>3
<1>7. EntriesLive'
  <2> SUFFICES ASSUME NEW t \in Session, sessions'[t] # NoRun
               PROVE  /\ sessions'[t] \in DOMAIN runs'
                      /\ ~runs'[sessions'[t]].aborted
                      /\ runs'[sessions'[t]].session = t
    BY DEF EntriesLive, Current, Live
  <2>1. CASE t = s
    BY <1>1, <1>2, <2>1 DEF NewRun, Current, Live, RunnerInv, RunnerTypeOK
  <2>2. CASE t # s
    <3>1. sessions'[t] = sessions[t]
      BY <1>1, <2>2 DEF RunnerInv, RunnerTypeOK
    <3>2. Current(sessions[t]) /\ runs[sessions[t]].session = t
      BY <3>1 DEF RunnerInv, EntriesLive
    <3>3. sessions[t] # old
      <4>1. CASE old = NoRun
        BY <3>1, <4>1
      <4>2. CASE old # NoRun
        BY <4>2, <3>2, <2>2 DEF RunnerInv, EntriesLive
      <4> QED
        BY <4>1, <4>2
    <3>4. sessions[t] \in DOMAIN runs
      BY <3>2 DEF Current, Live
    <3> QED
      BY <1>2, <3>1, <3>2, <3>3, <3>4 DEF Current, Live
  <2> QED
    BY <2>1, <2>2
<1>8. AbortedHoldsNothing'
  <2> SUFFICES ASSUME NEW q \in DOMAIN runs', runs'[q].aborted
               PROVE  runs'[q].pending = {}
    BY DEF AbortedHoldsNothing
  <2>1. CASE q = r
    BY <1>2, <2>1 DEF NewRun
  <2>2. CASE q # r /\ q = old
    BY <1>2, <2>2 DEF Aborted, RunnerInv, RunnerTypeOK, RunState
  <2>3. CASE q # r /\ q # old
    BY <1>2, <2>3 DEF RunnerInv, AbortedHoldsNothing
  <2> QED
    BY <2>1, <2>2, <2>3
<1> QED
  BY <1>5, <1>6, <1>7, <1>8 DEF RunnerInv

\* A step that changes one run, but neither its session nor whether it is
\* aborted, and leaves an aborted run's pending prompts alone.
LEMMA UpdateKeepsInv ==
  ASSUME RunnerInv, NEW r \in DOMAIN runs, NEW new \in RunState,
         new.session = runs[r].session, new.aborted = runs[r].aborted,
         new.aborted => new.pending = {},
         runs' = [runs EXCEPT ![r] = new],
         sessions' = sessions, sdkIds' = sdkIds
  PROVE  RunnerInv'
<1>1. /\ DOMAIN runs' = DOMAIN runs
      /\ \A q \in DOMAIN runs : runs'[q] = IF q = r THEN new ELSE runs[q]
  OBVIOUS
<1>2. RunnerTypeOK'
  BY DEF RunnerInv, RunnerTypeOK
<1>3. NoOrphanRun'
  BY <1>1 DEF RunnerInv, NoOrphanRun
<1>4. EntriesLive'
  BY <1>1 DEF RunnerInv, EntriesLive, Current, Live
<1>5. AbortedHoldsNothing'
  BY <1>1 DEF RunnerInv, AbortedHoldsNothing
<1> QED
  BY <1>2, <1>3, <1>4, <1>5 DEF RunnerInv

\* The finally block: only the run's own entry goes.
LEMMA FinallyKeepsInv ==
  ASSUME RunnerInv, NEW r \in DOMAIN runs, Finally(r)
  PROVE  RunnerInv'
<1>1. /\ DOMAIN runs' = DOMAIN runs \ {r}
      /\ \A q \in DOMAIN runs' : runs'[q] = runs[q]
  BY DEF Finally
<1>2. runs[r] \in RunState
  BY DEF RunnerInv, RunnerTypeOK
<1>3. /\ sessions' \in [Session -> Run \cup {NoRun}]
      /\ \A s \in Session : sessions'[s] = IF sessions[s] = r /\ s = runs[r].session
                                           THEN NoRun ELSE sessions[s]
  BY <1>2 DEF Finally, Leaves, RunnerInv, RunnerTypeOK, RunState
<1>4. RunnerTypeOK'
  <2>1. sdkIds' \in ResumeMap
    BY <1>2 DEF Finally, RunnerInv, RunnerTypeOK, RunState, ResumeMap
  <2>2. runs' \in [DOMAIN runs' -> RunState]
    BY <1>1 DEF Finally, RunnerInv, RunnerTypeOK
  <2>3. DOMAIN runs' \subseteq Run
    BY <1>1 DEF RunnerInv, RunnerTypeOK
  <2> QED
    BY <1>3, <2>1, <2>2, <2>3 DEF RunnerTypeOK
<1>5. NoOrphanRun'
  <2> SUFFICES ASSUME NEW q \in DOMAIN runs', ~runs'[q].aborted
               PROVE  sessions'[runs'[q].session] = q
    BY DEF NoOrphanRun
  <2>1. q \in DOMAIN runs /\ q # r /\ runs'[q] = runs[q]
    BY <1>1
  <2>2. sessions[runs[q].session] = q /\ runs[q].session \in Session
    BY <2>1 DEF RunnerInv, NoOrphanRun, RunnerTypeOK, RunState
  <2> QED
    BY <1>3, <2>1, <2>2
<1>6. EntriesLive'
  <2> SUFFICES ASSUME NEW s \in Session, sessions'[s] # NoRun
               PROVE  /\ sessions'[s] \in DOMAIN runs'
                      /\ ~runs'[sessions'[s]].aborted
                      /\ runs'[sessions'[s]].session = s
    BY DEF EntriesLive, Current, Live
  <2>1. sessions'[s] = sessions[s]
    BY <1>3
  <2>2. Current(sessions[s]) /\ runs[sessions[s]].session = s
    BY <2>1 DEF RunnerInv, EntriesLive
  <2>3. sessions[s] # r
    BY <1>3, <2>2
  <2> QED
    BY <1>1, <2>1, <2>2, <2>3 DEF Current, Live
<1>7. AbortedHoldsNothing'
  BY <1>1 DEF RunnerInv, AbortedHoldsNothing
<1> QED
  BY <1>4, <1>5, <1>6, <1>7 DEF RunnerInv

\* Steps of others, and handlers that touch none of the runner's state.
LEMMA UnchangedKeepsInv ==
  ASSUME RunnerInv, UNCHANGED runnerVars
  PROVE  RunnerInv'
BY DEF runnerVars, RunnerInv, RunnerTypeOK, NoOrphanRun, EntriesLive, Current,
       Live, AbortedHoldsNothing

\* The handlers of the hub's messages.
LEMMA RunnerHandlesKeepsInv ==
  ASSUME RunnerInv, RunnerHandles
  PROVE  RunnerInv'
<1>1. ASSUME NEW s \in Session, StartSession(s) PROVE RunnerInv'
  <2>1. ResolveSdkSessionId(s) \in MaybeSdk
    BY ResolveType
  <2>2. RunSession(s, ResolveSdkSessionId(s))
    BY <1>1 DEF StartSession
  <2> QED
    BY <2>1, <2>2, RunSessionKeepsInv
<1>2. ASSUME NEW s \in Session, RejectCwd(s) PROVE RunnerInv'
  BY <1>2, UnchangedKeepsInv DEF RejectCwd
<1>3. ASSUME NEW s \in Session, SendPrompt(s) PROVE RunnerInv'
  <2>1. ResolveSdkSessionId(s) \in MaybeSdk
    BY ResolveType
  <2>2. RunSession(s, ResolveSdkSessionId(s))
    BY <1>3 DEF SendPrompt
  <2> QED
    BY <2>1, <2>2, RunSessionKeepsInv
<1>4. ASSUME NEW s \in Session, NEW p \in PromptNo, ResolvePrompt(s, p)
      PROVE  RunnerInv'
  <2> DEFINE r == sessions[s]
             new == [runs[r] EXCEPT !.pending = @ \ {p}]
  <2>1. r \in DOMAIN runs /\ ~runs[r].aborted
    BY <1>4 DEF ResolvePrompt, RunnerInv, EntriesLive, Current, Live
  <2>2. runs[r] \in RunState
    BY <2>1 DEF RunnerInv, RunnerTypeOK
  <2>3. new \in RunState /\ new.session = runs[r].session /\ new.aborted = FALSE
    BY <2>1, <2>2 DEF RunState
  <2>4. /\ runs' = [runs EXCEPT ![r] = new]
        /\ sessions' = sessions
        /\ sdkIds' = sdkIds
    BY <1>4 DEF ResolvePrompt
  <2>5. new.aborted = runs[r].aborted /\ (new.aborted => new.pending = {})
    BY <2>1, <2>3
  <2> HIDE DEF new, r
  <2> QED
    BY <2>1, <2>3, <2>4, <2>5, UpdateKeepsInv
<1>5. ASSUME NEW s \in Session, NEW p \in PromptNo, IgnoreResponse(s, p)
      PROVE  RunnerInv'
  BY <1>5, UnchangedKeepsInv DEF IgnoreResponse
<1>6. ASSUME HandleResync PROVE RunnerInv'
  BY <1>6 DEF HandleResync, RunnerInv, RunnerTypeOK, NoOrphanRun, EntriesLive,
              Current, Live, AbortedHoldsNothing
<1> QED
  BY <1>1, <1>2, <1>3, <1>4, <1>5, <1>6 DEF RunnerHandles

\* What the SDK may do in run r, whether it leads the row astray or not.
SdkMoves(r) ==
  \/ SdkStarts(r)
  \/ CanUseTool(r)
  \/ SdkResult(r)
  \/ SdkEnd(r)
  \/ SdkEndEarly(r)
  \/ SdkThrow(r)

\* What the SDK does to a run.
LEMMA SdkMovesKeepsInv ==
  ASSUME RunnerInv, NEW r \in DOMAIN runs, SdkMoves(r)
  PROVE  RunnerInv'
<1>1. runs[r] \in RunState
  BY DEF RunnerInv, RunnerTypeOK
<1>2. CASE SdkStarts(r)
  <2>1. PICK k \in SdkId : SdkInit(r, k)
    BY <1>2 DEF SdkStarts
  <2> DEFINE new == [runs[r] EXCEPT !.phase = "active", !.sdk = k]
  <2>2. /\ new \in RunState
        /\ new.session = runs[r].session
        /\ new.aborted = runs[r].aborted
        /\ new.pending = runs[r].pending
    BY <1>1 DEF RunState, Phase, MaybeSdk
  <2>3. new.aborted => new.pending = {}
    BY <2>2 DEF RunnerInv, AbortedHoldsNothing
  <2>4. /\ runs' = [runs EXCEPT ![r] = new]
        /\ sessions' = sessions
        /\ sdkIds' = sdkIds
    BY <2>1 DEF SdkInit
  <2> HIDE DEF new
  <2> QED
    BY <2>2, <2>3, <2>4, UpdateKeepsInv
<1>3. CASE CanUseTool(r)
  <2> DEFINE p == runs[r].asked + 1
             new == [runs[r] EXCEPT !.asked = p, !.pending = @ \cup {p}]
  <2>1. p \in PromptNo /\ ~runs[r].aborted
    BY <1>3 DEF CanUseTool
  <2>2. /\ runs' = [runs EXCEPT ![r] = new]
        /\ sessions' = sessions
        /\ sdkIds' = sdkIds
    BY <1>3 DEF CanUseTool
  <2>3. p \in 0..MaxPrompt
    BY <2>1, MaxPromptNat DEF PromptNo
  <2> HIDE DEF p
  <2>4. /\ new \in RunState
        /\ new.session = runs[r].session
        /\ new.aborted = runs[r].aborted
    BY <1>1, <2>1, <2>3 DEF RunState
  <2>5. new.aborted => new.pending = {}
    BY <2>1, <2>4
  <2> HIDE DEF new
  <2> QED
    BY <2>2, <2>4, <2>5, UpdateKeepsInv
<1>4. CASE SdkResult(r)
  <2> DEFINE new == [runs[r] EXCEPT !.phase = "resulted"]
  <2>1. /\ new \in RunState
        /\ new.session = runs[r].session
        /\ new.aborted = runs[r].aborted
        /\ new.pending = runs[r].pending
    BY <1>1 DEF RunState, Phase
  <2>2. new.aborted => new.pending = {}
    BY <2>1 DEF RunnerInv, AbortedHoldsNothing
  <2>3. /\ runs' = [runs EXCEPT ![r] = new]
        /\ sessions' = sessions
        /\ sdkIds' = sdkIds
    BY <1>4 DEF SdkResult
  <2> HIDE DEF new
  <2> QED
    BY <2>1, <2>2, <2>3, UpdateKeepsInv
<1>5. CASE SdkEnd(r)
  BY <1>5, FinallyKeepsInv DEF SdkEnd
<1>6. CASE SdkEndEarly(r)
  BY <1>6, FinallyKeepsInv DEF SdkEndEarly
<1>7. CASE SdkThrow(r)
  BY <1>7, FinallyKeepsInv DEF SdkThrow
<1> QED
  BY <1>2, <1>3, <1>4, <1>5, <1>6, <1>7 DEF SdkMoves

\* A new process starts with empty maps.
LEMMA FreshKeepsInv ==
  ASSUME sessions = NoneRunning, sdkIds = NoSdkKnown, runs = NoRuns
  PROVE  RunnerInv
<1>1. DOMAIN runs = {}
  BY DEF NoRuns
<1>2. RunnerTypeOK
  <2>1. runs \in [DOMAIN runs -> RunState]
    BY <1>1 DEF NoRuns
  <2> QED
    BY <1>1, <2>1 DEF RunnerTypeOK, NoneRunning, NoSdkKnown, ResumeMap, MaybeSdk
<1> QED
  BY <1>1, <1>2 DEF RunnerInv, NoOrphanRun, EntriesLive, AbortedHoldsNothing, NoneRunning

\* A step of the runner, and what it leaves alone.
RunnerActs ==
  /\ \/ RunnerHandles
     \/ \E r \in DOMAIN runs : SdkMoves(r)
     \/ RunnerConnects
  /\ UNCHANGED <<hubVars, faults, commands, replayed>>
  /\ \E S \in SUBSET Session : Remembers(S, {})

\* Both kinds of step of the runner are of this form.
LEMMA NextActs ==
  ASSUME RunnerInv, Next
  PROVE  \/ RunnerActs
         \/ ClientDoes(ClientStep)
         \/ HubDoes(HubStep)
         \/ Disturb /\ UNCHANGED <<commands, replayed>>
<1>1. CASE RunnerDoes(RunnerStep, {})
  BY <1>1 DEF RunnerDoes, RunnerStep, SdkSteps, SdkMoves, RunnerActs
<1>2. ASSUME NEW r \in DOMAIN runs, RunnerDoes(SdkStrays(r), {runs[r].session})
      PROVE  RunnerActs
  <2>1. {runs[r].session} \in SUBSET Session
    BY DEF RunnerInv, RunnerTypeOK, RunState
  <2> QED
    BY <1>2, <2>1 DEF RunnerDoes, SdkStrays, SdkMoves, RunnerActs
<1> QED
  BY <1>1, <1>2 DEF Next

\* Every step of the system keeps the sessions map and the runs in agreement.
LEMMA RunnerInvNext ==
  RunnerInv /\ [Next]_vars => RunnerInv'
<1> SUFFICES ASSUME RunnerInv, [Next]_vars
             PROVE  RunnerInv'
  OBVIOUS
<1>1. CASE RunnerActs
  <2>1. CASE RunnerHandles
    BY <2>1, RunnerHandlesKeepsInv
  <2>2. CASE \E r \in DOMAIN runs : SdkMoves(r)
    BY <2>2, SdkMovesKeepsInv
  <2>3. CASE RunnerConnects
    <3>1. UNCHANGED runnerVars
      BY <2>3 DEF RunnerConnects, Connect, Open, ConnectFails, RunnerWsClose
    <3> QED
      BY <3>1, UnchangedKeepsInv
  <2> QED
    BY <1>1, <2>1, <2>2, <2>3 DEF RunnerActs
<1>2. CASE ClientDoes(ClientStep)
  BY <1>2, UnchangedKeepsInv DEF ClientDoes
<1>3. CASE HubDoes(HubStep)
  BY <1>3, UnchangedKeepsInv DEF HubDoes
<1>4. CASE Disturb
  <2>1. CASE RestartRunner
    <3>1. /\ sessions' = NoneRunning
          /\ sdkIds' = NoSdkKnown
          /\ runs' = NoRuns
      BY <2>1 DEF RestartRunner
    <3>2. (sessions = NoneRunning /\ sdkIds = NoSdkKnown /\ runs = NoRuns => RunnerInv)'
      BY FreshKeepsInv, PTL
    <3> QED
      BY <3>1, <3>2 DEF NoneRunning, NoSdkKnown, NoRuns
  <2>2. CASE ~RestartRunner
    <3>1. UNCHANGED runnerVars
      BY <1>4, <2>2 DEF Disturb, ConnectFails, CutConn
    <3> QED
      BY <3>1, UnchangedKeepsInv
  <2> QED
    BY <2>1, <2>2
<1>5. CASE UNCHANGED vars
  BY <1>5, UnchangedKeepsInv DEF vars
<1> QED
  BY <1>1, <1>2, <1>3, <1>4, <1>5, NextActs

-----------------------------------------------------------------------------
\* The sessions map and the runs agree in every reachable state.
THEOREM RunnerInvariant == Spec => []RunnerInv
<1>1. Init => RunnerInv
  BY FreshKeepsInv DEF Init, RunnerInit
<1> QED
  BY <1>1, RunnerInvNext, PTL DEF Spec

\* A run that was not told to stop is the one the sessions map names, so that
\* it can be stopped and answered, and no session has two of them.
THEOREM NoOrphanRunHolds == Spec => []NoOrphanRun
<1>1. RunnerInv => NoOrphanRun
  BY DEF RunnerInv
<1> QED
  BY <1>1, RunnerInvariant, PTL

\* No superseded run waits for an answer that can no longer reach it.
THEOREM WaiterReachableHolds == Spec => []WaiterReachable
<1>1. RunnerInv => WaiterReachable
  BY DEF RunnerInv, NoOrphanRun, AbortedHoldsNothing, WaiterReachable
<1> QED
  BY <1>1, RunnerInvariant, PTL

-----------------------------------------------------------------------------
(***************************************************************************)
(* The hub's connections and rows: types, the registration of the runner,  *)
(* and the resync that precedes all else.                                  *)
(***************************************************************************)

\* The runner holds a socket exactly while it connects or is open.
HasSocket == ws # NoConn <=> link \in {"firstTry", "retrying", "open"}

\* The hub leaves only the registered connection open.
OpenIsRegistered == \A c \in Conn : hubWs[c] = "open" => runner = c

WireInv == WireTypeOK /\ HasSocket

HubInv == HubTypeOK /\ OpenIsRegistered /\ RegisteredWillClose

\* The history variables hold sessions and connections.
HistoryTypeOK ==
  /\ {replayed, astray, split} \subseteq SUBSET Session
  /\ dark \subseteq Conn

Inv ==
  /\ RunnerInv
  /\ WireInv
  /\ HubInv
  /\ faults \in 0..MaxFaults
  /\ commands \in 0..MaxCommands
  /\ HistoryTypeOK

-----------------------------------------------------------------------------
\* What a step leaves in the history variables are sessions and connections.
LEMMA RemembersType ==
  ASSUME HistoryTypeOK, NEW S \in SUBSET Session, NEW C \in SUBSET Conn,
         Remembers(S, C)
  PROVE  astray' \subseteq Session /\ split' \subseteq Session /\ dark' \subseteq Conn
BY DEF HistoryTypeOK, Remembers

-----------------------------------------------------------------------------
\* What the channel operators return.

\* sendToHub appends to the channel of an open socket, or does nothing.
LEMMA RunnerSendsType ==
  ASSUME WireInv, NEW msgs \in Seq(RunnerToHubMsg), RunnerSends(msgs)
  PROVE  toHub' \in [Conn -> Seq(RunnerToHubMsg)]
<1>1. CASE link = "open" /\ ~cut[ws]
  <2>1. ws \in Conn
    BY <1>1 DEF WireInv, WireTypeOK, HasSocket
  <2>2. toHub[ws] \o msgs \in Seq(RunnerToHubMsg)
    BY <2>1, ConcatProperties DEF WireInv, WireTypeOK
  <2> QED
    BY <1>1, <2>1, <2>2 DEF RunnerSends, WireInv, WireTypeOK
<1>2. CASE ~(link = "open" /\ ~cut[ws])
  BY <1>2 DEF RunnerSends, WireInv, WireTypeOK
<1> QED
  BY <1>1, <1>2

\* A delivered message leaves the runner's channel.
LEMMA RunnerConsumesType ==
  ASSUME WireInv, NEW msg, Delivered(msg), RunnerConsumes
  PROVE  toRunner' \in [Conn -> Seq(HubToRunnerMsg)]
<1>1. ws \in Conn /\ toRunner[ws] # << >>
  BY DEF WireInv, WireTypeOK, HasSocket, Delivered
<1>2. Tail(toRunner[ws]) \in Seq(HubToRunnerMsg)
  BY <1>1, HeadTailProperties DEF WireInv, WireTypeOK
<1> QED
  BY <1>1, <1>2 DEF RunnerConsumes, WireInv, WireTypeOK

\* sendToRunner appends to the channel of an open connection, or does nothing.
LEMMA HubSendsType ==
  ASSUME WireInv, NEW c \in Conn, NEW msg \in HubToRunnerMsg, HubSends(c, msg)
  PROVE  toRunner' \in [Conn -> Seq(HubToRunnerMsg)]
<1>1. Append(toRunner[c], msg) \in Seq(HubToRunnerMsg)
  BY AppendProperties DEF WireInv, WireTypeOK
<1> QED
  BY <1>1 DEF HubSends, WireInv, WireTypeOK

\* A received message leaves the hub's channel.
LEMMA HubConsumesType ==
  ASSUME WireInv, NEW c \in Conn, toHub[c] # << >>, HubConsumes(c)
  PROVE  toHub' \in [Conn -> Seq(RunnerToHubMsg)]
<1>1. Tail(toHub[c]) \in Seq(RunnerToHubMsg)
  BY HeadTailProperties DEF WireInv, WireTypeOK
<1> QED
  BY <1>1 DEF HubConsumes, WireInv, WireTypeOK

\* What is left of a channel is a channel.
LEMMA PrefixType ==
  ASSUME NEW S, NEW q \in Seq(S), NEW n \in 0..Len(q)
  PROVE  SubSeq(q, 1, n) \in Seq(S)
<1>1. \A i \in 1..n : q[i] \in S
  BY ElementOfSeq, LenProperties
<1> QED
  BY <1>1, SubSeqProperties, LenProperties

\* The messages of the runner.
LEMMA StatusMsg ==
  ASSUME NEW s \in Session, NEW st \in Status
  PROVE  SessionStatus(s, st) \in RunnerToHubMsg
BY DEF SessionStatus, RunnerToHubMsg

\* Superseding a run rejects finitely many prompts.
LEMMA RunSessionMsgs ==
  ASSUME NEW s \in Session, NEW n \in Nat
  PROVE  <<SessionStatus(s, "running")>> \o Resumptions(s, n) \in Seq(RunnerToHubMsg)
<1>1. SessionStatus(s, "running") \in RunnerToHubMsg
  BY StatusMsg DEF Status
<1>2. <<SessionStatus(s, "running")>> \in Seq(RunnerToHubMsg)
  BY <1>1
<1>3. Resumptions(s, n) \in Seq(RunnerToHubMsg)
  BY <1>1, SeqDef DEF Resumptions
<1> QED
  BY <1>2, <1>3, ConcatProperties

\* A run has finitely many pending prompts.
LEMMA PendingFinite ==
  ASSUME RunnerInv, NEW r \in DOMAIN runs
  PROVE  Cardinality(runs[r].pending) \in Nat
<1>1. runs[r].pending \subseteq PromptNo
  BY DEF RunnerInv, RunnerTypeOK, RunState
<1>2. IsFiniteSet(PromptNo)
  BY FS_Interval, MaxPromptNat DEF PromptNo
<1> QED
  BY <1>1, <1>2, FS_Subset, FS_CardinalityType

-----------------------------------------------------------------------------
\* The steps of the runner.

\* The handlers of the hub's messages change no connection, only what is in
\* flight on the runner's own.
LEMMA RunnerHandlesKeepsWire ==
  ASSUME Inv, RunnerHandles
  PROVE  WireInv' /\ UNCHANGED <<ws, link, hubWs, cut>>
<1> DEFINE Good == /\ toHub' \in [Conn -> Seq(RunnerToHubMsg)]
                   /\ toRunner' \in [Conn -> Seq(HubToRunnerMsg)]
                   /\ UNCHANGED <<ws, link, hubWs, cut>>
<1> USE DEF Inv
<1>1. ASSUME NEW s \in Session, NEW k, RunSession(s, k)
      PROVE  toHub' \in [Conn -> Seq(RunnerToHubMsg)]
  <2> DEFINE old == sessions[s]
             rejected == IF old = NoRun THEN 0 ELSE Cardinality(runs[old].pending)
             msgs == <<SessionStatus(s, "running")>> \o Resumptions(s, rejected)
  <2>1. rejected \in Nat
    BY PendingFinite DEF RunnerInv, EntriesLive, Current, Live
  <2>2. RunnerSends(msgs)
    BY <1>1 DEF RunSession
  <2>3. msgs \in Seq(RunnerToHubMsg)
    <3> HIDE DEF rejected
    <3> QED
      BY <2>1, RunSessionMsgs
  <2> HIDE DEF msgs
  <2> QED
    BY <2>2, <2>3, RunnerSendsType
<1>2. ASSUME NEW s \in Session, StartSession(s) PROVE Good
  BY <1>1, <1>2, RunnerConsumesType DEF StartSession
<1>3. ASSUME NEW s \in Session, RejectCwd(s) PROVE Good
  <2>1. <<SessionError(s)>> \in Seq(RunnerToHubMsg)
    BY DEF SessionError, RunnerToHubMsg
  <2> QED
    BY <1>3, <2>1, RunnerSendsType, RunnerConsumesType DEF RejectCwd
<1>4. ASSUME NEW s \in Session, SendPrompt(s) PROVE Good
  BY <1>1, <1>4, RunnerConsumesType DEF SendPrompt
<1>5. ASSUME NEW s \in Session, NEW p \in PromptNo, ResolvePrompt(s, p) PROVE Good
  <2>1. <<SessionStatus(s, "running")>> \in Seq(RunnerToHubMsg)
    BY StatusMsg DEF Status
  <2> QED
    BY <1>5, <2>1, RunnerSendsType, RunnerConsumesType DEF ResolvePrompt
<1>6. ASSUME NEW s \in Session, NEW p \in PromptNo, IgnoreResponse(s, p) PROVE Good
  BY <1>6, RunnerConsumesType DEF IgnoreResponse, WireInv, WireTypeOK
<1>7. ASSUME HandleResync PROVE Good
  BY <1>7, RunnerConsumesType DEF HandleResync, WireInv, WireTypeOK
<1>8. Good
  BY <1>2, <1>3, <1>4, <1>5, <1>6, <1>7 DEF RunnerHandles
<1> QED
  BY <1>8 DEF WireInv, WireTypeOK, HasSocket

\* What the SDK does is at most a message to the hub.
LEMMA SdkMovesKeepsWire ==
  ASSUME Inv, NEW r \in DOMAIN runs, SdkMoves(r)
  PROVE  WireInv' /\ UNCHANGED <<ws, link, hubWs, cut>>
<1> DEFINE Good == /\ toHub' \in [Conn -> Seq(RunnerToHubMsg)]
                   /\ UNCHANGED <<toRunner, ws, link, hubWs, cut>>
<1> USE DEF Inv
<1>1. r \in Run /\ runs[r].session \in Session /\ runs[r].sdk \in MaybeSdk
  BY DEF RunnerInv, RunnerTypeOK, RunState
<1>2. ASSUME SdkStarts(r) PROVE Good
  BY <1>2 DEF SdkStarts, SdkInit, wireVars, WireInv, WireTypeOK
<1>3. ASSUME CanUseTool(r) PROVE Good
  <2> DEFINE p == runs[r].asked + 1
             msgs == <<UserPrompt(runs[r].session, p, r),
                       SessionStatus(runs[r].session, "waiting_for_input")>>
  <2>1. p \in PromptNo /\ RunnerSends(msgs)
    BY <1>3 DEF CanUseTool
  <2>2. UserPrompt(runs[r].session, p, r) \in RunnerToHubMsg
    BY <1>1, <2>1 DEF UserPrompt, RunnerToHubMsg
  <2>3. SessionStatus(runs[r].session, "waiting_for_input") \in RunnerToHubMsg
    BY <1>1, StatusMsg DEF Status
  <2>4. msgs \in Seq(RunnerToHubMsg)
    BY <2>2, <2>3
  <2> HIDE DEF msgs
  <2> QED
    BY <1>3, <2>1, <2>4, RunnerSendsType DEF CanUseTool
<1>4. ASSUME SdkResult(r) PROVE Good
  <2>1. <<SessionDone(runs[r].session, runs[r].sdk)>> \in Seq(RunnerToHubMsg)
    BY <1>1 DEF SessionDone, RunnerToHubMsg
  <2> QED
    BY <1>4, <2>1, RunnerSendsType DEF SdkResult
<1>5. ASSUME SdkEnd(r) \/ SdkEndEarly(r) PROVE Good
  BY <1>5 DEF SdkEnd, SdkEndEarly, wireVars, WireInv, WireTypeOK
<1>6. ASSUME SdkThrow(r) PROVE Good
  <2>1. <<SessionError(runs[r].session)>> \in Seq(RunnerToHubMsg)
    BY <1>1 DEF SessionError, RunnerToHubMsg
  <2> QED
    BY <1>6, <2>1, RunnerSendsType DEF SdkThrow
<1>7. Good
  BY <1>2, <1>3, <1>4, <1>5, <1>6 DEF SdkMoves
<1> QED
  BY <1>7 DEF WireInv, WireTypeOK, HasSocket

\* Connecting and closing at the runner's end, one case per event.
LEMMA RunnerConnectsKeepsWire ==
  ASSUME WireInv, RunnerConnects
  PROVE  WireInv' /\ UNCHANGED hubWs
<1> USE NoConnFresh DEF WireInv, WireTypeOK, HasSocket, Link
<1>1. ASSUME NEW c \in Conn, Connect(c) PROVE WireInv' /\ UNCHANGED hubWs
  <2>1. << >> \in Seq(RunnerToHubMsg) /\ << >> \in Seq(HubToRunnerMsg)
    BY EmptySeq
  <2> QED
    BY <1>1, <2>1 DEF Connect
<1>2. CASE Open
  BY <1>2 DEF Open, Connecting
<1>3. CASE Connecting /\ cut[ws] /\ ConnectFails
  <2>1. << >> \in Seq(HubToRunnerMsg)
    BY EmptySeq
  <2> QED
    BY <1>3, <2>1 DEF ConnectFails, Connecting
<1>4. CASE RunnerWsClose
  BY <1>4 DEF RunnerWsClose
<1> QED
  BY <1>1, <1>2, <1>3, <1>4 DEF RunnerConnects

\* The runner's steps leave what the hub keeps alone.
LEMMA RunnerStepKeepsInv ==
  ASSUME Inv, RunnerInv', RunnerActs
  PROVE  Inv'
<1>1. WireInv' /\ UNCHANGED hubWs
  BY RunnerHandlesKeepsWire, SdkMovesKeepsWire, RunnerConnectsKeepsWire
     DEF RunnerActs, Inv
<1>2. HubInv'
  BY <1>1 DEF RunnerActs, hubVars, rowVars, Inv, HubInv, HubTypeOK, OpenIsRegistered,
              RegisteredWillClose
<1>3. HistoryTypeOK'
  <2>1. UNCHANGED replayed
    BY DEF RunnerActs
  <2> QED
    BY <2>1, RemembersType DEF RunnerActs, Inv, HistoryTypeOK
<1> QED
  BY <1>1, <1>2, <1>3 DEF Inv, RunnerActs

-----------------------------------------------------------------------------
\* The steps of the clients and of the hub.

\* The rows answer with a resume map.
LEMMA ResumableType ==
  ASSUME HubTypeOK
  PROVE  Resumable \in ResumeMap
BY DEF HubTypeOK, Resumable, ResumeMap, MaybeSdk

\* An UPDATE of a row writes one of the statuses.
LEMMA UpdateStatusType ==
  ASSUME HubTypeOK, NEW s \in Session, NEW st \in Status, UpdateStatus(s, st)
  PROVE  status' \in [Session -> Status \cup {"absent"}]
BY DEF HubTypeOK, UpdateStatus

\* What the hub accepts from a client, one case per message.
LEMMA ClientStepKeepsInv ==
  ASSUME Inv, RunnerInv', ClientDoes(ClientStep)
  PROVE  Inv'
<1> DEFINE Good == /\ toRunner' \in [Conn -> Seq(HubToRunnerMsg)]
                   /\ status' \in [Session -> Status \cup {"absent"}]
                   /\ archived' \subseteq Session
                   /\ UNCHANGED <<sdkOf, runner, shown, ws, link, hubWs, cut, toHub>>
<1>1. PICK s \in Session :
        \/ HandleStartSession(s)
        \/ HandleSendPrompt(s)
        \/ \E p \in PromptNo, r \in Run : HandleRespondToPrompt(s, p, r)
        \/ HandleArchiveSession(s)
  BY DEF ClientDoes, ClientStep
<1>2. ASSUME HandleStartSession(s) PROVE Good
  <2>1. HubStartSession(s) \in HubToRunnerMsg
    BY DEF HubStartSession, HubToRunnerMsg
  <2> QED
    BY <1>2, <2>1, HubSendsType DEF HandleStartSession, Inv, HubInv, HubTypeOK, Status
<1>3. ASSUME HandleSendPrompt(s) PROVE Good
  <2>1. HubSendPrompt(s) \in HubToRunnerMsg
    BY DEF HubSendPrompt, HubToRunnerMsg
  <2>2. UpdateStatus(s, "running") /\ HubSends(runner, HubSendPrompt(s)) /\ runner \in Conn
    BY <1>3 DEF HandleSendPrompt, HasRunner, Inv, HubInv, HubTypeOK
  <2>3. status' \in [Session -> Status \cup {"absent"}]
    BY <2>2, UpdateStatusType DEF Inv, HubInv, Status
  <2> QED
    BY <1>3, <2>1, <2>2, <2>3, HubSendsType DEF HandleSendPrompt, Inv, HubInv, HubTypeOK
<1>4. ASSUME NEW p \in PromptNo, NEW r \in Run, HandleRespondToPrompt(s, p, r)
      PROVE  Good
  <2>1. HubRespondToPrompt(s, p, r) \in HubToRunnerMsg
    BY DEF HubRespondToPrompt, HubToRunnerMsg
  <2> QED
    BY <1>4, <2>1, HubSendsType
       DEF HandleRespondToPrompt, HasRunner, hubVars, rowVars, Inv, HubInv, HubTypeOK
<1>5. ASSUME HandleArchiveSession(s) PROVE Good
  BY <1>5 DEF HandleArchiveSession, wireVars, Inv, HubInv, HubTypeOK, WireInv, WireTypeOK
<1>6. Good
  BY <1>1, <1>2, <1>3, <1>4, <1>5
<1>7. WireInv'
  BY <1>6 DEF Inv, WireInv, WireTypeOK, HasSocket
<1>8. HubInv'
  BY <1>6 DEF Inv, HubInv, HubTypeOK, OpenIsRegistered, RegisteredWillClose
<1>9. commands' \in 0..MaxCommands
  BY MaxCommandsNat DEF ClientDoes, ClientStep, Inv
<1>10. HistoryTypeOK'
  <2>1. UNCHANGED replayed
    BY DEF ClientDoes
  <2> QED
    BY <2>1, RemembersType DEF ClientDoes, Inv, HistoryTypeOK
<1> QED
  BY <1>7, <1>8, <1>9, <1>10 DEF Inv, ClientDoes

\* A message of the runner changes rows and leaves the connections alone.
LEMMA HubReceivesKeepsInv ==
  ASSUME Inv, NEW c \in Conn, HubReceives(c)
  PROVE  WireInv' /\ HubInv'
<1> DEFINE Good == /\ status' \in [Session -> Status \cup {"absent"}]
                   /\ sdkOf' \in ResumeMap
                   /\ shown' \in [Session -> SUBSET (PromptNo \X Run)]
                   /\ toHub[c] # << >>
                   /\ HubHandles(c)
                   /\ UNCHANGED <<archived, runner>>
<1> USE DEF Inv, HubInv
<1>1. ASSUME ReceiveUserPrompt(c) PROVE Good
  BY <1>1 DEF ReceiveUserPrompt, Arrives, rowVars, HubTypeOK
<1>2. ASSUME ReceiveStatus(c) PROVE Good
  BY <1>2, UpdateStatusType DEF ReceiveStatus, Arrives, HubTypeOK
<1>3. ASSUME ReceiveDone(c) PROVE Good
  BY <1>3, UpdateStatusType DEF ReceiveDone, Arrives, HubTypeOK, ResumeMap, Status
<1>4. ASSUME ReceiveError(c) PROVE Good
  BY <1>4, UpdateStatusType DEF ReceiveError, Arrives, HubTypeOK, Status
<1>5. Good
  BY <1>1, <1>2, <1>3, <1>4 DEF HubReceives
<1>6. toHub' \in [Conn -> Seq(RunnerToHubMsg)]
  BY <1>5, HubConsumesType DEF HubHandles
<1>7. WireInv'
  BY <1>5, <1>6 DEF HubHandles, WireInv, WireTypeOK, HasSocket
<1>8. HubInv'
  BY <1>5 DEF HubHandles, HubTypeOK, OpenIsRegistered, RegisteredWillClose
<1> QED
  BY <1>7, <1>8

\* Registering a connection closes the one it replaces.
LEMMA AcceptRunnerKeepsInv ==
  ASSUME Inv, NEW c \in Conn, AcceptRunner(c)
  PROVE  WireInv' /\ HubInv'
<1> USE DEF Inv, HubInv
<1>1. \A d \in Conn : hubWs'[d] = IF d = c THEN "open"
                                  ELSE IF d = runner THEN "closing" ELSE hubWs[d]
  BY DEF AcceptRunner
<1>2. hubWs' \in [Conn -> HubWs]
  <2>1. \A d \in Conn : hubWs'[d] \in HubWs
    BY <1>1 DEF WireInv, WireTypeOK, HubWs
  <2> QED
    BY <2>1 DEF AcceptRunner
<1>3. <<HubRunnerResync(Resumable)>> \in Seq(HubToRunnerMsg)
  BY ResumableType DEF HubRunnerResync, HubToRunnerMsg
<1>4. WireInv'
  BY <1>2, <1>3 DEF AcceptRunner, WireInv, WireTypeOK, HasSocket
<1>5. HubTypeOK'
  BY DEF AcceptRunner, HubTypeOK, rowVars
<1>6. OpenIsRegistered' /\ RegisteredWillClose'
  BY <1>1 DEF AcceptRunner, OpenIsRegistered, RegisteredWillClose
<1> QED
  BY <1>4, <1>5, <1>6

\* Only the registered connection's close takes the machine offline.
LEMMA HubWsCloseKeepsInv ==
  ASSUME Inv, NEW c \in Conn, HubWsClose(c)
  PROVE  WireInv' /\ HubInv'
<1> USE DEF Inv, HubInv
<1>1. WireInv'
  BY DEF HubWsClose, WireInv, WireTypeOK, HasSocket, HubWs
<1>2. HubTypeOK'
  BY DEF HubWsClose, IsRegistered, MarkIdle, HubTypeOK, Status
<1>3. OpenIsRegistered' /\ RegisteredWillClose'
  BY NoConnFresh DEF HubWsClose, IsRegistered, WireInv, WireTypeOK, HubWs,
                     OpenIsRegistered, RegisteredWillClose
<1> QED
  BY <1>1, <1>2, <1>3

\* The hub's own events: a message, a new connection, a close.
LEMMA HubStepKeepsInv ==
  ASSUME Inv, RunnerInv', HubDoes(HubStep)
  PROVE  Inv'
<1>1. WireInv' /\ HubInv'
  BY HubReceivesKeepsInv, AcceptRunnerKeepsInv, HubWsCloseKeepsInv
     DEF HubDoes, HubStep, HubAccepts
<1>2. HistoryTypeOK'
  <2>1. replayed' \subseteq Session
    BY DEF HubDoes, HubStep, HubAccepts, Inv, HistoryTypeOK
  <2> QED
    BY <2>1, RemembersType DEF HubDoes, Inv, HistoryTypeOK
<1> QED
  BY <1>1, <1>2 DEF HubDoes, Inv

-----------------------------------------------------------------------------
\* The disturbances.

\* Failed connects, restarts, panics and cuts.
LEMMA DisturbKeepsInv ==
  ASSUME Inv, RunnerInv', Disturb, UNCHANGED <<commands, replayed>>
  PROVE  Inv'
<1> USE DEF Inv, HubInv
<1>1. ASSUME Connecting, ConnectFails, UNCHANGED hubVars PROVE WireInv' /\ HubInv'
  <2>1. << >> \in Seq(HubToRunnerMsg)
    BY EmptySeq
  <2>2. WireInv'
    BY <1>1, <2>1, NoConnFresh
       DEF ConnectFails, Connecting, WireInv, WireTypeOK, HasSocket, Link
  <2> QED
    BY <1>1, <2>2 DEF ConnectFails, hubVars, rowVars, HubTypeOK, OpenIsRegistered,
                      RegisteredWillClose
<1>2. ASSUME RestartRunner, UNCHANGED hubVars PROVE WireInv' /\ HubInv'
  <2>1. << >> \in Seq(HubToRunnerMsg)
    BY EmptySeq
  <2>2. ASSUME ws # NoConn, NEW n \in 0..Len(toHub[ws])
        PROVE  SubSeq(toHub[ws], 1, n) \in Seq(RunnerToHubMsg)
    BY <2>2, PrefixType DEF WireInv, WireTypeOK
  <2>3. /\ toHub' \in [Conn -> Seq(RunnerToHubMsg)]
        /\ toRunner' \in [Conn -> Seq(HubToRunnerMsg)]
        /\ cut' \in [Conn -> BOOLEAN]
    <3>1. CASE ws = NoConn
      BY <1>2, <3>1 DEF RestartRunner, WireInv, WireTypeOK
    <3>2. CASE ws # NoConn
      <4>1. PICK n \in 0..Len(toHub[ws]) :
              toHub' = [toHub EXCEPT ![ws] = SubSeq(toHub[ws], 1, n)]
        BY <1>2, <3>2 DEF RestartRunner
      <4>2. SubSeq(toHub[ws], 1, n) \in Seq(RunnerToHubMsg)
        BY <2>2, <3>2
      <4> QED
        BY <1>2, <2>1, <3>2, <4>1, <4>2 DEF RestartRunner, WireInv, WireTypeOK
    <3> QED
      BY <3>1, <3>2
  <2>4. WireInv'
    BY <1>2, <2>3 DEF RestartRunner, WireInv, WireTypeOK, HasSocket, Link
  <2> QED
    BY <1>2, <2>4 DEF RestartRunner, hubVars, rowVars, HubTypeOK, OpenIsRegistered,
                      RegisteredWillClose
<1>3. ASSUME PanicAccount PROVE WireInv' /\ HubInv'
  BY <1>3 DEF PanicAccount, hubVars, rowVars, HubTypeOK, OpenIsRegistered,
              RegisteredWillClose, WireInv, WireTypeOK, HasSocket, HubWs
<1>4. ASSUME RestartHub PROVE WireInv' /\ HubInv'
  <2>1. << >> \in Seq(RunnerToHubMsg)
    BY EmptySeq
  <2> QED
    BY <1>4, <2>1 DEF RestartHub, rowVars, HubTypeOK, OpenIsRegistered,
                      RegisteredWillClose, WireInv, WireTypeOK, HasSocket, HubWs
<1>5. ASSUME NEW c \in Conn, CutConn(c) PROVE WireInv' /\ HubInv'
  <2>1. \A n \in 0..Len(toHub[c]) : SubSeq(toHub[c], 1, n) \in Seq(RunnerToHubMsg)
    BY PrefixType DEF WireInv, WireTypeOK
  <2>2. \A n \in 0..Len(toRunner[c]) : SubSeq(toRunner[c], 1, n) \in Seq(HubToRunnerMsg)
    BY PrefixType DEF WireInv, WireTypeOK
  <2>3. WireInv'
    BY <1>5, <2>1, <2>2 DEF CutConn, WireInv, WireTypeOK, HasSocket
  <2> QED
    BY <1>5, <2>3 DEF CutConn, hubVars, rowVars, HubTypeOK, OpenIsRegistered,
                      RegisteredWillClose
<1>6. faults' \in 0..MaxFaults
  BY MaxFaultsNat DEF Disturb
<1>7. WireInv' /\ HubInv'
  BY <1>1, <1>2, <1>3, <1>4, <1>5 DEF Disturb
<1>8. HistoryTypeOK'
  <2>1. Remembers({}, {}) \/ \E c \in Conn : Remembers({}, {c})
    BY DEF Disturb
  <2> QED
    BY <2>1, RemembersType DEF HistoryTypeOK
<1> QED
  BY <1>6, <1>7, <1>8

-----------------------------------------------------------------------------
\* Nothing is connected at first.
LEMMA InvInit == Init => Inv
<1> SUFFICES ASSUME Init PROVE Inv
  OBVIOUS
<1>1. RunnerInv
  BY FreshKeepsInv DEF Init, RunnerInit
<1>2. WireInv
  <2>1. << >> \in Seq(RunnerToHubMsg) /\ << >> \in Seq(HubToRunnerMsg)
    BY EmptySeq
  <2> QED
    BY <2>1 DEF Init, WireInit, WireInv, WireTypeOK, HasSocket, Link, HubWs
<1>3. HubInv
  BY DEF Init, WireInit, HubInit, HubInv, HubTypeOK, OpenIsRegistered,
         RegisteredWillClose, ResumeMap, MaybeSdk
<1> QED
  BY <1>1, <1>2, <1>3, MaxFaultsNat, MaxCommandsNat DEF Init, Inv, HistoryTypeOK

\* Every step keeps types, connections and registration consistent.
LEMMA InvNext == Inv /\ [Next]_vars => Inv'
<1> SUFFICES ASSUME Inv, [Next]_vars PROVE Inv'
  OBVIOUS
<1>1. RunnerInv'
  BY RunnerInvNext DEF Inv
<1>2. CASE UNCHANGED vars
  BY <1>1, <1>2 DEF vars, wireVars, hubVars, rowVars, historyVars, HistoryTypeOK, Inv,
                    WireInv, WireTypeOK, HasSocket,
                    HubInv, HubTypeOK, OpenIsRegistered, RegisteredWillClose
<1>3. CASE Next
  BY <1>1, <1>3, NextActs, RunnerStepKeepsInv, ClientStepKeepsInv, HubStepKeepsInv,
     DisturbKeepsInv DEF Inv
<1> QED
  BY <1>2, <1>3

\* The inductive invariant holds in every reachable state.
THEOREM Invariant == Spec => []Inv
BY InvInit, InvNext, PTL DEF Spec

\* Every variable keeps its type: no handler writes a status, a message or a
\* map entry of another kind.
THEOREM TypeCorrect == Spec => []TypeOK
<1>1. Inv => TypeOK
  BY DEF Inv, WireInv, RunnerInv, HubInv, HistoryTypeOK, TypeOK
<1> QED
  BY <1>1, Invariant, PTL

\* While the runner's connection is up at both ends, it is the one that the
\* hub sends the machine's messages to.
THEOREM RoutedToListenerHolds == Spec => []RoutedToListener
<1>1. Inv => RoutedToListener
  BY DEF Inv, WireInv, WireTypeOK, HasSocket, HubInv, OpenIsRegistered, RoutedToListener
<1> QED
  BY <1>1, Invariant, PTL

\* The entry of a machine always names a connection whose close event is still
\* to come, so that it cannot stay for ever.
THEOREM RegisteredWillCloseHolds == Spec => []RegisteredWillClose
<1>1. Inv => RegisteredWillClose
  BY DEF Inv, HubInv
<1> QED
  BY <1>1, Invariant, PTL
=============================================================================
