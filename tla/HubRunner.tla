------------------------------ MODULE HubRunner ------------------------------
(***************************************************************************)
(* The hub, one runner, the connections between them, and what can go      *)
(* wrong with all three.                                                   *)
(***************************************************************************)
EXTENDS MachineRunner, HubSessions

CONSTANTS
  MaxFaults,     \* bound on disturbances: failed connects, cuts, restarts
  MaxCommands    \* bound on the client messages that the hub accepts

ASSUME MaxFaultsNat == MaxFaults \in Nat
ASSUME MaxCommandsNat == MaxCommands \in Nat

VARIABLES
  faults,        \* disturbances so far
  commands,      \* client messages so far
  replayed,      \* sessions that the last resync sent had a conversation for
  astray,        \* sessions whose row the SDK led astray since their run began
  split,         \* sessions in which an aborted run was still given its id
  dark           \* connections that broke without a sign to either end

\* History: properties read these, and fairness reads dark; no action does.
historyVars == <<replayed, astray, split, dark>>

vars == <<wireVars, runnerVars, hubVars, faults, commands, historyVars>>

\* No handler, in any order, writes a value of another type: a status is one of
\* the protocol's four, a map entry names a run, a registration a connection.
TypeOK ==
  /\ WireTypeOK
  /\ RunnerTypeOK
  /\ HubTypeOK
  /\ faults \in 0..MaxFaults
  /\ commands \in 0..MaxCommands
  /\ {replayed, astray, split} \subseteq SUBSET Session
  /\ dark \subseteq Conn

Init ==
  /\ WireInit
  /\ RunnerInit
  /\ HubInit
  /\ faults = 0
  /\ commands = 0
  /\ replayed = {}
  /\ astray = {}
  /\ split = {}
  /\ dark = {}

\* A run begins in session s.
Begins(s) == sessions'[s] \notin {sessions[s], NoRun}

\* A run that was told to stop is given an id by the SDK, and had none.
NamedLate(r) ==
  /\ r \in DOMAIN runs \cap DOMAIN runs'
  /\ runs[r].aborted
  /\ runs[r].sdk # runs'[r].sdk

\* The history variables after a step that leads the rows of S astray and makes
\* the connections in C go dark.  They are kept as long as somebody asks: the
\* first two until the first disturbance, the third while an end is open.
Remembers(S, C) ==
  /\ astray' = {s \in astray \cup S : faults' = 0 /\ ~Begins(s)}
  /\ split' = {s \in Session : faults' = 0
                 /\ (s \in split \/ \E r \in Run : NamedLate(r) /\ runs[r].session = s)}
  /\ dark' = {c \in dark \cup C : hubWs'[c] = "open" \/ ws' = c}

\* The SDK names a new conversation with an id that nobody has seen.
Unseen(k) ==
  /\ \A r \in DOMAIN runs : runs[r].sdk # k
  /\ \A s \in Session : sdkIds[s] # k /\ sdkOf[s] # k
  /\ \A c \in Conn :
       /\ \A i \in 1..Len(toHub[c]) :
            toHub[c][i].type = "session_done" => toHub[c][i].sdk # k
       /\ \A i \in 1..Len(toRunner[c]) :
            toRunner[c][i].type = "hub_runner_resync" =>
              \A s \in Session : toRunner[c][i].sessions[s] # k

-----------------------------------------------------------------------------
RunnerHandles ==
  \/ \E s \in Session : StartSession(s) \/ RejectCwd(s) \/ SendPrompt(s)
  \/ \E s \in Session, p \in PromptNo : ResolvePrompt(s, p) \/ IgnoreResponse(s, p)
  \/ HandleResync

SdkStarts(r) == \E k \in SdkId : (runs[r].sdk = NoSdk => Unseen(k)) /\ SdkInit(r, k)

SdkSteps ==
  \E r \in DOMAIN runs :
    \/ SdkStarts(r)
    \/ CanUseTool(r)
    \/ Current(r) /\ SdkResult(r)
    \/ SdkEnd(r)
    \/ SdkThrow(r)

\* The SDK leads the session's row astray: a run ends without a word, or one
\* that was told to stop reports its result while its successor works.
SdkStrays(r) == SdkEndEarly(r) \/ (runs[r].aborted /\ SdkResult(r))

RunnerConnects ==
  \/ \E c \in Conn : Connect(c)
  \/ Open
  \/ Connecting /\ cut[ws] /\ ConnectFails    \* cut earlier: no disturbance of its own
  \/ RunnerWsClose

RunnerStep == RunnerHandles \/ SdkSteps \/ RunnerConnects

ClientStep ==
  /\ commands < MaxCommands
  /\ commands' = commands + 1
  /\ \E s \in Session :
       \/ HandleStartSession(s)
       \/ HandleSendPrompt(s)
       \/ \E p \in PromptNo, r \in Run : HandleRespondToPrompt(s, p, r)
       \/ HandleArchiveSession(s)

HubReceives(c) ==
  \/ ReceiveUserPrompt(c)
  \/ ReceiveStatus(c)
  \/ ReceiveDone(c)
  \/ ReceiveError(c)

HubAccepts(c) ==
  /\ AcceptRunner(c)
  /\ replayed' = {s \in Session : Resumable[s] # NoSdk}

HubStep ==
  \E c \in Conn :
    \/ HubAccepts(c)
    \/ (HubReceives(c) \/ HubWsClose(c)) /\ UNCHANGED replayed

-----------------------------------------------------------------------------
\* Disturbances.

\* The network breaks a connection under both ends, and tells neither.
CutConn(c) ==
  /\ ~cut[c]
  /\ cut' = [cut EXCEPT ![c] = TRUE]
  /\ \E n \in 0..Len(toHub[c]) :
       toHub' = [toHub EXCEPT ![c] = SubSeq(@, 1, n)]
  /\ \E n \in 0..Len(toRunner[c]) :
       toRunner' = [toRunner EXCEPT ![c] = SubSeq(@, 1, n)]
  /\ UNCHANGED <<runnerVars, hubVars, ws, link, hubWs>>

Disturb ==
  /\ faults < MaxFaults
  /\ faults' = faults + 1
  /\ \/ /\ \/ Connecting /\ ~cut[ws] /\ ConnectFails /\ UNCHANGED hubVars
           \/ RestartRunner /\ UNCHANGED hubVars
           \/ PanicAccount /\ UNCHANGED runnerVars
           \/ RestartHub /\ UNCHANGED runnerVars
        /\ Remembers({}, {})
     \/ \E c \in Conn : CutConn(c) /\ Remembers({}, {c})

\* Whose step it is, and what that leaves alone.
RunnerDoes(A, S) ==
  UNCHANGED <<hubVars, faults, commands, replayed>> /\ A /\ Remembers(S, {})

ClientDoes(A) ==
  UNCHANGED <<runnerVars, faults, replayed>> /\ A /\ Remembers({}, {})

HubDoes(A) ==
  UNCHANGED <<runnerVars, faults, commands>> /\ A /\ Remembers({}, {})

Next ==
  \/ RunnerDoes(RunnerStep, {})
  \/ \E r \in DOMAIN runs : RunnerDoes(SdkStrays(r), {runs[r].session})
  \/ ClientDoes(ClientStep)
  \/ HubDoes(HubStep)
  \/ Disturb /\ UNCHANGED <<commands, replayed>>

Spec == Init /\ [][Next]_vars

\* Each end learns that a connection is over, unless it went dark: neither sends
\* pings.  The hub's own close does not wait for ever for the other end (the ws
\* library destroys the socket after 30 seconds).
HubNotices(c) == c \notin dark \/ hubWs[c] = "closing"

RunnerNotices == link = "open" => ws \notin dark

\* A query that nobody holds up: it is named, yields its result, ends.
Proceeds(r) == SdkStarts(r) \/ (Current(r) /\ SdkResult(r)) \/ SdkEnd(r)

\* What the event loops, the network and the SDK do in the end: every handler
\* whose event is there runs, a timer fires, a query that nobody holds up
\* ends.  Nothing is assumed of the users.
Fairness ==
  /\ WF_vars(RunnerDoes(RunnerHandles, {}))
  /\ WF_vars(RunnerDoes(RunnerNotices /\ RunnerConnects, {}))
  /\ \A r \in Run : WF_vars(RunnerDoes(Live(r) /\ Proceeds(r), {}))
  /\ \A c \in Conn :
       WF_vars(HubDoes(
         \/ HubAccepts(c)
         \/ HubReceives(c) /\ UNCHANGED replayed
         \/ HubNotices(c) /\ HubWsClose(c) /\ UNCHANGED replayed))

FairSpec == Spec /\ Fairness

-----------------------------------------------------------------------------
(* Properties of the runner. *)

\* Every run that was not told to stop is the current run of its session, so
\* that the next prompt can stop it and an answer can reach it, and a session
\* has at most one such run (runSession's supersede and its finally block).
NoOrphanRun ==
  \A r \in DOMAIN runs : ~runs[r].aborted => sessions[runs[r].session] = r

\* The sessions map names executing runs of the right session only.
EntriesLive ==
  \A s \in Session : sessions[s] # NoRun =>
    Current(sessions[s]) /\ runs[sessions[s]].session = s

\* A run that waits for the user is one that resolvePrompt would find: no
\* superseded run is left behind waiting for an answer.
WaiterReachable ==
  \A r \in DOMAIN runs : runs[r].pending # {} => sessions[runs[r].session] = r

(* Properties of the registration. *)

\* The hub sends a connected runner's messages where the runner listens.
RoutedToListener ==
  link = "open" /\ ~cut[ws] /\ hubWs[ws] = "open" => runner = ws

\* A registered connection has a socket whose close event is still to come.
RegisteredWillClose == runner # NoConn => hubWs[runner] # "none"

(* Properties of the two together. *)

Quiet == \A c \in Conn : toHub[c] = << >> /\ toRunner[c] = << >>

Working(s) == sessions[s] # NoRun /\ runs[sessions[s]].phase # "resulted"

\* With nothing in flight and nothing ever disturbed, the status that every
\* device shows is active exactly while the runner works on the session, however
\* runs overlap -- unless, since the session's last run began, a run that it
\* superseded reported a result (nothing tells the hub whose result it is,
\* runner.ts:519), or that run ended without one (nothing is sent,
\* runner.ts:321-331).
HonestStatus ==
  faults = 0 /\ Quiet =>
    \A s \in Session \ astray : status[s] \in ActiveStatus <=> Working(s)

\* Undisturbed, all that hub, resume map and runs know of a session's
\* conversation is one id, whatever superseded runs still yield: a session never
\* splits into two histories, unless a run that was told to stop before the SDK
\* had named its conversation was given a name after all.
OneConversation ==
  faults = 0 =>
    \A s \in Session \ split :
      LET known == {sdkIds[s], sdkOf[s]}
                     \cup {runs[r].sdk : r \in {q \in DOMAIN runs : runs[q].session = s}}
      IN Cardinality(known \ {NoSdk}) <= 1

StartsFresh(s) ==
  /\ sessions'[s] \notin {sessions[s], NoRun}
  /\ runs'[sessions'[s]].sdk = NoSdk

\* A run never starts a new conversation for a session whose conversation was
\* on record when the runner connected, whatever restarted before (the resync
\* of handleRunnerConnection, and its place before the first prompt).
ResumesOnRecord ==
  [][\A s \in replayed \ archived : ~StartsFresh(s)]_vars

(* Liveness. *)

\* A connection that the runner's end gave up, or that the hub is closing, does
\* not stay registered.  (One that went dark does, until the runner's next
\* connection is accepted: nothing probes it.)
DeadConnectionDropped ==
  \A c \in Conn :
    runner = c /\ ((cut[c] /\ c \notin dark) \/ hubWs[c] = "closing")
      ~> runner # c

\* Undisturbed, a session leaves "running": it ends, fails or asks the user --
\* unless the SDK ended its run without a result.
Settles ==
  \A s \in Session :
    status[s] = "running" ~> status[s] # "running" \/ s \in astray \/ faults > 0

\* Every execution of runSession returns, unless it is current and the user
\* owes it an answer: none that was superseded hangs for ever.
RunsEnd ==
  \A r \in Run :
    Live(r) ~> ~Live(r) \/ (Current(r) /\ runs[r].pending # {})

-----------------------------------------------------------------------------
(* What the repository says and the program does not do. *)

\* "Reconnects on disconnect" (runner/src/cli.ts:457): a runner whose
\* connection broke is connected again in the end.
Reconnects == link = "waiting" ~> link = "open"

\* After the runner's process was replaced, no session is shown as active for
\* ever with no run behind it (hub.test.ts:563, "Prevents: sessions stuck in
\* 'running' forever after the runner drops").
NoPhantomSession ==
  \A s \in Session :
    link = "boot" /\ status[s] \in ActiveStatus
      ~> status[s] \notin ActiveStatus \/ sessions[s] # NoRun

\* An answer goes to the run that asked, the one that "the runner is blocked
\* on" (hub/SPEC.md:36).
AnswerReachesAsker ==
  [][\A s \in Session, p \in PromptNo : ResolvePrompt(s, p) =>
       Delivered(HubRespondToPrompt(s, p, sessions[s]))]_vars

\* A reconnect takes no conversation away from a session that has one: "the
\* runner will resume them on reconnect via the resync" (hub.ts:554-556).
ResyncKeepsConversations ==
  [][HandleResync =>
       \A s \in Session \ archived :
         ResolveSdkSessionId(s) # NoSdk => ResolveSdkSessionId(s)' # NoSdk]_vars
=============================================================================
