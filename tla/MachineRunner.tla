---------------------------- MODULE MachineRunner ----------------------------
(***************************************************************************)
(* The runner process (runner/src/runner.ts, class MachineRunner): its     *)
(* sessions map, its resume map, the runs of runSession that are still     *)
(* executing -- an aborted run keeps executing until the SDK's generator   *)
(* ends -- and its side of the connection to the hub.                      *)
(***************************************************************************)
EXTENDS Wire, FiniteSets

CONSTANT NoRun

ASSUME NoRunFresh == NoRun \notin Run

VARIABLES
  sessions,   \* this.sessions: the current run of each session
  sdkIds,     \* this.sdkSessionIds: the resume map
  runs        \* every execution of runSession that has not returned

runnerVars == <<sessions, sdkIds, runs>>

\* "starting": query() was called, the SDK has not sent its init message
\* "active":   the SDK is working
\* "resulted": the SDK sent its result, the generator has not ended
Phase == {"starting", "active", "resulted"}

\* `pending' is ActiveSession.pendingPrompts, `asked' is promptCounter.
RunState == [session : Session, sdk : MaybeSdk, phase : Phase,
             aborted : BOOLEAN, pending : SUBSET PromptNo, asked : 0..MaxPrompt]

RunnerTypeOK ==
  /\ sessions \in [Session -> Run \cup {NoRun}]
  /\ sdkIds \in ResumeMap
  /\ DOMAIN runs \subseteq Run
  /\ runs \in [DOMAIN runs -> RunState]

NewRun(s, k) == [session |-> s, sdk |-> k, phase |-> "starting",
                 aborted |-> FALSE, pending |-> {}, asked |-> 0]

NoRuns == [r \in {} |-> {}]

NoneRunning == [s \in Session |-> NoRun]

NoSdkKnown == [s \in Session |-> NoSdk]

RunnerInit ==
  /\ sessions = NoneRunning
  /\ sdkIds = NoSdkKnown
  /\ runs = NoRuns

\* Still executing.
Live(r) == r \in DOMAIN runs

\* Still executing, and not told to stop.
Current(r) == Live(r) /\ ~runs[r].aborted

-----------------------------------------------------------------------------
\* A bug: forget the resume map.
ResolveFromRunOnly(s) ==
  IF sessions[s] # NoRun THEN runs[sessions[s]].sdk ELSE NoSdk

\* A bug: do not ask the run that is being superseded.
ResolveFromMapOnly(s) == sdkIds[s]

\* resolveSdkSessionId: the current run's id, else the resume map's.
ResolveSdkSessionId(s) ==
  IF sessions[s] # NoRun /\ runs[sessions[s]].sdk # NoSdk
  THEN runs[sessions[s]].sdk
  ELSE sdkIds[s]

\* A bug: abort without rejectPendingPrompts.
AbortedStillWaiting(run) == [run EXCEPT !.aborted = TRUE]

\* abort() and rejectPendingPrompts on a run.
Aborted(run) == [run EXCEPT !.aborted = TRUE, !.pending = {}]

\* The statuses that the continuations of n rejected prompts send, right
\* after the handler that rejected them.
Resumptions(s, n) == [i \in 1..n |-> SessionStatus(s, "running")]

\* runSession up to the first await: supersede the session's current run, if
\* there is one, and start another that resumes conversation k (or none).
RunSession(s, k) ==
  LET old == sessions[s]
      rejected == IF old = NoRun THEN 0 ELSE Cardinality(runs[old].pending)
  IN \E r \in Run \ DOMAIN runs :
       /\ RoomToHub(1 + rejected)
       /\ runs' = [q \in DOMAIN runs \cup {r} |->
                     IF q = r THEN NewRun(s, k)
                     ELSE IF q = old THEN Aborted(runs[q]) ELSE runs[q]]
       /\ sessions' = [sessions EXCEPT ![s] = r]
       /\ RunnerSends(<<SessionStatus(s, "running")>>
                        \o Resumptions(s, rejected))
       /\ UNCHANGED sdkIds

\* hub_start_session with a working directory that validateCwd accepts.  The
\* hub has just minted the session, so that there is nothing to resume.
StartSession(s) ==
  /\ Delivered(HubStartSession(s))
  /\ RunSession(s, ResolveSdkSessionId(s))
  /\ RunnerConsumes
  /\ UNCHANGED <<ws, link, hubWs, cut>>

\* hub_start_session with a directory that is missing or no directory: an
\* error, before anything of the runner's state is touched.
RejectCwd(s) ==
  /\ Delivered(HubStartSession(s))
  /\ RoomToHub(1)
  /\ RunnerSends(<<SessionError(s)>>)
  /\ RunnerConsumes
  /\ UNCHANGED <<runnerVars, ws, link, hubWs, cut>>

\* hub_send_prompt: never carries a cwd, resumes what the runner knows.
SendPrompt(s) ==
  /\ Delivered(HubSendPrompt(s))
  /\ RunSession(s, ResolveSdkSessionId(s))
  /\ RunnerConsumes
  /\ UNCHANGED <<ws, link, hubWs, cut>>

\* hub_respond_to_prompt, when the session's current run has that prompt
\* pending: its canUseTool continues and reports "running".
ResolvePrompt(s, p) ==
  LET r == sessions[s]
  IN /\ \E q \in Run : Delivered(HubRespondToPrompt(s, p, q))
     /\ r # NoRun
     /\ p \in runs[r].pending
     /\ RoomToHub(1)
     /\ runs' = [runs EXCEPT ![r].pending = @ \ {p}]
     /\ RunnerSends(<<SessionStatus(s, "running")>>)
     /\ RunnerConsumes
     /\ UNCHANGED <<sessions, sdkIds, ws, link, hubWs, cut>>

\* hub_respond_to_prompt for a prompt nobody waits for: ignored.
IgnoreResponse(s, p) ==
  /\ \E q \in Run : Delivered(HubRespondToPrompt(s, p, q))
  /\ sessions[s] # NoRun => p \notin runs[sessions[s]].pending
  /\ RunnerConsumes
  /\ UNCHANGED <<runnerVars, ws, link, hubWs, cut, toHub>>

\* hub_runner_resync: the hub's resume map replaces the runner's.
HandleResync ==
  /\ \E m \in ResumeMap :
       /\ Delivered(HubRunnerResync(m))
       /\ sdkIds' = m
  /\ RunnerConsumes
  /\ UNCHANGED <<sessions, runs, ws, link, hubWs, cut, toHub>>

-----------------------------------------------------------------------------
\* The SDK.  After an abort it asks nothing more; what it had buffered may
\* still come out, because the loop of runSession does not look at the signal.

\* The system/init message names the conversation: the resumed one, or one
\* that no part of the system has seen yet.
SdkInit(r, k) ==
  /\ Live(r)
  /\ runs[r].phase = "starting"
  /\ runs[r].sdk # NoSdk => k = runs[r].sdk
  /\ runs' = [runs EXCEPT ![r].phase = "active", ![r].sdk = k]
  /\ UNCHANGED <<sessions, sdkIds, wireVars>>

\* handleCanUseTool up to its await: ask the user and wait.  The SDK may ask
\* again while an earlier question is open (parallel tool calls).
CanUseTool(r) ==
  LET s == runs[r].session
      p == runs[r].asked + 1
  IN /\ Live(r)
     /\ runs[r].phase = "active"
     /\ ~runs[r].aborted
     /\ p \in PromptNo
     /\ RoomToHub(2)
     /\ runs' = [runs EXCEPT ![r].asked = p, ![r].pending = @ \cup {p}]
     /\ RunnerSends(<<UserPrompt(s, p, r),
                      SessionStatus(s, "waiting_for_input")>>)
     /\ UNCHANGED <<sessions, sdkIds, ws, link, hubWs, cut, toRunner>>

\* processStreamMessage on the SDK's result.
SdkResult(r) ==
  LET s == runs[r].session
  IN /\ Live(r)
     /\ runs[r].phase = "active"
     /\ runs[r].pending = {}
     /\ RoomToHub(1)
     /\ runs' = [runs EXCEPT ![r].phase = "resulted"]
     /\ RunnerSends(<<SessionDone(s, runs[r].sdk)>>)
     /\ UNCHANGED <<sessions, sdkIds, ws, link, hubWs, cut, toRunner>>

\* A bug: delete the session's entry whatever run it names.
LeavesUnconditionally(r) == [sessions EXCEPT ![runs[r].session] = NoRun]

\* A run leaves the sessions map only if it is still the current one.
Leaves(r) ==
  IF sessions[runs[r].session] = r
  THEN [sessions EXCEPT ![runs[r].session] = NoRun] ELSE sessions

\* The finally block of runSession: remember the conversation, leave.  (ResumeMap
\* has the eviction at 1000 conversations.)
Finally(r) ==
  /\ runs' = [q \in DOMAIN runs \ {r} |-> runs[q]]
  /\ sdkIds' = IF runs[r].sdk = NoSdk THEN sdkIds
               ELSE [sdkIds EXCEPT ![runs[r].session] = runs[r].sdk]
  /\ sessions' = Leaves(r)

\* The generator ends after its result, or because it was aborted -- but not
\* while a permission callback is open.  An error thrown by an aborted run is
\* swallowed, so that it is the same step.
SdkEnd(r) ==
  /\ Live(r)
  /\ runs[r].phase = "resulted" \/ runs[r].aborted
  /\ runs[r].pending = {}
  /\ Finally(r)
  /\ UNCHANGED wireVars

\* The generator ends without a result, an error or an abort: the loop is over
\* and the hub is told nothing.
SdkEndEarly(r) ==
  /\ Current(r)
  /\ runs[r].phase # "resulted"
  /\ runs[r].pending = {}
  /\ Finally(r)
  /\ UNCHANGED wireVars

\* A bug: swallow the error of a run that was not aborted.
SdkThrowSilently(r) == Current(r) /\ Finally(r) /\ UNCHANGED wireVars

\* A bug: report the error of a run that was aborted, too.
SdkThrowAlways(r) ==
  /\ Live(r)
  /\ RoomToHub(1)
  /\ RunnerSends(<<SessionError(runs[r].session)>>)
  /\ Finally(r)
  /\ UNCHANGED <<ws, link, hubWs, cut, toRunner>>

\* The generator throws in a run that was not aborted, at any point, even
\* after the result (the CLI exits non-zero) or while the user is asked.
SdkThrow(r) ==
  /\ Current(r)
  /\ RoomToHub(1)
  /\ RunnerSends(<<SessionError(runs[r].session)>>)
  /\ Finally(r)
  /\ UNCHANGED <<ws, link, hubWs, cut, toRunner>>

-----------------------------------------------------------------------------
\* The runner's side of the connection.

\* connect(), called by cmdRun or by a reconnect timer.
Connect(c) ==
  /\ link \in {"boot", "bootRetry", "waiting"}
  /\ FreeConn(c)
  /\ ws' = c
  /\ link' = IF link = "boot" THEN "firstTry" ELSE "retrying"
  /\ cut' = [cut EXCEPT ![c] = FALSE]
  /\ toHub' = [toHub EXCEPT ![c] = << >>]
  /\ toRunner' = [toRunner EXCEPT ![c] = << >>]
  /\ UNCHANGED <<runnerVars, hubWs>>

\* The "open" event, some time after the hub accepted the upgrade.  (The
\* runner_hello it sends is only logged by the hub.)
Open ==
  /\ Connecting
  /\ hubWs[ws] # "none"
  /\ ~cut[ws]
  /\ link' = "open"
  /\ UNCHANGED <<runnerVars, ws, hubWs, cut, toHub, toRunner>>

\* A connect() that never opened: cmdRun retries its first one once, after
\* that nothing does, because the close handler (runner.ts:132) wants
\* `connected'.
ConnectFails ==
  /\ Connecting
  /\ link' = IF link = "firstTry" THEN "bootRetry" ELSE "gaveUp"
  /\ ws' = NoConn
  /\ cut' = [cut EXCEPT ![ws] = TRUE]
  /\ toRunner' = [toRunner EXCEPT ![ws] = << >>]
  /\ UNCHANGED <<runnerVars, hubWs, toHub>>

\* The "close" event of an open socket, after all that still arrived: the
\* connection broke, or the hub closed it.  The runs go on.
RunnerWsClose ==
  /\ link = "open"
  /\ toRunner[ws] = << >>
  /\ cut[ws] \/ hubWs[ws] # "open"
  /\ link' = "waiting"
  /\ ws' = NoConn
  /\ cut' = [cut EXCEPT ![ws] = TRUE]
  /\ UNCHANGED <<runnerVars, hubWs, toHub, toRunner>>

\* The process stops -- a crash, a signal, a self-update -- and launchd
\* starts another.  A part of what it had sent may still arrive.
RestartRunner ==
  /\ sessions' = NoneRunning
  /\ sdkIds' = NoSdkKnown
  /\ runs' = NoRuns
  /\ link' = "boot"
  /\ ws' = NoConn
  /\ IF ws = NoConn
     THEN UNCHANGED <<cut, toHub, toRunner>>
     ELSE /\ cut' = [cut EXCEPT ![ws] = TRUE]
          /\ toRunner' = [toRunner EXCEPT ![ws] = << >>]
          /\ \E left \in {SubSeq(toHub[ws], 1, n) : n \in 0..Len(toHub[ws])} :
               toHub' = [toHub EXCEPT ![ws] = left]
  /\ UNCHANGED hubWs
=============================================================================
