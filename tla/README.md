# CC Commander, specified

TLA+ models of CC Commander: a *hub* through which devices start and follow
Claude Code sessions that *runners* execute on the machines of an account. The
models are written from the code; the comments of each module name the
functions it stands for, and `PROJECT.json` gives the lines of every definition.

## The system

| component | state | operations | talks to |
|---|---|---|---|
| Hub sessions (`hub/src/db.ts`, `hub/src/ws/`) | one row per session: status, SDK conversation id, archived | start, prompt, respond, archive (from clients); status, done, error, user prompt (from runners) | clients, runners |
| Hub connections (`hub/src/hub.ts`) | `clients`, `clientsByAccount`, `runners` (one registered connection per machine) | accept, replace, close, panic, stop | everything |
| History requests (`hub/src/state/pendingHistory.ts`) | pending requests, each with a TTL timer | add, peek, take, dropMatching, clear, expiry | clients, runners |
| Runner (`runner/src/runner.ts`) | `sessions` (current run of each session), `sdkSessionIds` (resume map), runs still executing with their pending prompts | runSession, resolvePrompt, handleResync, getHistory, canUseTool, stream messages | hub, Claude Code SDK |
| Runner connection (`runner.ts`, `runner/src/cli.ts`) | socket, `connected`, reconnect timer | connect, open, close, error, cmdRun's first connect and its retry | hub |
| Self-update (`runner/src/updater.ts`, `cli.ts`, `scripts/update.sh`) | poll timer, cooldown marker, checked-out version | poll, update, exit | hub (HTTP), launchd |
| Authentication (`hub/src/auth.ts`, `routes/`) | accounts, refresh tokens | register, login, refresh, panic | clients (HTTP) |
| Rate limiter (`hub/src/rate_limit.ts`) | a token bucket per key | tryConsume, sweep | routes |
| Swift connection (`HubConnection.swift`, `WebSocketClient.swift`) | tokens, connection state, reconnect task | login, connect, reconnect, logout, panic | hub |
| Swift session state (`AppState.swift`, `SessionStream.swift`) | session list, a stream of entries per session, pending prompt | apply hub messages, load history, send, answer | hub |
| Log file (`protocol/src/logger.ts`) | the current file, its renamed predecessors, the size counted | write, rotate, open | file system |
| Metrics, views, test harness, deployment scripts | - | - | - |

Hub and runner share no state. They exchange JSON messages over a WebSocket
that the runner opens, and each learns of the other's end by a close event of
its own. Both are single-threaded Node processes: a handler runs to its next
`await` without interruption, so one action of a model is one such stretch.
What makes the system hard:

- *Overlapping runs.* A prompt for a session with a running query aborts that
  query and starts another at once; the aborted one keeps executing, and its
  `catch` and `finally` blocks run at an arbitrary later time.
- *Two copies of the truth.* The status and the conversation of a session are
  in the hub's rows and in the runner's maps, and messages between them are
  dropped silently whenever a socket is not open.
- *Two ends of a connection.* A new connection can be accepted before the old
  one is seen to close, messages of the old one may still arrive, and its close
  event comes late.
- *Restarts.* A runner starts with empty maps (crash, self-update, launchd); a
  hub with the rows as they were and no connections.
- *Answers from anywhere, any time.* Several devices show the same prompt.
- *Timers.* A history request can be answered, expire, lose its asker or lose
  its runner, at the same moment.
- *Tasks of the client.* Reconnect loops, readers, a login and a panic of one app
  run on one actor and interleave at every await; a task that is cancelled goes on
  until it looks.
- *Tokens that are spent.* A refresh deletes the token it is given; the reply that
  carries the next one can be lost.
- *Two sources of one list.* What a session's screen shows comes from live messages
  and from one replay of the history, which overlap.
- *Stores that keep themselves small.* Buckets, conversations, entries and log files
  are dropped at a limit, late and one at a time.

What makes each component correct:

- Runner: one current run per session, reachable by the next prompt and by an
  answer; superseded runs end; a prompt resumes the session's conversation.
- Hub rows: the status agrees with what the runner does; nothing active for ever.
- Hub connections: the registered connection is the one that the runner reads;
  dead ones are dropped, live ones are not.
- History requests: one reply, to the asker; no leak; no client left waiting.
- Resynchronisation: nothing on record is lost by a restart or a reconnect.
- Client: one loop, one reader; a reconnect that always happens and never undoes
  a logout; streams without repetition, disorder or loss; questions on screen.
- Tokens: a rotated token is used once; the client never loses the one it lives on.
- Rate limiter: what it forgets or fills late makes no difference to a caller.
- Log file: rotation never mixes, repeats or loses lines.
- Self-update: no restart loop, no runner left without a connection.

## The modules

| module | what it is |
|---|---|
| `Protocol` | statuses and the session messages, as records |
| `Wire` | connections between one runner and the hub: two ends, two FIFO channels, the `link` phase of the runner |
| `MachineRunner` | the runner's state and one action per handler, SDK event and connection event |
| `HubSessions` | the hub's rows, registration and one action per client message, runner message and connection event |
| `HubRunner` | the two composed, with disturbances, fairness and the properties |
| `HistoryPromise` | abstract: what a client that asks for a history is promised |
| `PendingHistory` | the store, the clients, the runners and the timers; refines `HistoryPromise` |
| `SelfUpdate` | a runner's poll loop, `update.sh` command by command, the cooldown marker, launchd |
| `AuthTokens` | the hub's accounts, refresh tokens and JWTs, for one address; requests as calls |
| `HubConnection` | the Swift client's connection on top of `AuthTokens`: flows, loops, sockets, readers, keychain |
| `SessionStream` | what one device shows of one session, with the order in which hub and runner send |
| `LimiterPromise` | abstract: buckets that fill continuously and are never dropped |
| `RateLimiter` | the token buckets as the hub keeps them; refines `LimiterPromise` |
| `ResumeMap` | the runner's resume map at its limit, which `MachineRunner` leaves out |
| `LogFile` | the log file and its rotation |
| `MCHubRunner`, `MCPendingHistory`, `MCSessionStream`, `MCBounds` | instances for TLC; `MCBounds` puts the last three stores side by side |
| `HubRunnerProofs`, `HubRunnerResyncProofs`, `HubRunnerCalmProofs`, `PendingHistoryProofs`, `SelfUpdateProofs`, `HubConnectionProofs`, `SessionStreamProofs`, `BoundsProofs` | theorems |

`HubConnection` extends `AuthTokens` and `HubRunner` composes `MachineRunner`,
`HubSessions` and `Wire`. The others stand alone: what they share with another
module is one message or one call, which each models from its own side.

### How state and actions correspond to the code

`MachineRunner`: `sessions`, `sdkIds` and `runs` are `this.sessions`,
`this.sdkSessionIds` and the executions of `runSession` that have not returned,
including superseded ones that no map names any more. A run's `pending` is
`pendingPrompts`, `asked` is `promptCounter`, `aborted` is
`abortController.signal.aborted`, and `phase` is how far the SDK's generator
is. `RunSession` is `runSession` up to its first await, including the reject of
the superseded run's prompts and the statuses that their continuations send.
`CanUseTool` is `handleCanUseTool` up to its await and `ResolvePrompt` the rest
of it. `SdkEnd`, `SdkEndEarly` and `SdkThrow` are the ways out of the loop with the
`finally` block: the generator ends after its result or an abort, ends without
either, or throws. The second sends nothing (`runner.ts:321-331`): the row stays
running until the session's next prompt or the runner's disconnect. The SDK is
external: it names a conversation (a resumed one keeps its id), asks, yields a
result, ends or throws; it does not end while a permission callback is open. After an
abort it asks nothing more, which is an assumption (`handleCanUseTool` does not look
at the signal), but what it had buffered, its name or its result, may still come out,
as neither the loop nor `processStreamMessage` looks at it either. The eviction in the
`finally` block is in `ResumeMap`; with more than 1000 sessions on a machine it, and
the hub's `LIMIT 1000`, which `Resumable` leaves out, may make a session start afresh
that was on record, so that `ResumesOnRecord` is about machines with at most as many.

`Wire`: `link` is the control state that `connect()` keeps in its closure
(`connected`), in `this.ws` and in the timers of `runner.ts` and `cmdRun`.
`hubWs[c]` is the `readyState` of the hub's socket; messages that arrive while
it is closing are still handled, because the handlers stay attached. `cut[c]`
says that nothing new gets through. A cut keeps any prefix of what is in
flight. A process that dies may leave a prefix of what it sent. When the hub's process
dies, all its connections are over in the same step.

`HubSessions`: one machine of one account. `status`, `sdkOf`, `archived` are
the columns; `runner` is `this.runners.get(machineId)`. `shown` collects the
prompts relayed to clients: any of them can be answered, at any time, since no
message takes a prompt back. Each action performs the database statements, the
sends and the map updates of one handler. A refused client message changes
nothing and is no action. The `asker` field of prompts and answers and four variables
of `HubRunner` are history, which no action reads: `replayed`, the sessions that the
last resync had on record; `astray`, those whose row the SDK led astray since their
last run began, because a superseded run reported a result or the run ended without
one; `split`, those in which a run that was aborted before it was named got a name
after all; `dark`, the connections that broke without a sign to either end, which
fairness reads too.

`PendingHistory`: `entries` and `timers` are the store with its timers as two
variables, so that one can be forgotten without the other. `ReceiveAnswer` is
peek, check and take in one handler. A runner answers on the socket that it
has after its await (`socket`), which may not be the one it was asked on.

`SelfUpdate`: commits of main are numbered. `tree` and `deps` are the checkout
and the commit that `node_modules` was installed for; `None` is an unknown version
or an unusable `node_modules`. `proc` is what the single-threaded process does:
idle between polls, waiting for `/api/version`, or blocked in `spawnSync` at one
command of `update.sh`, when nothing else of it runs, a signal handler included.
`marker` has an entry for each of the two directories that the code computes.
`Boot` is `cmdRun` up to `updater.start()`; its `connect()` is in `HubRunner`.
The hub's answer to a poll and its arrival are one step. `cause` is history.

`AuthTokens`: `issueTokens` makes a JWT and a refresh token at once; such a pair is
a number. A request is `call[c]`, one for each caller, and goes through the hub's
steps: looked at, awaiting bcrypt (register only: a login's await lies between a
read and an insert that depend on nothing that changes), replied. `heirs` and `gone`
are history.

`HubConnection`: a *flow* is a call of a method of the class or one task of
`scheduleReconnect`, and `flow[f].at` the await it is in. `user` is login, register
or the connect at launch, `leave` is panic with the logout that follows. `sock[s]`
is one `WebSocketClient` with both ends of its connection, `reader[s]` the task that
iterates over its messages, whose end calls `handleDisconnect` even when it was
cancelled. `loopTask` and `readerTask` are the class's two task fields. `once`,
`overtaken` and `left` are history. What was decided:

- The product's views call `logout` only through panic; the harness's direct call
  is not modelled.
- A request fails by being lost, refused with 429, or losing its reply.
- A cancelled reader runs before the user can log in again: it is in the actor's
  queue already. It feeds nothing more, although Swift's stream may still hand out what
  it had buffered (`HubConnection.swift:277-285`).
- A link that dies without a sign is not noticed by this end either; `SocketDrops` is a
  connection whose end the client is told.
- The loop's first test of `shouldReconnect` is one step with what scheduled it.
- The back-off's length, failures of the keychain and the app's lifecycle other than
  a launch are left out.

`SessionStream`: the items of a conversation (a prompt, a text, a call, a result)
are numbered, and an entry is known by the items it shows. `log`, `written` and
`sent` are how far the conversation, its transcript and the runner's stream have
come; `feed` is the one FIFO channel to the device. `pending` is `pendingText`,
`shown` is `pendingPrompt`, `submit` an answer whose send is awaited. An answer to a
question that nobody waits for any more is not followed. `overlaid`,
`intact`, `masked` and `appended` are history. A device asks for the history when a
session without entries is selected. A call of AskUserQuestion and an empty result
are no items: the runner does not stream them.

`RateLimiter`: a token is a number of units so that a millisecond refills whole
ones; the code's doubles round, and may hold 0.9999 of a token and refuse where the
model grants. The clock is taken not to go back. `ResumeMap` keeps
a `Map`'s keys in the order of their insertion; `activity` is the hub's column
`last_activity`, in whole seconds, which sessions that are demoted together share,
and a listing may put sessions of one second in any order. `inserted` is history.
`LogFile` counts lines, not bytes; every `renameSync`, `writeSync`, `openSync` and
`statSync` can fail, and the process can be killed between any two of them.

## The runs

| run | module, cfg | what it asks |
|---|---|---|
| safety | `MCHubRunner`, `safety.cfg` | `TypeOK`, `NoOrphanRun`, `WaiterReachable`, `RoutedToListener`, `ResumesOnRecord` with two disturbances |
| calm | `MCHubRunner`, `calm.cfg` | `HonestStatus`, `OneConversation` with three overlapping runs, two prompts each, aborted runs that still yield, no disturbance |
| live | `MCHubRunner`, `live.cfg` | `DeadConnectionDropped`, `Settles`, `RunsEnd` under fairness, one disturbance |
| history | `MCPendingHistory`, `history.cfg` | `TypeOK`, `EntryAttended`, `OneReply`, `KeepsPromise`, `Answered` |
| update | `SelfUpdate`, `update.cfg` | `TypeOK`, `BootsComplete`, `Propagates` with two further commits and three failures |
| client | `HubConnection`, `client.cfg` | `TypeOK`, `OneLoop`, `OneFeed`, `RefreshOnce`, `StoredTokenGood`, `StaysOut`, `ComesBack` with four acts of the user and three faults |
| stream | `MCSessionStream`, `stream.cfg` | `TypeOK`, `WindowKept`, `FollowsConversation`, `Complete`, `QuestionShown` |
| bounds | `MCBounds`, `bounds.cfg` | `TypeOK`, `RateKept`, `LimiterKeepsPromise`, `EvictsFirst`, `LogReadsBack`, `LogBounded` |
| reconnect, phantom, answer, resync | `MCHubRunner` | one property each that the repository states and the code violates, see below |

**Bounds.** One session: the handlers of different sessions share only the
channels and the connection, so that the interleavings that matter are between
runs, messages and connections of one session. Two runs give every overlap of a
superseded and a current run, three (calm) also an aborted run older than
another aborted one. Two connection ids, reused when both ends let go, give
every overlap of an old and a new connection. `SdkId` has one id more than can
be known at a time in the runs that allow forgetting. `MaxQueue` (messages in
flight per direction) is two or three: `CanUseTool` sends two at once, and two
in flight are enough for a message to overtake a state change at the receiver.
A sender waits for room; the code never does, so a longer queue only adds
longer delays. `MaxPrompt` bounds the prompts of a run, `MaxCommands` the
accepted client messages, `MaxFaults` the disturbances: a failed connect while
the network works, a cut, a restart of either process, a panic. A close that
follows from one of these costs nothing. In `history` there are two machines,
one of them with two connections in a row, two clients and one request: requests
share nothing but the sweeps of closing connections, which the second client and
machine exercise, and the theorems hold for any number.
`safety` reaches 1.7 million distinct states, `calm` 317 thousand, `live` 37
thousand, `history` 140 thousand, `update` 10 thousand, `client` 494 thousand,
`stream` 2.4 million and `bounds` 371 thousand. In `update`, `MaxCommit`
is two, so that main moves once more during an update, and `MaxFailures` three: one
failure each for the poll, the script and the process.

In `client`, two slots for loops are what `OneLoop` allows, one that was cancelled
and one that was not, and three sockets one each for an old reader, the current one
and an attempt. Three pairs of tokens are a login and two refreshes, or two logins.
A step that finds no free slot waits: the code allocates. `MaxActs` lets the user
register, panic, log in and panic again; `MaxFaults` is three lost requests,
connections, launches, expired refresh tokens or panics of another device. In
`stream` the window and the replay hold two entries, so that the third one evicts;
three items are a call with its result and a text around, or a turn of text after a
prompt. Two questions can be open at once, or (`TypedOrAsked` of `MCSessionStream`)
two prompts are typed here or histories asked for, so that a late replay meets a typed
prompt: questions do not touch the entries, and a replay does not touch the question. In `bounds` the capacity is two tokens of three units, refilled by two units
a millisecond, so that tokens and milliseconds do not line up; three conversations
compete for two places, with three seconds to be active in; files of three lines,
two of them kept, are rotated four times. The three parts share nothing, so in a
behaviour only one of them moves. Symmetry is used for safety properties only. `live`
has `FirstNames` instead: of the names of runs, conversations and connections that are
free, which no action tells apart, a step takes the first.
Deadlock is not checked: with its bounds used up the system is at rest.

**Fairness.** In `HubRunner`: each end's event loop runs the handler of an event
that is there; timers fire; a hub that is reached accepts; an SDK query that nobody
holds up names its conversation, yields its result and ends. Node's event loop
justifies the first two, the SDK's `maxTurns` the last. Nothing is assumed of users,
of errors or of disturbances. Nor that the close of a connection is always noticed:
neither end sends pings or keeps a heartbeat, so that one that broke in between
(`dark`) may look open to both for ever. The hub's own close ends after 30 seconds at
most, which is the `ws` library's limit; a process that died closes its sockets. In
`PendingHistory` only the TTL timers are fair:
neither runners nor clients nor the network owe anything. In `SelfUpdate` timers
fire, requests and commands end, and launchd restarts a process whose checkout is
complete (`KeepAlive`); that they end well is not assumed, nor that the hub is ever
deployed. In `HubConnection` neither process hangs: the hub answers what reaches it,
and the app's timers fire and its tasks go on, one weak fairness for each of hub,
app, panic at the hub and panic in the app. The app's is for all of its steps
together, which is weaker than fairness to each task.

**What the properties say.** `NoOrphanRun`: a run that was not aborted is the one
the sessions map names. `WaiterReachable`: a run that waits for the user is one
that `resolvePrompt` finds. `RoutedToListener`: while both ends are up, the
hub's registered connection is the runner's. `ResumesOnRecord`: no step starts
a new conversation for a session that the last resync had on record.
`HonestStatus`: with nothing in flight and no disturbance so far, a session is
shown active exactly while a run works on it, unless it is `astray`: `session_done`
does not say which run is done, so that the late result of a superseded run marks the
row idle while its successor works, and a run that ends without a result leaves it
running. `OneConversation`: undisturbed, all that is known of a session's conversation
is one id, unless it is `split`: a run that is aborted before it is named and yields its
init message after its successor has begun gives the session a second id.
`DeadConnectionDropped`: a registered connection that the runner's end gave up or the
hub is closing does not stay registered; one that went dark does, until the runner's
next connection is accepted. `Settles`: undisturbed, a session leaves "running", unless
the SDK ended its run without a result. `RunsEnd`: a run returns unless it is current and the
user owes it an answer. `EntryAttended`: a pending request has a live asker, a
registered runner and an armed timer. `OneReply`: one reply at most, to the asker.
`KeepsPromise`: the refinement. `Answered`: a reply comes while asker and
machine stay. `BootsComplete`: after an update launchd's next process finds tree and
modules of one commit. It says nothing of a process
that stops for another reason: a script that outlives the updater's stop and is killed
with the process leaves a half-updated checkout behind. `Propagates`: the version that
a runner reports becomes that of a hub that serves main, whatever failed on the way.
That version is the checkout's: after a failed `npm ci` and a restart it is main's
while `node_modules` is an earlier commit's. While the hub serves another commit than
main, the runner reinstalls main and restarts at every poll: it compares versions
for equality and `update.sh` does not use the version it is given.

`RefreshOnce`: a refresh token is exchanged once at most. `StoredTokenGood`: the token
in the keychain is one the hub knows, or its exchange is under way, unless a panic, the
30 days or a lost reply took it. `OneLoop`: at most one loop was not told to stop.
`OneFeed`: at most one reader feeds the app, and "connected" means that it reads the
socket that the app sends to. `StaysOut`: after a logout nothing brings connection or
tokens back. It excepts a logout that began while a request or a connect awaited the
network (`overtaken`), and with reason: the hub's panic closes the app's socket
(4003), the reader's end starts the reconnect loop, and the JWT outlives the panic; a
connect of that loop that is in flight when the reply of the panic arrives is not
stopped by `logout` and commits after it, so that the app is connected with an empty
keychain, which the comment at `HubConnection.swift:143-147` means to exclude.
`ComesBack`: a client that was connected and did not sign out is connected again for
good once the faults are over. It says nothing of a client that has not been connected
since its launch: a first connect that fails on the network throws
(`HubConnection.swift:123`) and nothing schedules another. Nor is a client excused by
a refresh token that was revoked or has expired one that stops: its loop goes on
asking, and is refused each time.

`WindowKept`: the cap holds and the marker counts every entry that is gone.
`FollowsConversation`: no item is shown twice or above an earlier one. It excepts two
replays, which the code does load (`overlaid`). One is loaded over text that is not
flushed yet, as only entries count (`SessionStream.swift:141-150`), so that the text
stands below the replay that holds it, too. The other left the runner with an item that
the runner had not streamed by then: the SDK writes the transcript and yields the
message in no fixed order, and that message then comes after the replay and is shown
again. A replay that is read during a turn, but ahead of nothing, is not excepted; nor
is one that arrives after live entries, a typed prompt or a reconnect. `Complete`: a
device that was connected all along misses no text, call or result but what the cap
evicted; it has no such exception. `QuestionShown`: while a tool waits, a question that
is waited for is on screen. It excepts the two ways in which the code takes one off
unanswered (`masked`): another question replaces it, and is not followed by it when
answered; and the end of a submit clears the question that is shown by then, also one
that came meanwhile. So it covers neither of the two hazards, which are listed without
a property. After a reconnect a stream keeps its holes: nothing asks for what was missed.

`RateKept`: in no stretch of time is a key granted more than a full bucket and what
flows in. `LimiterKeepsPromise`: the refinement. `EvictsFirst`: a save into a full
resume map evicts the conversation that took its place first, as far back as the hub's
seconds tell, and a resync leaves out none that was active later than one it keeps. A
`Map` keeps a key's place when it is set again, so that this is not the least recently
used one; and a save at the limit evicts also when the session has a place already.
`LogReadsBack`: the files, read from the oldest to the newest, hold the lines in order,
once, and without a hole if no call failed. `LogBounded`: files outgrow their limit by a
line for every killed process at most. When the open at the end of a rotation fails,
the line is written twice and every later one is dropped until the process restarts
(`logger.ts:159-176`); when `statSync` fails after an open, the file's size is taken
to be 0 and it outgrows its limit: both properties except what follows.

**Violations.** Four runs show where the code does not do what the repository
says of it:

- `reconnect`: a reconnect attempt that fails is the last one. The close handler
  re-arms its timer only if that very connection had opened (`runner.ts:132`).
- `phantom`: a runner restarts and is accepted before the hub sees the old socket
  close. The old close event then finds another connection registered
  (`hub.ts:552`) and demotes nothing; the dead process's sessions stay active.
- `answer`: prompt ids start at 1 in every run of a session (`runner.ts:293`), so
  an answer to a superseded run's prompt resolves the new run's first prompt.
- `resync`: the resync replaces the resume map (`runner.ts:217`); a conversation
  whose `session_done` was lost with the connection is forgotten. That entries of
  the runner that the hub does not have are dropped is meant so (`runner.ts:204-205`,
  `runner.test.ts:727`: they are taken to be stale); that a session the hub still shows
  loses its conversation is not (`hub.ts:554-556`).

Documents that differ from the code without a run:

- `hub/SPEC.md:42-45` and `DEPLOY.md` say that a disconnect marks sessions `error`; the
  code marks them `idle` (`hub.ts:554-558`), and its tests agree with the code.
- `cli.ts:261-262` says that the cooldown marker is the one `update.sh` writes. `cmdRun`
  looks for it in `runner/` (`cli.ts:178`, `265`), `update.sh` writes it to the
  repository's root (`update.sh:24`): a failing update is run again at every poll.
- `cli.ts:314-315` says that the old process stays up "intact and connected on the OLD
  tree" when an update fails. `update.sh` moves the checkout before `npm ci` and never
  back, so that a failed `npm ci` leaves the old process up on the new tree.
- `cli.ts:317-322` speaks of a WebSocket heartbeat whose window may trip during an
  update. Neither `hub.ts` nor `runner.ts` has one: a connection that breaks without a
  sign is registered until the runner opens another one.
- `HubConnection.swift:143-147`: see `StaysOut` above.

## The proofs

Assumptions: the constants' named `ASSUME`s only (`NoSdk`, `NoRun`, `NoConn`,
`NoLink` are not members of the sets they stand beside, the bounds are naturals,
`MachineOf` is a function). All sets may be of any size.

- `HubRunnerProofs`: `RunnerInv` is the runner's type invariant with
  `NoOrphanRun`, with its converse `EntriesLive` (the map names only executing,
  unaborted runs of the right session) and with "an aborted run holds no prompt".
  None of the three is inductive alone: superseding aborts what the map names, so
  it must be live; the finally block may remove an entry only because the entry
  names the run itself. `WaiterReachable` follows. `Inv` adds the types of wire and
  hub, that a runner with a link has a socket, that an open hub socket is the
  registered one, and that a registered connection has a close event to come.
  `TypeOK` and `RoutedToListener` follow.
- `HubRunnerResyncProofs`: `ReplayInv` says where the resync is: the runner's
  connection has not been accepted yet, or the resync is the only one in the
  channel and ahead of every prompt, or it was read and every session on record
  resolves to a conversation. Every handler keeps what a session resolves to,
  because the finally block saves it before the run's entry goes. The action
  property `ResumesOnRecord` follows.
- `HubRunnerCalmProofs`: `CalmInv`, the invariant of a system that nothing has
  disturbed (`faults = 0`), describes the contents of both channels. `Announced`: the
  status in the row, brought up to date by the last message in flight to the hub that
  sets it, is whether a run works on the session, unless a prompt is in flight to the
  runner. `OneId`: whoever knows a conversation of the session, be it the resume map,
  the row, a run or a `session_done` in flight, knows the one that the next prompt
  would resume. The rest orders the messages: one connection, an empty resync before
  everything else, a row before anybody speaks of it, the start of a session before its
  prompts. `OneConversation` and `HonestStatus` follow. Aborted runs may yield what they
  like: `Announced` is kept for sessions that are not `astray` and `OneId` for those that
  are not `split`. A late result or an early end is what makes a session `astray`, and its
  next run puts the row right again; a late result of a run that has its name leaves
  `OneId` as it is, and a late name is what splits. `SdkId` may be of any size; an id that
  is in use is not given to another run.
- `PendingHistoryProofs`: `HistoryInv` adds to `EntryAttended` and `OneReply` that
  entries are requests as they were made. The refinement is proved action by
  action: an answer or an expiry is a `Reply` or a `Swallow`, a close event a
  `Leave` or `MachineOffline`, the rest stutters.
- `SelfUpdateProofs`: `TypeOK` with `BootsComplete` is inductive: only the script
  moves the checkout, and the process is down only before it or after its last
  command. `TypeOK` here says more than types: nothing is served, fetched, checked
  out, installed or run that was not pushed.
- `HubConnectionProofs`, in layers that each rest on the ones before. `TypeInv` adds to
  the types that a socket belongs to every connect and that what is stored, sent or
  received was issued. `CallsAwaited`: a request is under way only where a flow awaits
  one of its kind, and only `leave` panics. `LoopInv`: every loop but the one that
  `reconnectTask` names was cancelled, or is over; `OneLoop` follows. `FeedInv`: only
  the reader that `messageStreamTask` names reads, which makes `OneFeed` inductive.
  `HeirsInv`: a pair in the hub's table was never exchanged, so that no second exchange
  finds one; `RefreshOnce` follows. `TokenInv`: a pair that was granted and has not
  arrived is neither stored nor sent nor granted to another flow, so that storing it
  cannot lose one; `StoredTokenGood` follows. `OutInv`: from a logout that overtook
  nothing on, nothing is in flight, no loop goes on and nobody reads; `StaysOut` follows.
- `SessionStreamProofs`: `StreamInv`, of which TLC was asked first. `BaseInv` is types,
  `WindowKept` and the order that the runner sends in: `LogOrder`, a result follows its
  call and is the only one; `FeedOrder`, what is in flight was sent, ascends, and stands
  after every replay that holds it. `QuestionKept` says where a waiting question is: in
  flight, shown or answered; `QuestionShown` follows. `ScreenInv` draws a boundary `b`
  through the entries, between what a replay brought and what came live: below it
  (`Follows(b)`) items ascend and are below all that is still to come, and while the
  device was connected (`Accounted(b)`) every item that was sent is in flight, below the
  boundary or evicted before all that are. `Follows(0)` holds too unless a replay was
  loaded over text or was ahead of the stream when it left, and `FollowsConversation` follows; an eviction
  moves `b` up by one. `ResultAfterCall` and `ResultKept`: the result of a call is behind it in flight,
  or will find the call's last entry, or is there; `Complete` follows with `Accounted`.
  Every change of the list is brought to one form, an item at the end and at most one
  entry gone at the head, so that each part is proved once for all handlers. A replay is
  a recursive function; its items are followed one by one from the library's fact that
  the order of the naturals is well founded (`LeastNumber`, `HandedOn`), which takes the
  place of the induction theorem that needs an operator as its parameter.
- `BoundsProofs`, rate limiter: `Balance`, what was granted since the mark and what the bucket
  would hold now are within a full bucket and what has flowed in. It is inductive
  because filling late and sweeping leave `Level`, what a bucket would hold if it were
  looked at, as it is. `RateKept` follows, and the refinement, in which `Level` is the
  abstract bucket.
- `BoundsProofs`, resume map: `Ordered`, the keys stand in the order of `inserted`, which a resync
  establishes, because the listing is sorted and inserted in reverse, and a save keeps.
  `AppliedMostRecent`: what the limit cuts off the listing is its least recent end. The
  action property `EvictsFirst` follows.
- `BoundsProofs`, log files: `LogInv`. While no line was written twice, the lines of all
  files from the oldest to the newest are in order. While the process is not damaged (a
  failed open), what it counted is what the file holds; no line is missing between the
  first line of the last file and the newest line; and file `i` starts at least
  `i` full files before the current one, one fewer for every mishap. The last says
  where a line is that no file lost, without counting files: `LogReadsBack` and
  `LogBounded` follow. `PartsRun`, that a behaviour of `MCBounds` is one of each part,
  carries the theorems to the specification that the run checks.

Every safety and action property that a passing run checks is proved. Model-checked
only: the liveness properties (`DeadConnectionDropped`, `Settles`, `RunsEnd`,
`Answered`, `Propagates`, `ComesBack`), which TLAPS cannot prove here.
`RegisteredWillClose` is the safety half of the first, `EntryAttended` of `Answered`.

## Not modelled

- The command line and the configuration files of runner and hub, REST views, health
  and debug routes, migrations, metrics: straight-line I/O, or values that no other
  part reads.
- SwiftUI views but for the submit of an answer; the test harness and the shadow
  client, which are no part of the product.
- Build, install and release scripts. Restarts and late deploys are in `HubRunner` and
  `SelfUpdate`.
- In the client: the lists of sessions and machines, which each message replaces, with
  archiving and filtering; the flush by a change of status; a prompt that supersedes a
  turn in `SessionStream` (it is in `HubRunner`); several requests of history at once.
- The text of messages and previews, hashing, signing, and the length of delays.

## What could follow

1. `SessionStream` with prompts that supersede a turn and two requests of history.
2. The safety halves of more liveness properties: that whatever `Settles`, `ComesBack`
   and `Propagates` wait for is under way in every state in which they are not met.
