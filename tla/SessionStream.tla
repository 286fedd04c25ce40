---------------------------- MODULE SessionStream ----------------------------
(***************************************************************************)
(* How one device follows one session (CCApp/SessionStream.swift,          *)
(* AppState.swift and the submit of UserPromptView.swift): the entries on  *)
(* the screen, filled by messages that the runner streams through the hub, *)
(* by the user's own prompts and by one replay of the history.             *)
(* The conversation is a sequence of items, and an item is its number in   *)
(* it.  Hub and runner are reduced to the order in which they send.        *)
(***************************************************************************)
EXTENDS Naturals, Sequences

CONSTANTS MaxEntries,    \* SessionStream.maxEntries (500)
          HistoryLimit,  \* the limit of getSessionMessages (100)
          MaxItems,      \* bound on the conversation
          MaxPrompts,    \* bound on the questions asked of the user
          MaxTyped,      \* bound on prompts typed here, and on requests of history
          MaxFaults      \* bound on lost connections and failed requests

ASSUME MaxEntriesPos == MaxEntries \in Nat \ {0}
ASSUME HistoryLimitPos == HistoryLimit \in Nat \ {0}
ASSUME BoundsNat == {MaxItems, MaxPrompts, MaxTyped, MaxFaults} \subseteq Nat

VARIABLES
  log,        \* the conversation, as the SDK conducts it
  written,    \* how many items are in the transcript that history reads
  sent,       \* how many items the runner has yielded, or need not yield
  running,    \* a turn is in progress
  asked,      \* promptCounter
  waiting,    \* prompts whose tools wait for an answer
  request,    \* the request of history that is under way
  feed,       \* messages from the hub that the device has not handled
  outbox,     \* prompts typed here that the runner has not got
  answers,    \* questions that wait, with an answer on its way from here
  connected,
  entries,    \* SessionStream.entries
  pending,    \* SessionStream.pendingText, as the items that it consists of
  shown,      \* SessionStream.pendingPrompt, or 0
  submit,     \* the prompt whose answer is being sent, or 0
  typed, faults,
  appended,   \* how many entries were appended (for properties, as the rest)
  overlaid,   \* history was loaded over text, or was ahead of what was yielded
  intact,     \* the device was connected ever since the conversation began
  masked      \* a question was taken off the screen without its answer

runnerVars == <<log, written, sent, running, asked, waiting>>
streamVars == <<entries, pending, shown, appended>>
vars == <<runnerVars, streamVars, request, feed, outbox, answers, connected, submit,
          typed, faults, overlaid, intact, masked>>

Item == 1..MaxItems
Prompt == 1..MaxPrompts

\* `of' is the call that a result belongs to, for the others the item itself.
LogItem == [kind : {"user", "text", "call", "result"}, of : Item]

\* items: what the entry shows; result: a call shows its result;
\* dropped: the count of an eviction marker.
Entry == [kind : {"user", "text", "call", "orphan", "response", "error", "unavailable", "marker"},
          items : Seq(Item), result : BOOLEAN, dropped : Nat]

NewEntry(kind, items) == [kind |-> kind, items |-> items, result |-> FALSE, dropped |-> 0]

NoRequest == [at |-> "none", from |-> 1, to |-> 0]

\* ahead (for properties): the history has an item that was not yielded before it.
Message == [type : {"text", "call", "result", "prompt", "done", "error"}, n : Nat]
             \cup [type : {"history"}, from : Nat, to : Nat, ahead : BOOLEAN, error : BOOLEAN]

TypeOK ==
  /\ log \in Seq(LogItem) /\ Len(log) <= MaxItems
  /\ written \in 0..Len(log)
  /\ sent \in 0..Len(log)
  /\ running \in BOOLEAN
  /\ asked \in 0..MaxPrompts
  /\ waiting \subseteq 1..asked
  /\ request \in [at : {"none", "sent", "read"}, from : Nat, to : Nat]
  /\ feed \in Seq(Message)
  /\ outbox \in 0..MaxTyped
  /\ answers \subseteq 1..asked
  /\ connected \in BOOLEAN
  /\ entries \in Seq(Entry)
  /\ pending \in Seq(Item)
  /\ shown \in 0..asked
  /\ submit \in 0..asked
  /\ typed \in 0..MaxTyped
  /\ faults \in 0..MaxFaults
  /\ appended \in Nat
  /\ {overlaid, intact, masked} \subseteq BOOLEAN

Init ==
  /\ log = <<>>
  /\ written = 0
  /\ sent = 0
  /\ running = FALSE
  /\ asked = 0
  /\ waiting = {}
  /\ request = NoRequest
  /\ feed = <<>>
  /\ outbox = 0
  /\ answers = {}
  /\ connected = TRUE
  /\ entries = <<>>
  /\ pending = <<>>
  /\ shown = 0
  /\ submit = 0
  /\ typed = 0
  /\ faults = 0
  /\ appended = 0
  /\ overlaid = FALSE
  /\ intact = TRUE
  /\ masked = FALSE

Fault == faults < MaxFaults /\ faults' = faults + 1

-----------------------------------------------------------------------------
(* What is done to the entries: operators on sequences of entries.         *)

HasMarker(es) == es # <<>> /\ Head(es).kind = "marker"

\* A bug: the marker counts as an entry.
AppendCountingMarker(es, e) ==
  LET all == Append(es, e)
      before == IF HasMarker(es) THEN Head(es).dropped ELSE 0
      overflow == Len(all) - MaxEntries
      marker == [NewEntry("marker", <<>>) EXCEPT !.dropped = before + overflow]
  IN  IF overflow > 0 THEN <<marker>> \o SubSeq(all, overflow + 1, Len(all)) ELSE all

\* appendEntry, with recordDropped: one marker at the head counts them all and
\* is not counted itself.
AppendEntry(es, e) ==
  LET real == Append(IF HasMarker(es) THEN Tail(es) ELSE es, e)
      before == IF HasMarker(es) THEN Head(es).dropped ELSE 0
      overflow == Len(real) - MaxEntries
      marker == [NewEntry("marker", <<>>) EXCEPT !.dropped = before + overflow]
  IN  IF overflow > 0 THEN <<marker>> \o SubSeq(real, overflow + 1, Len(real))
                      ELSE Append(es, e)

\* A roll is a list of entries with the number that were ever appended to it.
Roll == [list |-> entries, count |-> appended]

Becomes(roll) == entries' = roll.list /\ appended' = roll.count

Added(roll, e) == [list |-> AppendEntry(roll.list, e), count |-> roll.count + 1]

\* addToolResult looks for the last entry of a call.
IsCall(e, n) == e.kind \in {"call", "orphan"} /\ e.items = <<n>>

HasCall(es, n) == \E i \in 1..Len(es) : IsCall(es[i], n)

LastCall(es, i, n) == IsCall(es[i], n) /\ \A j \in i + 1..Len(es) : ~IsCall(es[j], n)

\* No entry, no result.
WithResult(es, n) ==
  [i \in 1..Len(es) |-> [es[i] EXCEPT !.result = @ \/ LastCall(es, i, n)]]

\* One item of a replay; a result whose call is not there is shown as an
\* unknown tool.
Replayed(roll, n) ==
  LET item == log[n] IN
  IF item.kind # "result" THEN Added(roll, NewEntry(item.kind, <<n>>))
  ELSE IF HasCall(roll.list, item.of)
         THEN [list |-> WithResult(roll.list, item.of), count |-> roll.count]
         ELSE Added(roll, [NewEntry("orphan", <<item.of>>) EXCEPT !.result = TRUE])

\* The roll after the items from..to, one by one.
Replay(from, to) ==
  LET after[n \in from - 1..to] ==
        IF n = from - 1 THEN Roll ELSE Replayed(after[n - 1], n)
  IN  after[to]

\* flushPendingText.
Flushed == IF pending = <<>> THEN Roll ELSE Added(Roll, NewEntry("text", pending))

Flush == Becomes(Flushed) /\ pending' = <<>>

FlushAndAdd(e) == Becomes(Added(Flushed, e)) /\ pending' = <<>>

-----------------------------------------------------------------------------
(* The runner and the SDK.                                                 *)

\* What the device cannot influence at once.
DeviceIdle == UNCHANGED <<streamVars, submit, typed, overlaid, masked>>

Send(m) == feed' = IF connected THEN Append(feed, m) ELSE feed

\* A prompt of this device, or of another one, starts a turn; it is never yielded.
\* (One that arrives during a turn supersedes it: that is HubRunner's.)
TurnStarts ==
  /\ ~running
  /\ written + 1 >= Len(log)
  /\ Len(log) < MaxItems
  /\ outbox' \in {outbox} \cup (IF outbox > 0 THEN {outbox - 1} ELSE {})
  /\ running' = TRUE
  /\ log' = Append(log, [kind |-> "user", of |-> Len(log) + 1])
  /\ sent' = sent + 1
  /\ UNCHANGED <<written, asked, waiting, request, feed, answers, connected,
                 faults, intact>>
  /\ DeviceIdle

\* Claude speaks, calls a tool, or gets a result.  What the SDK yields and what it
\* writes is at most one item behind, in any order.
Converses ==
  /\ running
  /\ sent = Len(log) /\ written + 1 >= Len(log)
  /\ Len(log) < MaxItems
  /\ \/ \E k \in {"text", "call"} :
          log' = Append(log, [kind |-> k, of |-> Len(log) + 1])
     \/ \E c \in 1..Len(log) :
          /\ log[c].kind = "call"
          /\ \A r \in 1..Len(log) : log[r].kind = "result" => log[r].of # c
          /\ log' = Append(log, [kind |-> "result", of |-> c])
  /\ UNCHANGED <<written, sent, running, asked, waiting, request, feed, outbox,
                 answers, connected, faults, intact>>
  /\ DeviceIdle

\* The SDK writes the transcript: nothing orders that with what it yields.
Writes ==
  /\ written < Len(log)
  /\ written' = written + 1
  /\ UNCHANGED <<log, sent, running, asked, waiting, request, feed, outbox, answers,
                 connected, faults, intact>>
  /\ DeviceIdle

\* processStreamMessage; the hub relays to the devices that are connected.
Yields ==
  LET item == log[sent + 1] IN
  /\ sent < Len(log)
  /\ sent' = sent + 1
  /\ Send([type |-> item.kind, n |-> item.of])
  /\ UNCHANGED <<log, written, running, asked, waiting, request, outbox, answers,
                 connected, faults, intact>>
  /\ DeviceIdle

\* A bug: the counter is not advanced.
AsksUncounted ==
  /\ running
  /\ asked < MaxPrompts
  /\ waiting' = waiting \cup {asked + 1}
  /\ Send([type |-> "prompt", n |-> asked + 1])
  /\ UNCHANGED <<log, written, sent, running, asked, request, outbox, answers, connected,
                 faults, intact>>
  /\ DeviceIdle

\* canUseTool: several tools may ask at once.
Asks ==
  /\ running
  /\ asked < MaxPrompts
  /\ asked' = asked + 1
  /\ waiting' = waiting \cup {asked + 1}
  /\ Send([type |-> "prompt", n |-> asked + 1])
  /\ UNCHANGED <<log, written, sent, running, request, outbox, answers, connected,
                 faults, intact>>
  /\ DeviceIdle

\* resolvePrompt, with an answer from here or from another device.  One that
\* nobody waits for is dropped: as no number is used twice, it is not followed.
GetsAnswer(p) ==
  /\ p \in waiting
  /\ waiting' = waiting \ {p}
  /\ answers' = answers \ {p}
  /\ UNCHANGED <<log, written, sent, running, asked, request, feed, outbox, connected,
                 faults, intact>>
  /\ DeviceIdle

\* session_done, or session_error.
TurnEnds ==
  /\ running
  /\ sent = Len(log)
  /\ waiting = {}
  /\ running' = FALSE
  /\ \E t \in {"done", "error"} : Send([type |-> t, n |-> 0])
  /\ UNCHANGED <<log, written, sent, asked, waiting, request, outbox, answers,
                 connected, faults, intact>>
  /\ DeviceIdle

\* getHistory: the items that getSessionMessages reads, the first or the last
\* ones if there are more than its limit.
ReadsHistory ==
  /\ request.at = "sent"
  /\ \E from \in {1, written + 1 - HistoryLimit} :
       /\ from >= 1
       /\ request' = [at |-> "read", from |-> from,
                      to |-> IF written < from + HistoryLimit THEN written
                             ELSE from + HistoryLimit - 1]
  /\ UNCHANGED <<runnerVars, feed, outbox, answers, connected, faults, intact>>
  /\ DeviceIdle

\* The reply, or an error of runner or hub.
RepliesHistory ==
  /\ request.at # "none"
  /\ \/ /\ request.at = "read"
        /\ Send([type |-> "history", from |-> request.from, to |-> request.to,
                 ahead |-> request.to > sent, error |-> FALSE])
        /\ UNCHANGED faults
     \/ /\ Send([type |-> "history", from |-> 1, to |-> 0, ahead |-> FALSE, error |-> TRUE])
        /\ Fault
  /\ request' = NoRequest
  /\ UNCHANGED <<runnerVars, outbox, answers, connected, intact>>
  /\ DeviceIdle

-----------------------------------------------------------------------------
(* The device: AppState.handleMessage.                                     *)

Handle(type) ==
  /\ feed # <<>>
  /\ Head(feed).type = type
  /\ feed' = Tail(feed)
  /\ UNCHANGED <<runnerVars, request, outbox, answers, connected, submit, typed,
                 faults, intact>>

HandleText ==
  /\ Handle("text")
  /\ pending' = Append(pending, Head(feed).n)
  /\ UNCHANGED <<entries, shown, appended, overlaid, masked>>

HandleCall ==
  /\ Handle("call")
  /\ FlushAndAdd(NewEntry("call", <<Head(feed).n>>))
  /\ UNCHANGED <<shown, overlaid, masked>>

HandleResult ==
  /\ Handle("result")
  /\ entries' = WithResult(entries, Head(feed).n)
  /\ UNCHANGED <<pending, shown, appended, overlaid, masked>>

\* A bug: the first question stays until it is answered here.
HandlePromptOnce ==
  /\ Handle("prompt")
  /\ Flush
  /\ shown' = IF shown = 0 THEN Head(feed).n ELSE shown
  /\ UNCHANGED <<overlaid, masked>>

\* setPendingPrompt: there is room for one.
HandlePrompt ==
  /\ Handle("prompt")
  /\ Flush
  /\ shown' = Head(feed).n
  /\ masked' = (masked \/ shown \in waiting)
  /\ UNCHANGED overlaid

HandleEnd ==
  /\ \/ Handle("done") /\ Flush
     \/ Handle("error") /\ FlushAndAdd(NewEntry("error", <<>>))
  /\ UNCHANGED <<shown, overlaid, masked>>

\* A bug: a replay is loaded whatever is there already.
HandleHistoryAlways ==
  /\ Handle("history")
  /\ IF Head(feed).error
       THEN /\ Becomes(Added(Roll, NewEntry("unavailable", <<>>)))
            /\ UNCHANGED overlaid
       ELSE /\ Becomes(Replay(Head(feed).from, Head(feed).to))
            /\ overlaid' = (overlaid \/ Head(feed).ahead \/ pending # <<>>)
  /\ UNCHANGED <<pending, shown, masked>>

\* A bug: a replay that is loaded takes the place of the text.
HandleHistoryForText ==
  /\ Handle("history")
  /\ IF ~Head(feed).error /\ entries = <<>>
       THEN Becomes(Replay(Head(feed).from, Head(feed).to)) /\ pending' = <<>>
       ELSE UNCHANGED <<entries, appended, pending>>
  /\ UNCHANGED <<overlaid, shown, masked>>

\* loadHistory: only into an empty list; pending text is not looked at.
HandleHistory ==
  LET m == Head(feed) IN
  /\ Handle("history")
  /\ \/ /\ m.error
        /\ Becomes(Added(Roll, NewEntry("unavailable", <<>>)))
        /\ UNCHANGED overlaid
     \/ /\ ~m.error
        /\ entries = <<>>
        /\ Becomes(Replay(m.from, m.to))
        /\ overlaid' = (overlaid \/ m.ahead \/ pending # <<>>)
     \/ /\ ~m.error
        /\ entries # <<>>
        /\ UNCHANGED <<entries, appended, overlaid>>
  /\ UNCHANGED <<pending, shown, masked>>

-----------------------------------------------------------------------------
(* The user, and the connection.                                           *)

\* The session is selected: ensureStreamAndLoadHistory.  Without a connection
\* the request is an error that is only shown.
Selects ==
  /\ entries = <<>>
  /\ connected
  /\ request = NoRequest
  /\ typed < MaxTyped
  /\ typed' = typed + 1
  /\ request' = [NoRequest EXCEPT !.at = "sent"]
  /\ UNCHANGED <<runnerVars, streamVars, feed, outbox, answers, connected, submit,
                 faults, overlaid, intact, masked>>

\* AppState.sendPrompt: the entry comes first, then the message.
Types ==
  /\ typed < MaxTyped
  /\ typed' = typed + 1
  /\ FlushAndAdd(NewEntry("user", <<>>))
  /\ outbox' = IF connected THEN outbox + 1 ELSE outbox
  /\ UNCHANGED <<runnerVars, shown, request, feed, answers, connected, submit, faults,
                 overlaid, intact, masked>>

\* submit: a button of the prompt that is shown, then an await.
Submits ==
  /\ shown # 0
  /\ submit = 0
  /\ connected
  /\ submit' = shown
  /\ answers' = answers \cup ({shown} \cap waiting)
  /\ UNCHANGED <<runnerVars, streamVars, request, feed, outbox, connected, typed,
                 faults, overlaid, intact, masked>>

\* clearPendingPrompt, whatever is shown by now; the text is not flushed.
SubmitReturns ==
  /\ submit # 0
  /\ submit' = 0
  /\ shown' = 0
  /\ Becomes(Added(Roll, NewEntry("response", <<>>)))
  /\ masked' = (masked \/ (shown # submit /\ shown \in waiting))
  /\ UNCHANGED <<runnerVars, pending, request, feed, outbox, answers, connected,
                 typed, faults, overlaid, intact>>

\* What is under way in either direction is lost, or partly.  A failed send
\* leaves the prompt on the screen.
Disconnects ==
  /\ connected
  /\ connected' = FALSE
  /\ Fault
  /\ intact' = FALSE
  /\ feed' = <<>>
  /\ request' = NoRequest
  /\ \E n \in 0..outbox : outbox' = n
  /\ \E A \in SUBSET answers : answers' = A
  /\ submit' \in {submit, 0}
  /\ UNCHANGED <<runnerVars, streamVars, typed, overlaid, masked>>

\* The stream is kept and nothing that it missed is asked for.
Connects ==
  /\ ~connected
  /\ connected' = TRUE
  /\ UNCHANGED <<runnerVars, streamVars, request, feed, outbox, answers, submit, typed,
                 faults, overlaid, intact, masked>>

Next ==
  \/ TurnStarts \/ Converses \/ Writes \/ Yields \/ Asks \/ TurnEnds
  \/ \E p \in Prompt : GetsAnswer(p)
  \/ ReadsHistory \/ RepliesHistory
  \/ HandleText \/ HandleCall \/ HandleResult \/ HandlePrompt \/ HandleEnd
  \/ HandleHistory
  \/ Selects \/ Types \/ Submits \/ SubmitReturns
  \/ Disconnects \/ Connects

Spec == Init /\ [][Next]_vars

-----------------------------------------------------------------------------
(* Properties.                                                             *)

Window(es, count) ==
  /\ \A i \in 2..Len(es) : es[i].kind # "marker"
  /\ IF HasMarker(es)
       THEN /\ Len(es) = MaxEntries + 1
            /\ es[1].dropped + MaxEntries = count
       ELSE /\ Len(es) <= MaxEntries
            /\ Len(es) = count

\* Whatever order entries arrive in, alone or by the replay of a history, the
\* list stays within its cap, and the one marker at its head accounts for every
\* entry that is no longer there (appendEntry, recordDropped).
WindowKept == Window(entries, appended)

\* What is on the screen: the entries, and the pending text below them.
Screen == Append(entries, NewEntry("text", pending))

\* The items that an entry shows; an orphan stands for a result only, a marker for
\* what is gone.
Seen(e) == IF e.kind \in {"orphan", "marker"} THEN <<>> ELSE e.items

\* Every item shown from entry b + 1 on is above the later ones.
Ascends(es, b) ==
  \A i, j \in b + 1..Len(es) :
    \A k \in 1..Len(Seen(es[i])), l \in 1..Len(Seen(es[j])) :
      i < j \/ (i = j /\ k < l) => Seen(es[i])[k] < Seen(es[j])[l]

\* The screen follows the conversation: no item is shown twice and none above an
\* earlier one, also when a reconnect made holes, a turn ran while the history was
\* read, or the replay came late (loadHistory: "dropped to avoid duplication and
\* reordering") -- unless the replay was loaded over text that was not flushed, or
\* the transcript was ahead of the runner's messages when the reply left: nothing
\* orders the two.
FollowsConversation == ~overlaid => Ascends(Screen, 0)

ShownBy(e, n) == \E k \in 1..Len(Seen(e)) : Seen(e)[k] = n

Shows(n) == \E i \in 1..Len(Screen) : ShownBy(Screen[i], n)

Drained == feed = <<>> /\ sent = Len(log)

\* A device that was connected all along misses nothing: once it has handled what
\* it was sent, every text and call is on the screen, or was evicted before all
\* that are, and a call there (its last entry, if a replay repeated it) shows its
\* result if it has one.
Complete ==
  intact /\ Drained =>
    /\ \A n \in 1..Len(log) : log[n].kind \in {"text", "call"} =>
         Shows(n) \/ (HasMarker(entries) /\ \A m \in 1..(n - 1) : ~Shows(m))
    /\ \A r \in 1..Len(log) :
         log[r].kind = "result" =>
           \A i \in 1..Len(entries) :
             LastCall(entries, i, log[r].of) => entries[i].result

\* A question that a tool waits for is on the screen of a device that was connected
\* all along, unless another question took its place before it was answered, or the
\* end of a submit took that other one away (setPendingPrompt, clearPendingPrompt).
QuestionShown ==
  intact /\ ~masked /\ Drained /\ submit = 0 /\ waiting \ answers # {} =>
    shown \in waiting
=============================================================================
