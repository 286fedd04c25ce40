------------------------ MODULE PendingHistoryProofs ------------------------
(***************************************************************************)
(* Theorems about PendingHistory, for every set of clients, machines,      *)
(* runner connections and requests: its invariants, and that it implements *)
(* HistoryPromise.                                                         *)
(***************************************************************************)
EXTENDS PendingHistory, SequenceTheorems, TLAPS

\* An entry says what the request said.
EntriesMade ==
  \A r \in DOMAIN entries : r \in DOMAIN made /\ entries[r] = made[r]

HistoryInv ==
  /\ TypeOK
  /\ EntryAttended
  /\ EntriesMade
  /\ OneReply

-----------------------------------------------------------------------------
\* The store's operations.

\* Removing requests from the store removes those and changes no other.
LEMMA WithoutFacts ==
  ASSUME NEW rs
  PROVE  /\ DOMAIN Without(rs) = DOMAIN entries \ rs
         /\ \A r \in DOMAIN entries \ rs : Without(rs)[r] = entries[r]
BY DEF Without

\* Whatever is dropped, the entries that stay are as before.
LEMMA DropKeepsTypes ==
  ASSUME TypeOK, NEW rs, DropMatching(rs)
  PROVE  /\ DOMAIN entries' \subseteq Req
         /\ entries' \in [DOMAIN entries' -> Request]
         /\ timers' \subseteq Req
BY WithoutFacts DEF TypeOK, DropMatching, Without

\* A reply is appended to the asker's replies, or is not sent.
LEMMA ReplyType ==
  ASSUME TypeOK, NEW r \in Req, NEW c \in Client, ReplyTo(r, c)
  PROVE  replies' \in [Req -> Seq(Client)]
<1>1. Append(replies[r], c) \in Seq(Client)
  BY AppendProperties DEF TypeOK
<1> QED
  BY <1>1 DEF ReplyTo, TypeOK

-----------------------------------------------------------------------------
\* One step per action: what it does to the types.

\* Every action writes values of the variables' types.
LEMMA TypeNext ==
  ASSUME TypeOK, Next
  PROVE  TypeOK'
<1> USE DEF WsState, Handling
<1>1. ASSUME NEW c \in Client, ClientConnects(c) PROVE TypeOK'
  BY <1>1 DEF ClientConnects, runnerState, TypeOK
<1>2. ASSUME NEW c \in Client, ClientCloses(c) PROVE TypeOK'
  <2>1. clientWs' \in [Client -> WsState]
    BY <1>2 DEF ClientCloses, TypeOK
  <2> QED
    BY <1>2, <2>1, DropKeepsTypes DEF ClientCloses, runnerState, TypeOK
<1>3. ASSUME NEW c \in Client, NEW m \in Machine, NEW r \in Req, GetHistory(c, m, r)
      PROVE  TypeOK'
  <2> DEFINE e == [conn |-> c, machine |-> m]
  <2>1. e \in Request
    BY DEF Request
  <2>2. /\ entries' = With(entries, r, e)
        /\ made' = With(made, r, e)
        /\ timers' = timers \cup {r}
        /\ asked' \subseteq asked \cup {<<runners[m], r>>}
        /\ runners[m] \in Link
    BY <1>3 DEF GetHistory, Add, TypeOK
  <2> HIDE DEF e
  <2>3. DOMAIN entries' \subseteq Req /\ entries' \in [DOMAIN entries' -> Request]
    BY <2>1, <2>2 DEF With, TypeOK
  <2>4. DOMAIN made' \subseteq Req /\ made' \in [DOMAIN made' -> Request]
    BY <2>1, <2>2 DEF With, TypeOK
  <2>5. asked' \subseteq Link \X Req
    BY <2>2 DEF TypeOK
  <2> QED
    BY <1>3, <2>2, <2>3, <2>4, <2>5 DEF GetHistory, TypeOK
<1>4. ASSUME NEW r \in Req, Expire(r) PROVE TypeOK'
  <2>1. CASE r \in DOMAIN entries
    <3>1. entries[r].conn \in Client
      BY <2>1 DEF TypeOK, Request
    <3>2. replies' \in [Req -> Seq(Client)]
      BY <1>4, <2>1, <3>1, ReplyType DEF Expire
    <3>3. DOMAIN entries' \subseteq Req /\ entries' \in [DOMAIN entries' -> Request]
      BY <1>4, <2>1 DEF Expire, Without, TypeOK
    <3> QED
      BY <1>4, <3>2, <3>3 DEF Expire, runnerState, TypeOK
  <2>2. CASE r \notin DOMAIN entries
    BY <1>4, <2>2 DEF Expire, runnerState, TypeOK
  <2> QED
    BY <2>1, <2>2
<1>5. ASSUME NEW l \in Link, AcceptRunner(l) PROVE TypeOK'
  <2>1. MachineOf[l] \in Machine
    BY MachineOfType
  <2>2. linkWs' \in [Link -> WsState]
    BY <1>5 DEF AcceptRunner, TypeOK
  <2> QED
    BY <1>5, <2>1, <2>2 DEF AcceptRunner, runnerState, TypeOK
<1>6. ASSUME NEW l \in Link, LinkCloses(l) PROVE TypeOK'
  <2>1. MachineOf[l] \in Machine
    BY MachineOfType
  <2>2. linkWs' \in [Link -> WsState] /\ answers' \subseteq Link \X Req
    BY <1>6 DEF LinkCloses, TypeOK
  <2>3. CASE runners[MachineOf[l]] = l
    BY <1>6, <2>1, <2>2, <2>3, DropKeepsTypes DEF LinkCloses, TypeOK
  <2>4. CASE runners[MachineOf[l]] # l
    BY <1>6, <2>2, <2>4 DEF LinkCloses, TypeOK
  <2> QED
    BY <2>3, <2>4
<1>7. ASSUME NEW l \in Link, RunnerOpens(l) PROVE TypeOK'
  BY <1>7, MachineOfType DEF RunnerOpens, hubState, TypeOK
<1>8. ASSUME NEW l \in Link, Lose(l)
      PROVE  /\ lost' \subseteq Link
             /\ socket' \in [Machine -> Link \cup {NoLink}]
             /\ asked' \subseteq Link \X Req
             /\ answers' \subseteq Link \X Req
  BY <1>8 DEF Lose, TypeOK
<1>9. ASSUME NEW l \in Link, RunnerLoses(l) PROVE TypeOK'
  BY <1>8, <1>9 DEF RunnerLoses, hubState, TypeOK
<1>10. ASSUME NEW l \in Link, NEW r \in Req, ReceiveAnswer(l, r) PROVE TypeOK'
  <2>1. answers' \subseteq Link \X Req
    BY <1>10 DEF ReceiveAnswer, TypeOK
  <2>2. CASE r \in DOMAIN entries /\ entries[r].machine = MachineOf[l]
    <3>1. entries[r].conn \in Client
      BY <2>2 DEF TypeOK, Request
    <3>2. replies' \in [Req -> Seq(Client)]
      BY <1>10, <2>2, <3>1, ReplyType DEF ReceiveAnswer
    <3>3. DOMAIN entries' \subseteq Req /\ entries' \in [DOMAIN entries' -> Request]
      BY <1>10, <2>2 DEF ReceiveAnswer, Take, Without, TypeOK
    <3>4. timers' \subseteq Req
      BY <1>10, <2>2 DEF ReceiveAnswer, Take, TypeOK
    <3> QED
      BY <1>10, <2>1, <3>2, <3>3, <3>4 DEF ReceiveAnswer, TypeOK
  <2>3. CASE ~(r \in DOMAIN entries /\ entries[r].machine = MachineOf[l])
    BY <1>10, <2>1, <2>3 DEF ReceiveAnswer, TypeOK
  <2> QED
    BY <2>2, <2>3
<1>11. ASSUME NEW l \in Link, NEW r \in Req, RunnerFetches(l, r) PROVE TypeOK'
  <2>1. fetching' \subseteq Machine \X Req
    BY <1>11, MachineOfType DEF RunnerFetches, TypeOK
  <2> QED
    BY <1>11, <2>1 DEF RunnerFetches, hubState, TypeOK
<1>12. ASSUME NEW m \in Machine, NEW r \in Req, RunnerAnswers(m, r) PROVE TypeOK'
  <2>1. answers' \subseteq Link \X Req
    BY <1>12 DEF RunnerAnswers, TypeOK
  <2> QED
    BY <1>12, <2>1 DEF RunnerAnswers, hubState, TypeOK
<1>13. ASSUME NEW m \in Machine, RestartRunner(m) PROVE TypeOK'
  <2>1. socket[m] \in Link /\ Lose(socket[m])
    BY <1>13 DEF RestartRunner, TypeOK
  <2> QED
    BY <1>8, <1>13, <2>1 DEF RestartRunner, hubState, TypeOK
<1>14. ASSUME CloseAll
       PROVE  clientWs' \in [Client -> WsState] /\ linkWs' \in [Link -> WsState]
  BY <1>14 DEF CloseAll, TypeOK
<1>15. CASE PanicAccount
  BY <1>14, <1>15 DEF PanicAccount, runnerState, TypeOK
<1>16. CASE Stop
  BY <1>14, <1>16, DropKeepsTypes DEF Stop, runnerState, TypeOK
<1> QED
  BY <1>1, <1>2, <1>3, <1>4, <1>5, <1>6, <1>7, <1>9, <1>10, <1>11, <1>12, <1>13, <1>15,
     <1>16 DEF Next

-----------------------------------------------------------------------------
\* The asker of a request, and whether it is still pending.
Asker(r) == made[r].conn

\* The request r is over: its entry and its timer go, its asker is sent a
\* reply if it can be sent one.  Both a runner's answer and the timer do this.
Finish(r) ==
  /\ r \in DOMAIN entries
  /\ entries' = Without({r})
  /\ timers' = timers \ {r}
  /\ ReplyTo(r, entries[r].conn)
  /\ UNCHANGED <<clientWs, runners, linkWs, made, stopped>>

\* Every step either finishes one request or leaves all replies alone.
LEMMA ExpireFinishes ==
  ASSUME NEW r \in Req, Expire(r)
  PROVE  Finish(r) \/ (r \notin DOMAIN entries /\ timers' = timers \ {r} /\
                       UNCHANGED <<entries, replies, clientWs, runners, linkWs, made, stopped>>)
BY DEF Expire, Finish

\* An answer finishes its request, or it is ignored.
LEMMA AnswerFinishes ==
  ASSUME NEW l \in Link, NEW r \in Req, ReceiveAnswer(l, r)
  PROVE  Finish(r) \/ UNCHANGED hubState
BY DEF ReceiveAnswer, Take, Finish, hubState

\* Finishing a request keeps all the others attended.
LEMMA FinishKeeps ==
  ASSUME HistoryInv, NEW r \in Req, Finish(r)
  PROVE  (EntryAttended /\ EntriesMade /\ OneReply)'
<1> USE DEF HistoryInv
<1>1. /\ DOMAIN entries' = DOMAIN entries \ {r}
      /\ \A q \in DOMAIN entries' : entries'[q] = entries[q]
  BY WithoutFacts DEF Finish
<1>2. EntryAttended'
  BY <1>1 DEF Finish, EntryAttended
<1>3. EntriesMade'
  BY <1>1 DEF Finish, EntriesMade
<1>4. /\ replies[r] = << >>
      /\ r \in DOMAIN made
      /\ entries[r].conn = made[r].conn
  BY DEF Finish, OneReply, EntriesMade
<1>5. \A q \in Req : replies'[q] = replies[q] \/ (q = r /\ replies'[q] = <<made[r].conn>>)
  BY <1>4 DEF Finish, ReplyTo, TypeOK
<1>6. OneReply'
  BY <1>1, <1>4, <1>5 DEF Finish, OneReply
<1> QED
  BY <1>2, <1>3, <1>6

\* A step that only drops entries, of closed askers and of machines that went
\* offline at least, keeps the rest attended.
LEMMA DropKeeps ==
  ASSUME HistoryInv, NEW rs, DropMatching(rs), UNCHANGED <<made, replies>>,
         \A r \in DOMAIN entries \ rs : /\ clientWs'[entries[r].conn] \in Handling
                                        /\ runners'[entries[r].machine] # NoLink
  PROVE  (EntryAttended /\ EntriesMade /\ OneReply)'
<1> USE DEF HistoryInv
<1>1. /\ DOMAIN entries' = DOMAIN entries \ rs
      /\ \A q \in DOMAIN entries' : entries'[q] = entries[q]
  BY WithoutFacts DEF DropMatching
<1>2. EntryAttended'
  BY <1>1 DEF DropMatching, EntryAttended
<1>3. EntriesMade' /\ OneReply'
  BY <1>1 DEF EntriesMade, OneReply
<1> QED
  BY <1>2, <1>3

\* A step that leaves the entries alone, closes no asker's socket for good and
\* unregisters no machine.
LEMMA AttendedKeeps ==
  ASSUME HistoryInv, UNCHANGED <<entries, timers, made, replies>>,
         \A c \in Client : clientWs[c] \in Handling => clientWs'[c] \in Handling,
         \A m \in Machine : runners[m] # NoLink => runners'[m] # NoLink
  PROVE  (EntryAttended /\ EntriesMade /\ OneReply)'
<1> USE DEF HistoryInv
<1>1. \A r \in DOMAIN entries : entries[r].conn \in Client /\ entries[r].machine \in Machine
  BY DEF TypeOK, Request
<1>2. EntryAttended'
  BY <1>1 DEF EntryAttended
<1>3. EntriesMade' /\ OneReply'
  BY DEF EntriesMade, OneReply
<1> QED
  BY <1>2, <1>3

\* A new request is made attended: its asker is here, its machine online.
LEMMA GetHistoryKeeps ==
  ASSUME HistoryInv, NEW c \in Client, NEW m \in Machine, NEW r \in Req, GetHistory(c, m, r)
  PROVE  (EntryAttended /\ EntriesMade /\ OneReply)'
<1> USE DEF HistoryInv
<1> DEFINE e == [conn |-> c, machine |-> m]
<1>1. e.conn = c /\ e.machine = m
  OBVIOUS
<1>2. /\ entries' = With(entries, r, e)
      /\ made' = With(made, r, e)
      /\ timers' = timers \cup {r}
      /\ r \notin DOMAIN made
      /\ clientWs[c] \in Handling
      /\ runners[m] # NoLink
      /\ UNCHANGED <<clientWs, runners, replies>>
  BY DEF GetHistory, Add
<1> HIDE DEF e
<1>3. r \notin DOMAIN entries
  BY <1>2 DEF EntriesMade
<1>4. /\ DOMAIN entries' = DOMAIN entries \cup {r}
      /\ entries'[r] = e
      /\ \A q \in DOMAIN entries : entries'[q] = entries[q]
  BY <1>2, <1>3 DEF With
<1>5. /\ DOMAIN made' = DOMAIN made \cup {r}
      /\ made'[r] = e
      /\ \A q \in DOMAIN made : made'[q] = made[q]
  BY <1>2 DEF With
<1>6. EntryAttended'
  BY <1>1, <1>2, <1>4 DEF EntryAttended
<1>7. EntriesMade'
  BY <1>4, <1>5 DEF EntriesMade
<1>8. OneReply'
  BY <1>2, <1>4, <1>5 DEF OneReply
<1> QED
  BY <1>6, <1>7, <1>8

\* There are no requests at first.
LEMMA HistoryInvInit == Init => HistoryInv
<1> SUFFICES ASSUME Init PROVE HistoryInv
  OBVIOUS
<1>1. << >> \in Seq(Client)
  BY EmptySeq
<1>2. TypeOK
  BY <1>1 DEF Init, TypeOK, WsState
<1> QED
  BY <1>2 DEF Init, HistoryInv, EntryAttended, EntriesMade, OneReply

\* Every step keeps the requests attended and answered once at most.
LEMMA HistoryInvNext == HistoryInv /\ [Next]_vars => HistoryInv'
<1> SUFFICES ASSUME HistoryInv, [Next]_vars PROVE HistoryInv'
  OBVIOUS
<1> USE DEF HistoryInv
<1> DEFINE Kept == (EntryAttended /\ EntriesMade /\ OneReply)'
<1>1. CASE UNCHANGED vars
  BY <1>1 DEF vars, hubState, runnerState, TypeOK, EntryAttended, EntriesMade, OneReply
<1>2. ASSUME NEW c \in Client, ClientConnects(c) PROVE Kept
  BY <1>2, AttendedKeeps DEF ClientConnects, TypeOK, Handling
<1>3. ASSUME NEW c \in Client, ClientCloses(c) PROVE Kept
  <2>1. \A r \in DOMAIN entries \ RequestsOf(c) :
          /\ clientWs'[entries[r].conn] \in Handling
          /\ runners'[entries[r].machine] # NoLink
    BY <1>3 DEF ClientCloses, RequestsOf, EntryAttended, TypeOK, Request
  <2> QED
    BY <1>3, <2>1, DropKeeps DEF ClientCloses
<1>4. ASSUME NEW l \in Link, AcceptRunner(l) PROVE Kept
  <2>1. \A m \in Machine : runners[m] # NoLink => runners'[m] # NoLink
    BY <1>4, NoLinkFresh DEF AcceptRunner, TypeOK
  <2> QED
    BY <1>4, <2>1, AttendedKeeps DEF AcceptRunner
<1>5. ASSUME NEW l \in Link, LinkCloses(l) PROVE Kept
  <2>1. CASE runners[MachineOf[l]] = l
    <3>1. \A r \in DOMAIN entries \ RequestsTo(MachineOf[l]) :
            /\ clientWs'[entries[r].conn] \in Handling
            /\ runners'[entries[r].machine] # NoLink
      BY <1>5, <2>1 DEF LinkCloses, RequestsTo, EntryAttended, TypeOK, Request
    <3> QED
      BY <1>5, <2>1, <3>1, DropKeeps DEF LinkCloses
  <2>2. CASE runners[MachineOf[l]] # l
    BY <1>5, <2>2, AttendedKeeps DEF LinkCloses
  <2> QED
    BY <2>1, <2>2
<1>6. ASSUME NEW r \in Req, Expire(r) PROVE Kept
  <2>1. CASE Finish(r)
    BY <2>1, FinishKeeps
  <2>2. CASE ~Finish(r)
    BY <1>6, <2>2, ExpireFinishes DEF EntryAttended, EntriesMade, OneReply
  <2> QED
    BY <2>1, <2>2
<1>7. ASSUME NEW l \in Link, NEW r \in Req, ReceiveAnswer(l, r) PROVE Kept
  BY <1>7, AnswerFinishes, FinishKeeps, AttendedKeeps DEF hubState
<1>8. ASSUME PanicAccount PROVE Kept
  <2>1. \A c \in Client : clientWs[c] \in Handling => clientWs'[c] \in Handling
    BY <1>8 DEF PanicAccount, CloseAll, Handling
  <2> QED
    BY <1>8, <2>1, AttendedKeeps DEF PanicAccount
<1>9. ASSUME Stop PROVE Kept
  <2>1. DOMAIN entries \ Req = {}
    BY DEF TypeOK
  <2> QED
    BY <1>9, <2>1, DropKeeps DEF Stop
<1>10. ASSUME UNCHANGED hubState PROVE Kept
  BY <1>10, AttendedKeeps DEF hubState
<1>11. CASE Next
  <2>1. Kept
    BY <1>2, <1>3, <1>4, <1>5, <1>6, <1>7, <1>8, <1>9, <1>10, <1>11, GetHistoryKeeps
       DEF Next, RunnerOpens, RunnerLoses, RunnerFetches, RunnerAnswers, RestartRunner
  <2> QED
    BY <1>11, <2>1, TypeNext
<1> QED
  BY <1>1, <1>11

\* The inductive invariant holds in every reachable state.
THEOREM HistoryInvariant == Spec => []HistoryInv
BY HistoryInvInit, HistoryInvNext, PTL DEF Spec

\* Every variable keeps its type: the store holds requests and nothing else.
THEOREM HistoryTypeCorrect == Spec => []TypeOK
<1>1. HistoryInv => TypeOK
  BY DEF HistoryInv
<1> QED
  BY <1>1, HistoryInvariant, PTL

\* No pending request leaks: somebody will take it, drop it or time it out.
THEOREM EntryAttendedHolds == Spec => []EntryAttended
<1>1. HistoryInv => EntryAttended
  BY DEF HistoryInv
<1> QED
  BY <1>1, HistoryInvariant, PTL

\* However an answer races with the timer, with closing sockets and with
\* reconnects, nobody gets two replies or somebody else's.
THEOREM OneReplyHolds == Spec => []OneReply
<1>1. HistoryInv => OneReply
  BY DEF HistoryInv
<1> QED
  BY <1>1, HistoryInvariant, PTL

-----------------------------------------------------------------------------
\* The refinement, action by action.

Here == {c \in Client : clientWs[c] \in Handling}
Listening == {c \in Client : clientWs[c] = "open"}
Online == {m \in Machine : runners[m] # NoLink}

\* What the abstract variables see of a step.
LEMMA Stutters ==
  ASSUME UNCHANGED <<made, replies, clientWs, runners>>, DOMAIN entries' = DOMAIN entries
  PROVE  UNCHANGED Promise!promiseVars
BY DEF Promise!promiseVars

\* Finishing a request is a reply, or swallows one that nobody can hear.
LEMMA FinishReplies ==
  ASSUME HistoryInv, NEW r \in Req, Finish(r)
  PROVE  Promise!Reply(r) \/ Promise!Swallow(r)
<1> USE DEF HistoryInv
<1>1. /\ replies[r] = << >>
      /\ entries[r].conn = made[r].conn
      /\ made[r].conn \in Client
      /\ replies \in [Req -> Seq(Client)]
  BY DEF Finish, OneReply, EntriesMade, TypeOK, Request
<1>2. DOMAIN entries' = DOMAIN entries \ {r}
  BY WithoutFacts DEF Finish
<1>3. CASE clientWs[made[r].conn] = "open"
  <2>1. replies' = [replies EXCEPT ![r] = <<made[r].conn>>]
    <3>1. Append(replies[r], made[r].conn) = <<made[r].conn>>
      BY <1>1
    <3> QED
      BY <1>1, <1>3, <3>1 DEF Finish, ReplyTo
  <2> QED
    BY <1>1, <1>2, <1>3, <2>1 DEF Finish, Promise!Reply
<1>4. CASE clientWs[made[r].conn] # "open"
  BY <1>1, <1>2, <1>4 DEF Finish, ReplyTo, Promise!Swallow
<1> QED
  BY <1>3, <1>4

\* get_session_history is what the promise calls asking.
LEMMA GetHistoryAsks ==
  ASSUME HistoryInv, NEW c \in Client, NEW m \in Machine, NEW r \in Req, GetHistory(c, m, r)
  PROVE  Promise!Ask(r, c, m)
<1>1. DOMAIN entries' = DOMAIN entries \cup {r}
  BY DEF GetHistory, Add, With
<1> QED
  BY <1>1 DEF GetHistory, With, Promise!Ask

\* A client's close event takes exactly its own requests along.
LEMMA ClientClosesLeaves ==
  ASSUME HistoryInv, NEW c \in Client, ClientCloses(c)
  PROVE  Promise!Leave(c)
<1> USE DEF HistoryInv
<1>1. DOMAIN entries' = DOMAIN entries \ RequestsOf(c)
  BY WithoutFacts DEF ClientCloses, DropMatching
<1>2. DOMAIN entries' = {r \in DOMAIN entries : made[r].conn # c}
  BY <1>1 DEF RequestsOf, EntriesMade
<1>3. \A d \in Client : clientWs'[d] = IF d = c THEN "closed" ELSE clientWs[d]
  BY DEF ClientCloses, TypeOK
<1>4. Here' = Here \ {c} /\ Listening' = Listening \ {c}
  BY <1>3 DEF Here, Listening, Handling
<1> QED
  BY <1>2, <1>4 DEF ClientCloses, Here, Listening, Promise!Leave

\* The close of a registered connection takes the machine offline, and exactly
\* the machine's requests along.
LEMMA LinkClosesOffline ==
  ASSUME HistoryInv, NEW l \in Link, LinkCloses(l), runners[MachineOf[l]] = l
  PROVE  Promise!MachineOffline(MachineOf[l])
<1> USE DEF HistoryInv
<1> DEFINE m == MachineOf[l]
<1>1. m \in Machine
  BY MachineOfType
<1>2. DOMAIN entries' = DOMAIN entries \ RequestsTo(m)
  BY WithoutFacts DEF LinkCloses, DropMatching
<1>3. DOMAIN entries' = {r \in DOMAIN entries : made[r].machine # m}
  BY <1>2 DEF RequestsTo, EntriesMade
<1>4. Online' = Online \ {m}
  BY <1>1 DEF LinkCloses, Online, TypeOK
<1> QED
  BY <1>3, <1>4 DEF LinkCloses, Online, Promise!MachineOffline

\* A registered connection puts its machine online.
LEMMA AcceptRunnerOnline ==
  ASSUME HistoryInv, NEW l \in Link, AcceptRunner(l)
  PROVE  Promise!MachineOnline(MachineOf[l])
<1>1. MachineOf[l] \in Machine
  BY MachineOfType
<1>2. Online' = Online \cup {MachineOf[l]}
  BY <1>1, NoLinkFresh DEF AcceptRunner, Online, HistoryInv, TypeOK
<1> QED
  BY <1>2 DEF AcceptRunner, Online, Promise!MachineOnline

\* A client that connects is here and listening.
LEMMA ConnectJoins ==
  ASSUME HistoryInv, NEW c \in Client, ClientConnects(c)
  PROVE  Promise!Join(c)
<1>1. \A d \in Client : clientWs'[d] = IF d = c THEN "open" ELSE clientWs[d]
  BY DEF ClientConnects, HistoryInv, TypeOK
<1>2. Here' = Here \cup {c} /\ Listening' = Listening \cup {c}
  BY <1>1 DEF Here, Listening, Handling
<1> QED
  BY <1>2 DEF ClientConnects, Here, Listening, Promise!Join

\* Closing an open socket takes nobody's handlers away.
LEMMA CloseAllDismisses ==
  ASSUME CloseAll
  PROVE  Here' = Here /\ Listening' = {}
BY DEF CloseAll, Here, Listening, Handling

\* Every step is a step of the promise or leaves what it sees unchanged.
LEMMA PromiseNext ==
  HistoryInv /\ [Next]_vars => [Promise!Next]_(Promise!promiseVars)
<1> SUFFICES ASSUME HistoryInv, [Next]_vars
             PROVE  Promise!Next \/ UNCHANGED Promise!promiseVars
  OBVIOUS
<1> DEFINE Good == Promise!Next \/ UNCHANGED Promise!promiseVars
<1>1. ASSUME NEW c \in Client, ClientConnects(c) PROVE Good
  BY <1>1, ConnectJoins DEF Promise!Next
<1>2. ASSUME NEW c \in Client, ClientCloses(c) PROVE Good
  BY <1>2, ClientClosesLeaves DEF Promise!Next
<1>3. ASSUME NEW c \in Client, NEW m \in Machine, NEW r \in Req, GetHistory(c, m, r)
      PROVE  Good
  BY <1>3, GetHistoryAsks DEF Promise!Next
<1>4. ASSUME NEW r \in Req, Finish(r) PROVE Good
  BY <1>4, FinishReplies DEF Promise!Next
<1>5. ASSUME NEW r \in Req, Expire(r) PROVE Good
  BY <1>4, <1>5, ExpireFinishes, Stutters
<1>6. ASSUME NEW l \in Link, NEW r \in Req, ReceiveAnswer(l, r) PROVE Good
  BY <1>4, <1>6, AnswerFinishes, Stutters DEF hubState
<1>7. ASSUME NEW l \in Link, AcceptRunner(l) PROVE Good
  BY <1>7, AcceptRunnerOnline, MachineOfType DEF Promise!Next
<1>8. ASSUME NEW l \in Link, LinkCloses(l) PROVE Good
  <2>1. CASE runners[MachineOf[l]] = l
    BY <1>8, <2>1, LinkClosesOffline, MachineOfType DEF Promise!Next
  <2>2. CASE runners[MachineOf[l]] # l
    BY <1>8, <2>2, Stutters DEF LinkCloses
  <2> QED
    BY <2>1, <2>2
<1>9. ASSUME PanicAccount PROVE Good
  <2>1. Promise!Dismiss
    BY <1>9, CloseAllDismisses DEF PanicAccount, Here, Listening, Promise!Dismiss
  <2> QED
    BY <2>1 DEF Promise!Next
<1>10. ASSUME Stop PROVE Good
  <2>1. DOMAIN entries' = {}
    BY <1>10, WithoutFacts DEF Stop, DropMatching, HistoryInv, TypeOK
  <2>2. Promise!Stop
    BY <1>10, <2>1, CloseAllDismisses DEF Stop, Here, Listening, Promise!Stop
  <2> QED
    BY <2>2 DEF Promise!Next
<1>11. ASSUME UNCHANGED hubState PROVE Good
  BY <1>11, Stutters DEF hubState
<1> QED
  BY <1>1, <1>2, <1>3, <1>5, <1>6, <1>7, <1>8, <1>9, <1>10, <1>11
     DEF Next, vars, RunnerOpens, RunnerLoses, RunnerFetches, RunnerAnswers, RestartRunner

\* The hub keeps its promise to those who ask for a history, whatever sockets,
\* timers and runners do: every step is one that the promise allows.
THEOREM HistoryPromiseKept == Spec => KeepsPromise
<1>1. Init => Promise!Init
  BY DEF Init, Promise!Init, Handling
<1> QED
  BY <1>1, HistoryInvariant, PromiseNext, PTL DEF Spec, KeepsPromise, Promise!Spec
=============================================================================
