------------------------ MODULE HubRunnerCalmProofs ------------------------
(***************************************************************************)
(* What holds of HubRunner while nothing disturbs it: the status that the  *)
(* hub shows, brought up to date by the messages still in flight, is the   *)
(* state of the runner's run -- unless the SDK led the row astray -- and   *)
(* whoever knows a session's conversation knows the same one -- unless the *)
(* SDK split it in two.                                                    *)
(***************************************************************************)
EXTENDS HubRunnerResyncProofs

\* A message on which runSession will start a run (or refuse to).
Prompts(m, s) ==
  m.type \in {"hub_start_session", "hub_send_prompt"} /\ m.session = s

\* Such a message is in flight.
Prompted(s) ==
  \E c \in Conn : \E i \in 1..Len(toRunner[c]) : Prompts(toRunner[c][i], s)

\* A message that sets the session's status, and whether to an active one.
Rules(m, s) == m.type # "user_prompt" /\ m.session = s
SaysActive(m) == m.type = "session_status" /\ m.status \in ActiveStatus

\* What a row with status st shows once the messages of q are received: the
\* last of them that sets the status decides.
WillShow(q, s, st) ==
  \/ \E i \in 1..Len(q) : /\ Rules(q[i], s)
                          /\ SaysActive(q[i])
                          /\ \A j \in i + 1..Len(q) : ~Rules(q[j], s)
  \/ /\ st \in ActiveStatus
     /\ \A i \in 1..Len(q) : ~Rules(q[i], s)

NoRunOf(s) == \A r \in DOMAIN runs : runs[r].session # s

-----------------------------------------------------------------------------
\* The invariant, in parts.

\* There is one connection, and it goes from booting to open.
OneConnection ==
  /\ link \in {"boot", "firstTry", "open"}
  /\ \A c \in Conn : hubWs[c] = IF runner = c THEN "open" ELSE "none"
  /\ runner \in {ws, NoConn}
  /\ ws # NoConn => ~cut[ws]
  /\ link = "open" => runner = ws
  /\ \A c \in Conn : toHub[c] # << >> => c = ws /\ link = "open"
  /\ \A c \in Conn : toRunner[c] # << >> => c = runner
  /\ link # "open" => DOMAIN runs = {} /\ sdkIds = NoSdkKnown
  /\ runner = NoConn => \A s \in Session : status[s] = "absent"

\* The resync is read before anything else, and has nothing to say.
EmptyResync ==
  \A c \in Conn : \A i \in 1..Len(toRunner[c]) :
    toRunner[c][i].type = "hub_runner_resync" =>
      /\ i = 1
      /\ DOMAIN runs = {}
      /\ sdkIds = NoSdkKnown
      /\ toRunner[c][i].sessions = NoSdkKnown

\* Nobody speaks of a session that has no row.
RowFirst ==
  \A s \in Session : status[s] = "absent" =>
    /\ ~Prompted(s)
    /\ NoRunOf(s)
    /\ \A c \in Conn : \A i \in 1..Len(toHub[c]) : toHub[c][i].session # s

\* The start of a session precedes its prompts and its runs.
StartFirst ==
  \A c \in Conn : \A i \in 1..Len(toRunner[c]) : \A s \in Session :
    toRunner[c][i] = HubStartSession(s) =>
      /\ NoRunOf(s)
      /\ \A j \in 1..i - 1 : ~Prompts(toRunner[c][j], s)

\* A run that asks has not reported its result.
AskingIsActive ==
  \A r \in DOMAIN runs : runs[r].pending # {} => runs[r].phase = "active"

\* Somewhere in the system, k is the session's conversation.
KnownAs(s, k) ==
  \/ sdkIds[s] = k
  \/ sdkOf[s] = k
  \/ \E r \in DOMAIN runs : runs[r].session = s /\ runs[r].sdk = k
  \/ \E c \in Conn : \E i \in 1..Len(toHub[c]) : toHub[c][i] = SessionDone(s, k)

\* The next prompt would resume the one conversation that anyone knows.
OneId ==
  \A s \in Session \ split :
    /\ \A k \in SdkId : KnownAs(s, k) => ResolveSdkSessionId(s) = k
    /\ sessions[s] # NoRun => runs[sessions[s]].sdk = ResolveSdkSessionId(s)

\* With no prompt on its way, the hub will show what the runner does.
Announced ==
  \A s \in Session \ astray : ~Prompted(s) =>
    IF ws = NoConn THEN ~Working(s)
    ELSE WillShow(toHub[ws], s, status[s]) <=> Working(s)

CalmInv ==
  /\ OneConnection
  /\ EmptyResync
  /\ RowFirst
  /\ StartFirst
  /\ AskingIsActive
  /\ OneId
  /\ Announced

\* What the history variables keep while nothing disturbs the system: a session
\* stays split, and a row stays astray until a run begins.
Recalls ==
  /\ \A s \in Session \ split' : s \notin split
  /\ \A s \in Session \ astray' : s \in astray => Begins(s)

\* Where no run begins, a row that is not astray was not.
SameRows == \A s \in Session \ astray' : s \notin astray

-----------------------------------------------------------------------------
\* What the channels are in a calm state.
LEMMA CalmChannels ==
  ASSUME Inv
  PROVE  /\ toHub \in [Conn -> Seq(RunnerToHubMsg)]
         /\ toRunner \in [Conn -> Seq(HubToRunnerMsg)]
         /\ \A c \in Conn : Len(toHub[c]) \in Nat /\ Len(toRunner[c]) \in Nat
         /\ \A c \in Conn : \A i \in 1..Len(toHub[c]) : toHub[c][i] \in RunnerToHubMsg
         /\ \A c \in Conn : \A i \in 1..Len(toRunner[c]) : toRunner[c][i] \in HubToRunnerMsg
BY LenProperties, ElementOfSeq DEF Inv, WireInv, WireTypeOK

\* Every message of the runner is about a session.
LEMMA EveryMessageHasSession ==
  ASSUME NEW m \in RunnerToHubMsg
  PROVE  m.session \in Session
BY DEF RunnerToHubMsg

\* What the runner sends at once is about one session, and its last message
\* sets the status: received with the rest, it decides.
LEMMA LastWordDecides ==
  ASSUME NEW S, NEW q \in Seq(S), NEW p \in Seq(S), p # << >>,
         NEW t, \A i \in 1..Len(p) : p[i].session = t,
         Rules(p[Len(p)], t), NEW s, NEW st
  PROVE  WillShow(q \o p, s, st)
           <=> IF s = t THEN SaysActive(p[Len(p)]) ELSE WillShow(q, s, st)
<1> DEFINE n == Len(q)
           l == Len(p)
           w == q \o p
<1>1. n \in Nat /\ l \in Nat /\ l >= 1
  BY LenProperties, EmptySeq
<1>2. /\ Len(w) = n + l
      /\ \A i \in 1..n : w[i] = q[i]
      /\ \A i \in 1..l : w[n + i] = p[i]
  <2>1. Len(w) = n + l
    BY ConcatProperties
  <2>2. ASSUME NEW i \in 1..n PROVE w[i] = q[i]
    BY <1>1, <2>2, ConcatProperties
  <2>3. ASSUME NEW i \in 1..l PROVE w[n + i] = p[i]
    <3>1. n + i \in 1..n + l /\ ~(n + i <= n) /\ (n + i) - n = i
      BY <1>1
    <3> QED
      BY <3>1, ConcatProperties
  <2> QED
    BY <2>1, <2>2, <2>3
<1>3. \A i \in 1..n + l : i \in 1..n \/ (i - n \in 1..l /\ i = n + (i - n))
  BY <1>1
<1> HIDE DEF n, l, w
<1>4. CASE s = t
  <2>1. Rules(w[n + l], s) /\ w[n + l] = p[l] /\ n + l \in 1..Len(w)
    BY <1>1, <1>2, <1>4 DEF l
  <2>2. ASSUME SaysActive(p[l]) PROVE WillShow(w, s, st)
    <3>1. \A j \in n + l + 1..Len(w) : ~Rules(w[j], s)
      BY <1>1, <1>2
    <3> QED
      BY <2>1, <2>2, <3>1 DEF WillShow
  <2>3. ASSUME WillShow(w, s, st) PROVE SaysActive(p[l])
    <3>1. PICK i \in 1..Len(w) : /\ SaysActive(w[i])
                                 /\ \A j \in i + 1..Len(w) : ~Rules(w[j], s)
      BY <2>1, <2>3 DEF WillShow
    <3>2. i = n + l
      BY <1>1, <1>2, <2>1, <3>1
    <3> QED
      BY <2>1, <3>1, <3>2
  <2> QED
    BY <1>4, <2>2, <2>3 DEF l, w
<1>5. CASE s # t
  <2>1. \A i \in 1..Len(w) : Rules(w[i], s) => i \in 1..n
    BY <1>2, <1>3, <1>5 DEF Rules, l
  <2>2. \A i \in 1..n : i \in 1..Len(w)
    BY <1>1, <1>2
  <2>3. (\A i \in 1..Len(w) : ~Rules(w[i], s)) <=> (\A i \in 1..n : ~Rules(q[i], s))
    BY <1>2, <2>1, <2>2
  <2>4. ASSUME NEW i \in 1..n
        PROVE  (\A j \in i + 1..Len(w) : ~Rules(w[j], s))
                 <=> (\A j \in i + 1..n : ~Rules(q[j], s))
    <3>1. \A j \in i + 1..Len(w) : j \in 1..Len(w)
      BY <1>1, <1>2
    <3>2. \A j \in i + 1..n : j \in 1..n /\ j \in i + 1..Len(w)
      BY <1>1, <1>2
    <3>3. \A j \in i + 1..Len(w) : j \in 1..n => j \in i + 1..n
      BY <1>1, <1>2
    <3> QED
      BY <1>2, <2>1, <3>1, <3>2, <3>3
  <2> QED
    BY <1>2, <1>5, <2>1, <2>2, <2>3, <2>4 DEF WillShow, n, w
<1> QED
  BY <1>4, <1>5 DEF l, w

\* The first message of the channel, received, makes no difference to what
\* the row will show in the end.
LEMMA ReceivedOrInFlight ==
  ASSUME NEW S, NEW q \in Seq(S), q # << >>, NEW s, NEW st, NEW st2,
         IF Rules(Head(q), s) THEN st2 \in ActiveStatus <=> SaysActive(Head(q))
         ELSE st2 = st
  PROVE  WillShow(Tail(q), s, st2) <=> WillShow(q, s, st)
<1> DEFINE n == Len(q)
           w == Tail(q)
<1>1. /\ n \in Nat /\ n >= 1
      /\ Len(w) = n - 1
      /\ \A i \in 1..n - 1 : w[i] = q[i + 1]
      /\ Head(q) = q[1]
  BY EmptySeq, HeadTailProperties
<1> HIDE DEF n, w
<1>2. \A i \in 1..n : i = 1 \/ (i - 1 \in 1..n - 1 /\ w[i - 1] = q[i])
  <2> TAKE i \in 1..n
  <2> SUFFICES ASSUME i # 1 PROVE i - 1 \in 1..n - 1 /\ w[i - 1] = q[i]
    OBVIOUS
  <2>1. i - 1 \in 1..n - 1 /\ (i - 1) + 1 = i
    BY <1>1
  <2> QED
    BY <1>1, <2>1
<1>3. \A i \in 1..n - 1 : i + 1 \in 1..n /\ i + 1 # 1 /\ w[i] = q[i + 1]
  BY <1>1
<1>4. ASSUME NEW i \in 1..n - 1
      PROVE  (\A j \in i + 1..n - 1 : ~Rules(w[j], s))
               <=> (\A j \in (i + 1) + 1..n : ~Rules(q[j], s))
  <2>1. \A j \in i + 1..n - 1 : j + 1 \in (i + 1) + 1..n /\ w[j] = q[j + 1]
    BY <1>1
  <2>2. \A j \in (i + 1) + 1..n : j - 1 \in i + 1..n - 1 /\ j \in 1..n /\ j # 1
    BY <1>1
  <2> QED
    BY <1>2, <2>1, <2>2
<1>5. (\A j \in 1..n - 1 : ~Rules(w[j], s)) <=> (\A j \in 1 + 1..n : ~Rules(q[j], s))
  <2>1. \A j \in 1 + 1..n : j \in 1..n /\ j # 1
    BY <1>1
  <2>2. \A j \in 1..n - 1 : j + 1 \in 1 + 1..n
    BY <1>1
  <2> QED
    BY <1>2, <1>3, <2>1, <2>2
<1>6. 1 \in 1..n /\ \A j \in 1..n : j = 1 \/ j \in 1 + 1..n
  BY <1>1
<1>7. \A j \in 1 + 1..n : j \in 1..n
  BY <1>1
<1> DEFINE Quietly(lo) == \A j \in lo..n : ~Rules(q[j], s)
<1>8. WillShow(w, s, st2) <=>
        \/ \E i \in 1..n - 1 : /\ Rules(q[i + 1], s) /\ SaysActive(q[i + 1])
                               /\ Quietly((i + 1) + 1)
        \/ st2 \in ActiveStatus /\ Quietly(1 + 1)
  BY <1>1, <1>4, <1>5 DEF WillShow
<1>9. WillShow(q, s, st) <=>
        \/ \E i \in 1..n : /\ Rules(q[i], s) /\ SaysActive(q[i])
                           /\ Quietly(i + 1)
        \/ st \in ActiveStatus /\ Quietly(1)
  BY DEF WillShow, n
<1>10. Quietly(1) <=> ~Rules(q[1], s) /\ Quietly(1 + 1)
  BY <1>6, <1>7
<1>11. (\E i \in 1..n : /\ Rules(q[i], s) /\ SaysActive(q[i]) /\ Quietly(i + 1))
         <=> \/ \E i \in 1..n - 1 : /\ Rules(q[i + 1], s) /\ SaysActive(q[i + 1])
                                    /\ Quietly((i + 1) + 1)
             \/ Rules(q[1], s) /\ SaysActive(q[1]) /\ Quietly(1 + 1)
  <2>1. \A i \in 1..n : i = 1 \/ (i - 1 \in 1..n - 1 /\ (i - 1) + 1 = i)
    BY <1>1
  <2> HIDE DEF Quietly
  <2> QED
    BY <1>3, <1>6, <2>1
<1> HIDE DEF Quietly
<1> QED
  BY <1>1, <1>8, <1>9, <1>10, <1>11 DEF w

-----------------------------------------------------------------------------
\* What the steps of the runner do to the channels.

SameSessions ==
  \A r \in DOMAIN runs' : r \in DOMAIN runs /\ runs'[r].session = runs[r].session

Consumes == toRunner[ws] # << >> /\ RunnerConsumes

\* Consuming a message answers no prompt but that one.
LEMMA ConsumesPrompted ==
  ASSUME Inv, ws \in Conn, Consumes
  PROVE  /\ \A c \in Conn : toRunner'[c] = IF c = ws THEN Tail(toRunner[c]) ELSE toRunner[c]
         /\ \A i \in 1..Len(Tail(toRunner[ws])) :
              /\ i + 1 \in 1..Len(toRunner[ws])
              /\ Tail(toRunner[ws])[i] = toRunner[ws][i + 1]
         /\ \A s : Prompted(s)' => Prompted(s)
         /\ \A s : Prompted(s) => Prompted(s)' \/ Prompts(toRunner[ws][1], s)
<1> DEFINE q == toRunner[ws]
<1>1. \A c \in Conn : toRunner'[c] = IF c = ws THEN Tail(toRunner[c]) ELSE toRunner[c]
  BY CalmChannels DEF Consumes, RunnerConsumes
<1>2. /\ Len(q) \in Nat
      /\ Len(Tail(q)) = Len(q) - 1
      /\ \A i \in 1..Len(Tail(q)) : Tail(q)[i] = q[i + 1]
  BY CalmChannels, HeadTailProperties, LenProperties DEF Consumes
<1>3. \A i \in 1..Len(Tail(q)) : i + 1 \in 1..Len(q)
  BY <1>2
<1>4. \A i \in 1..Len(q) : i = 1 \/ (i - 1 \in 1..Len(Tail(q)) /\ q[i] = Tail(q)[i - 1])
  <2> TAKE i \in 1..Len(q)
  <2> SUFFICES ASSUME i # 1 PROVE i - 1 \in 1..Len(Tail(q)) /\ q[i] = Tail(q)[i - 1]
    OBVIOUS
  <2>1. i - 1 \in 1..Len(Tail(q)) /\ (i - 1) + 1 = i
    BY <1>2
  <2> QED
    BY <1>2, <2>1
<1> HIDE DEF q
<1>5. ASSUME NEW s, Prompted(s)' PROVE Prompted(s)
  <2>0. PICK c \in Conn : \E i \in 1..Len(toRunner'[c]) : Prompts(toRunner'[c][i], s)
    BY <1>5 DEF Prompted, Prompts
  <2>1. PICK i \in 1..Len(toRunner'[c]) : Prompts(toRunner'[c][i], s)
    BY <2>0
  <2>2. CASE c = ws
    <3>1. toRunner'[c] = Tail(q)
      BY <1>1, <2>2 DEF q
    <3>2. i + 1 \in 1..Len(q) /\ Prompts(q[i + 1], s)
      BY <1>2, <1>3, <2>1, <3>1
    <3> QED
      BY <3>2 DEF Prompted, q
  <2>3. CASE c # ws
    BY <1>1, <2>1, <2>3 DEF Prompted
  <2> QED
    BY <2>2, <2>3
<1>6. ASSUME NEW s, Prompted(s), ~Prompts(q[1], s) PROVE Prompted(s)'
  <2>0. PICK c \in Conn : \E i \in 1..Len(toRunner[c]) : Prompts(toRunner[c][i], s)
    BY <1>6 DEF Prompted
  <2>1. PICK i \in 1..Len(toRunner[c]) : Prompts(toRunner[c][i], s)
    BY <2>0
  <2>2. CASE c = ws
    <3>1. i \in 1..Len(q) /\ Prompts(q[i], s)
      BY <2>1, <2>2 DEF q
    <3>2. i - 1 \in 1..Len(Tail(q)) /\ Prompts(Tail(q)[i - 1], s)
      BY <1>4, <1>6, <3>1
    <3>3. toRunner'[ws] = Tail(q)
      BY <1>1 DEF q
    <3> QED
      BY <3>2, <3>3 DEF Prompted, Prompts
  <2>3. CASE c # ws
    <3>1. toRunner'[c] = toRunner[c]
      BY <1>1, <2>3
    <3> QED
      BY <2>1, <3>1 DEF Prompted, Prompts
  <2> QED
    BY <2>2, <2>3
<1> QED
  BY <1>1, <1>2, <1>3, <1>5, <1>6 DEF q

\* A step of the open runner: it takes a message from its channel or leaves it
\* alone, speaks of one session that has a row, and starts a run of no other
\* session than one it was prompted for.
RunnerSpeaks(t, p) ==
  /\ link = "open"
  /\ UNCHANGED <<hubVars, ws, link, hubWs, cut>>
  /\ toHub' = [toHub EXCEPT ![ws] = @ \o p]
  /\ p = << >> \/ status[t] # "absent"
  /\ \/ DOMAIN runs # {} /\ SameSessions /\ UNCHANGED toRunner
     \/ Consumes /\ SameSessions
     \/ /\ Consumes
        /\ Prompts(toRunner[ws][1], t)
        /\ \A r \in DOMAIN runs' :
             \/ runs'[r].session = t
             \/ r \in DOMAIN runs /\ runs'[r].session = runs[r].session

\* The channels after such a step.
LEMMA SpeaksChannels ==
  ASSUME Inv, CalmInv, NEW t, NEW p \in Seq(RunnerToHubMsg),
         \A i \in 1..Len(p) : p[i].session = t,
         RunnerSpeaks(t, p)
  PROVE  /\ ws \in Conn
         /\ runner = ws
         /\ \A c \in Conn : toHub'[c] = IF c = ws THEN toHub[c] \o p ELSE toHub[c]
         /\ \A c \in Conn : \A i \in 1..Len(toHub'[c]) :
              \/ i \in 1..Len(toHub[c]) /\ toHub'[c][i] = toHub[c][i]
              \/ p # << >> /\ \E j \in 1..Len(p) : toHub'[c][i] = p[j]
         /\ \A c \in Conn : c # ws => toRunner'[c] = toRunner[c] /\ toRunner[c] = << >>
<1>1. ws \in Conn /\ runner = ws
  BY DEF Inv, WireInv, WireTypeOK, HasSocket, CalmInv, OneConnection, RunnerSpeaks
<1>2. \A c \in Conn : toHub'[c] = IF c = ws THEN toHub[c] \o p ELSE toHub[c]
  BY CalmChannels DEF RunnerSpeaks
<1>3. ASSUME NEW c \in Conn, NEW i \in 1..Len(toHub'[c])
      PROVE  \/ i \in 1..Len(toHub[c]) /\ toHub'[c][i] = toHub[c][i]
             \/ p # << >> /\ \E j \in 1..Len(p) : toHub'[c][i] = p[j]
  <2> DEFINE q == toHub[ws]
             n == Len(q)
             l == Len(p)
  <2> SUFFICES ASSUME c = ws PROVE \/ i \in 1..n /\ toHub'[c][i] = q[i]
                                   \/ p # << >> /\ \E j \in 1..l : toHub'[c][i] = p[j]
    BY <1>2, <1>3
  <2>0. q \in Seq(RunnerToHubMsg) /\ toHub'[c] = q \o p
    BY <1>1, <1>2, CalmChannels
  <2>1. /\ n \in Nat /\ l \in Nat
        /\ Len(q \o p) = n + l
        /\ \A j \in 1..n + l : (q \o p)[j] = IF j <= n THEN q[j] ELSE p[j - n]
    BY <2>0, ConcatProperties, LenProperties
  <2>2. i \in 1..n + l
    BY <2>0, <2>1
  <2>3. CASE i <= n
    BY <2>0, <2>1, <2>2, <2>3
  <2>4. CASE ~(i <= n)
    <3>1. i - n \in 1..l
      BY <2>1, <2>2, <2>4
    <3>2. p # << >>
      BY <3>1, EmptySeq
    <3> QED
      BY <2>0, <2>1, <2>2, <2>4, <3>1, <3>2
  <2> QED
    BY <2>3, <2>4
<1>4. \A c \in Conn : c # ws => toRunner'[c] = toRunner[c] /\ toRunner[c] = << >>
  BY <1>1, CalmChannels DEF RunnerSpeaks, Consumes, RunnerConsumes, CalmInv, OneConnection
<1> QED
  BY <1>1, <1>2, <1>3, <1>4

\* Such a step does not speak of a session without a row.
LEMMA SpeaksOfOther ==
  ASSUME Inv, CalmInv, NEW t, NEW p \in Seq(RunnerToHubMsg),
         \A i \in 1..Len(p) : p[i].session = t,
         RunnerSpeaks(t, p),
         NEW s \in Session, status[s] = "absent",
         \A c \in Conn : \A i \in 1..Len(toHub[c]) : toHub[c][i].session # s
  PROVE  \A c \in Conn : \A i \in 1..Len(toHub'[c]) : toHub'[c][i].session # s
<1> SUFFICES ASSUME NEW c \in Conn, NEW i \in 1..Len(toHub'[c])
             PROVE  toHub'[c][i].session # s
  OBVIOUS
<1>1. p # << >> => s # t
  BY DEF RunnerSpeaks
<1>2. \/ i \in 1..Len(toHub[c]) /\ toHub'[c][i] = toHub[c][i]
      \/ p # << >> /\ \E j \in 1..Len(p) : toHub'[c][i] = p[j]
  BY SpeaksChannels
<1>3. CASE i \in 1..Len(toHub[c]) /\ toHub'[c][i] = toHub[c][i]
  BY <1>3
<1>4. CASE p # << >> /\ \E j \in 1..Len(p) : toHub'[c][i] = p[j]
  <2>1. PICK j \in 1..Len(p) : toHub'[c][i] = p[j]
    BY <1>4
  <2>2. p[j].session = t
    OBVIOUS
  <2> QED
    BY <1>1, <1>4, <2>1, <2>2
<1> QED
  BY <1>2, <1>3, <1>4

\* Such a step keeps the connection and the order of the messages on it.
LEMMA SpeaksKeepsOrder ==
  ASSUME Inv, CalmInv, NEW t, NEW p \in Seq(RunnerToHubMsg),
         \A i \in 1..Len(p) : p[i].session = t,
         RunnerSpeaks(t, p)
  PROVE  OneConnection' /\ EmptyResync' /\ RowFirst' /\ StartFirst'
<1>1. ws \in Conn /\ runner = ws /\ link = "open"
  BY SpeaksChannels DEF RunnerSpeaks
<1>2. OneConnection'
  <2>1. /\ \A c \in Conn : c # ws => toHub'[c] = toHub[c]
        /\ \A c \in Conn : c # ws => toRunner'[c] = << >>
    BY SpeaksChannels
  <2>2. UNCHANGED <<ws, link, hubWs, cut, runner, status>>
    BY DEF RunnerSpeaks, hubVars, rowVars
  <2> QED
    BY <1>1, <2>1, <2>2 DEF CalmInv, OneConnection
<1>3. CASE Consumes
  <2>1. EmptyResync'
    <3> SUFFICES ASSUME NEW c \in Conn, NEW i \in 1..Len(toRunner'[c]),
                        toRunner'[c][i].type = "hub_runner_resync"
                 PROVE  FALSE
      BY DEF EmptyResync
    <3>1. c = ws
      BY SpeaksChannels, EmptySeq
    <3>2. /\ i + 1 \in 1..Len(toRunner[ws])
          /\ toRunner[ws][i + 1].type = "hub_runner_resync"
          /\ i \in Nat /\ i >= 1
      <4>1. toRunner'[ws] = Tail(toRunner[ws])
        BY <1>1, <1>3, ConsumesPrompted
      <4>2. i \in 1..Len(Tail(toRunner[ws]))
        BY <3>1, <4>1
      <4> QED
        BY <1>1, <1>3, <3>1, <4>1, <4>2, ConsumesPrompted
    <3>3. i + 1 = 1
      BY <1>1, <3>2 DEF CalmInv, EmptyResync
    <3> QED
      BY <3>2, <3>3
  <2>2. ASSUME NEW s \in Session, NoRunOf(s), ~Prompts(toRunner[ws][1], s)
        PROVE  NoRunOf(s)'
    <3>1. \/ SameSessions
          \/ /\ s # t
             /\ \A r \in DOMAIN runs' :
                  \/ runs'[r].session = t
                  \/ r \in DOMAIN runs /\ runs'[r].session = runs[r].session
      BY <1>3, <2>2 DEF RunnerSpeaks
    <3> QED
      BY <2>2, <3>1 DEF NoRunOf, SameSessions
  <2>3. RowFirst'
    <3> SUFFICES ASSUME NEW s \in Session, status[s] = "absent"
                 PROVE  /\ ~Prompted(s)'
                        /\ NoRunOf(s)'
                        /\ \A c \in Conn : \A i \in 1..Len(toHub'[c]) :
                             toHub'[c][i].session # s
      BY DEF RowFirst, RunnerSpeaks, hubVars, rowVars
    <3>1. /\ ~Prompted(s)
          /\ NoRunOf(s)
          /\ \A c \in Conn : \A i \in 1..Len(toHub[c]) : toHub[c][i].session # s
      BY DEF CalmInv, RowFirst
    <3>2. ~Prompted(s)'
      BY <1>1, <1>3, <3>1, ConsumesPrompted
    <3>3. 1 \in 1..Len(toRunner[ws])
      BY <1>1, <1>3, CalmChannels, EmptySeq DEF Consumes
    <3>4. ~Prompts(toRunner[ws][1], s)
      BY <1>1, <3>1, <3>3 DEF Prompted
    <3>5. NoRunOf(s)'
      BY <2>2, <3>1, <3>4
    <3>6. \A c \in Conn : \A i \in 1..Len(toHub'[c]) : toHub'[c][i].session # s
      BY <3>1, SpeaksOfOther
    <3> QED
      BY <3>2, <3>5, <3>6
  <2>4. StartFirst'
    <3> SUFFICES ASSUME NEW c \in Conn, NEW i \in 1..Len(toRunner'[c]), NEW s \in Session,
                        toRunner'[c][i] = HubStartSession(s)
                 PROVE  NoRunOf(s)' /\ \A j \in 1..i - 1 : ~Prompts(toRunner'[c][j], s)
      BY DEF StartFirst, Prompts, HubStartSession
    <3>1. c = ws
      BY SpeaksChannels, EmptySeq
    <3>2. /\ i + 1 \in 1..Len(toRunner[ws])
          /\ toRunner[ws][i + 1] = HubStartSession(s)
          /\ i \in Nat /\ i >= 1
          /\ \A j \in 1..i : j \in 1..Len(toRunner'[ws])
          /\ \A j \in 1..Len(toRunner'[ws]) : toRunner'[ws][j] = toRunner[ws][j + 1]
      <4>1. toRunner'[ws] = Tail(toRunner[ws])
        BY <1>1, <1>3, ConsumesPrompted
      <4>2. i \in 1..Len(Tail(toRunner[ws]))
        BY <3>1, <4>1
      <4>3. Len(Tail(toRunner[ws])) \in Nat
        BY <1>1, <1>3, CalmChannels, HeadTailProperties, LenProperties DEF Consumes
      <4>4. \A j \in 1..i : j \in 1..Len(toRunner'[ws])
        BY <4>1, <4>2, <4>3
      <4> QED
        BY <1>1, <1>3, <3>1, <4>1, <4>2, <4>4, ConsumesPrompted
    <3>3. NoRunOf(s) /\ \A j \in 1..i : ~Prompts(toRunner[ws][j], s)
      BY <1>1, <3>2 DEF CalmInv, StartFirst
    <3>4. ~Prompts(toRunner[ws][1], s)
      BY <3>2, <3>3
    <3>5. \A j \in 1..i - 1 : j \in 1..i /\ j + 1 \in 1..i
      BY <3>2
    <3> QED
      BY <2>2, <3>1, <3>2, <3>3, <3>4, <3>5
  <2> QED
    BY <1>2, <2>1, <2>3, <2>4
<1>4. CASE DOMAIN runs # {} /\ SameSessions /\ UNCHANGED toRunner
  <2>1. EmptyResync'
    BY <1>4 DEF CalmInv, EmptyResync
  <2>2. \A s : NoRunOf(s) => NoRunOf(s)'
    BY <1>4 DEF NoRunOf, SameSessions
  <2>3. \A s : Prompted(s)' <=> Prompted(s)
    BY <1>4 DEF Prompted, Prompts
  <2>4. RowFirst'
    <3> SUFFICES ASSUME NEW s \in Session, status[s] = "absent"
                 PROVE  /\ ~Prompted(s)'
                        /\ NoRunOf(s)'
                        /\ \A c \in Conn : \A i \in 1..Len(toHub'[c]) :
                             toHub'[c][i].session # s
      BY DEF RowFirst, RunnerSpeaks, hubVars, rowVars
    <3>1. /\ ~Prompted(s)
          /\ NoRunOf(s)
          /\ \A c \in Conn : \A i \in 1..Len(toHub[c]) : toHub[c][i].session # s
      BY DEF CalmInv, RowFirst
    <3>2. \A c \in Conn : \A i \in 1..Len(toHub'[c]) : toHub'[c][i].session # s
      BY <3>1, SpeaksOfOther
    <3> QED
      BY <2>2, <2>3, <3>1, <3>2
  <2>5. StartFirst'
    BY <1>4, <2>2 DEF CalmInv, StartFirst, Prompts, HubStartSession
  <2> QED
    BY <1>2, <2>1, <2>4, <2>5
<1> QED
  BY <1>3, <1>4 DEF RunnerSpeaks

\* A step that says nothing, and after which every session is as much at work
\* as before, changes nothing of what the hub will show.
LEMMA SilentKeepsAnnounced ==
  ASSUME CalmInv, UNCHANGED <<ws, toHub, status>>,
         SameRows,
         \A s \in Session : Prompted(s) => Prompted(s)',
         \A s \in Session \ astray' : Working(s)' <=> Working(s)
  PROVE  Announced'
<1> SUFFICES ASSUME NEW s \in Session \ astray', ~Prompted(s)'
             PROVE  IF ws = NoConn THEN ~Working(s)'
                    ELSE WillShow(toHub[ws], s, status[s]) <=> Working(s)'
  BY DEF Announced
<1> QED
  BY DEF CalmInv, Announced, SameRows

\* A step whose last word on a session is what the session's run then does.
LEMMA SpeaksKeepsAnnounced ==
  ASSUME Inv, CalmInv, NEW t \in Session, NEW p \in Seq(RunnerToHubMsg), p # << >>,
         \A i \in 1..Len(p) : p[i].session = t, Rules(p[Len(p)], t),
         RunnerSpeaks(t, p),
         \A s \in Session \ {t} : Prompted(s) => Prompted(s)',
         \A s \in Session \ {t} : Working(s)' <=> Working(s),
         \A s \in Session \ ({t} \cup astray') : s \notin astray,
         t \in astray' \/ (Working(t)' <=> SaysActive(p[Len(p)]))
  PROVE  Announced'
<1>1. /\ ws \in Conn
      /\ ws' = ws
      /\ status' = status
      /\ toHub'[ws] = toHub[ws] \o p
      /\ toHub[ws] \in Seq(RunnerToHubMsg)
  BY SpeaksChannels, CalmChannels DEF RunnerSpeaks, hubVars, rowVars
<1> SUFFICES ASSUME NEW s \in Session \ astray', ~Prompted(s)'
             PROVE  WillShow(toHub'[ws], s, status[s]) <=> Working(s)'
  BY <1>1, NoConnFresh DEF Announced
<1>2. WillShow(toHub[ws] \o p, s, status[s])
        <=> IF s = t THEN SaysActive(p[Len(p)]) ELSE WillShow(toHub[ws], s, status[s])
  BY <1>1, LastWordDecides
<1>3. s # t => (WillShow(toHub[ws], s, status[s]) <=> Working(s))
  BY <1>1, NoConnFresh DEF CalmInv, Announced
<1> QED
  BY <1>1, <1>2, <1>3

-----------------------------------------------------------------------------
\* The handlers of the hub's messages.

\* A handler finds its connection open, and what it sends is in flight.
LEMMA CalmSends ==
  ASSUME Inv, CalmInv, link = "open", NEW p, RunnerSends(p)
  PROVE  ws \in Conn /\ toHub' = [toHub EXCEPT ![ws] = @ \o p]
BY DEF Inv, WireInv, WireTypeOK, HasSocket, CalmInv, OneConnection, RunnerSends

\* Sending nothing.
LEMMA NothingSent ==
  ASSUME Inv, ws \in Conn, toHub' = toHub
  PROVE  << >> \in Seq(RunnerToHubMsg) /\ toHub' = [toHub EXCEPT ![ws] = @ \o << >>]
<1>1. toHub[ws] \o << >> = toHub[ws] /\ << >> \in Seq(RunnerToHubMsg)
  BY CalmChannels, ConcatEmptySeq, EmptySeq
<1> QED
  BY <1>1, CalmChannels

\* A session that was prompted, or has a run, has a row.
LEMMA SpokenOfHasRow ==
  ASSUME CalmInv, NEW s \in Session, Prompted(s) \/ ~NoRunOf(s)
  PROVE  status[s] # "absent"
BY DEF CalmInv, RowFirst

\* The message that a handler was given.
LEMMA HandlerReads ==
  ASSUME Inv, CalmInv, NEW m, Delivered(m), RunnerConsumes
  PROVE  /\ ws \in Conn
         /\ link = "open"
         /\ Consumes
         /\ toRunner[ws][1] = m
         /\ 1 \in 1..Len(toRunner[ws])
         /\ \A s : Prompts(m, s) => Prompted(s)
<1>1. WireInv
  BY DEF Inv
<1>2. /\ ws \in Conn
      /\ link = "open"
      /\ Consumes
      /\ toRunner[ws][1] = m
  BY <1>1, DeliveredHead DEF Consumes
<1>3. 1 \in 1..Len(toRunner[ws])
  BY <1>1, DeliveredHead, EmptySeq
<1> QED
  BY <1>2, <1>3 DEF Prompted

\* The status messages of runSession: all about the session, the last of them
\* "running", none of them with a conversation.
LEMMA RunSessionSays ==
  ASSUME NEW s \in Session, NEW n \in Nat
  PROVE  LET p == <<SessionStatus(s, "running")>> \o Resumptions(s, n)
         IN /\ p \in Seq(RunnerToHubMsg)
            /\ p # << >>
            /\ \A i \in 1..Len(p) : p[i] = SessionStatus(s, "running")
            /\ Rules(p[Len(p)], s)
            /\ SaysActive(p[Len(p)])
<1> DEFINE m == SessionStatus(s, "running")
           p == <<m>> \o Resumptions(s, n)
<1>1. m \in RunnerToHubMsg
  BY StatusMsg DEF Status
<1>2. <<m>> \in Seq({m}) /\ Len(<<m>>) = 1
  OBVIOUS
<1>3. Resumptions(s, n) \in Seq({m})
  BY SeqDef DEF Resumptions
<1>4. p \in Seq({m}) /\ Len(p) = 1 + Len(Resumptions(s, n))
  BY <1>2, <1>3, ConcatProperties
<1>5. Len(p) \in Nat /\ Len(p) >= 1
  BY <1>3, <1>4, LenProperties
<1>6. \A i \in 1..Len(p) : p[i] = m
  BY <1>4, ElementOfSeq
<1>7. p[Len(p)] = m
  BY <1>5, <1>6
<1>8. p \in Seq(RunnerToHubMsg)
  BY RunSessionMsgs
<1>9. Rules(m, s) /\ SaysActive(m)
  BY DEF Rules, SaysActive, SessionStatus, ActiveStatus
<1>10. p # << >>
  BY <1>5, EmptySeq
<1> HIDE DEF p, m
<1> QED
  BY <1>6, <1>7, <1>8, <1>9, <1>10 DEF p, m

\* Starting a run for a session whose row exists: the new run resumes what the
\* session was known to resume, and the last word on it is "running".
LEMMA RunSessionKeepsCalm ==
  ASSUME Inv, CalmInv, Recalls, NEW s \in Session, NEW m, Delivered(m), Prompts(m, s),
         RunSession(s, ResolveSdkSessionId(s)), RunnerConsumes,
         UNCHANGED <<hubVars, ws, link, hubWs, cut>>
  PROVE  CalmInv'
<1> DEFINE k0 == ResolveSdkSessionId(s)
           old == sessions[s]
           n == IF old = NoRun THEN 0 ELSE Cardinality(runs[old].pending)
           p == <<SessionStatus(s, "running")>> \o Resumptions(s, n)
<1>1. /\ RunnerInv
      /\ sessions \in [Session -> Run \cup {NoRun}]
      /\ sdkIds \in [Session -> MaybeSdk]
      /\ \A q \in DOMAIN runs : runs[q] \in RunState
  BY DEF Inv, RunnerInv, RunnerTypeOK, ResumeMap
<1>2. PICK r \in Run \ DOMAIN runs :
        /\ runs' = [q \in DOMAIN runs \cup {r} |->
                      IF q = r THEN NewRun(s, k0)
                      ELSE IF q = old THEN Aborted(runs[q]) ELSE runs[q]]
        /\ sessions' = [sessions EXCEPT ![s] = r]
        /\ sdkIds' = sdkIds
        /\ RunnerSends(p)
  BY DEF RunSession
<1>3. /\ DOMAIN runs' = DOMAIN runs \cup {r}
      /\ runs'[r] = NewRun(s, k0)
      /\ \A q \in DOMAIN runs : /\ runs'[q].session = runs[q].session
                                /\ runs'[q].sdk = runs[q].sdk
                                /\ runs'[q].phase = runs[q].phase
                                /\ \/ runs'[q].pending = runs[q].pending
                                   \/ runs'[q].pending = {}
      /\ \A t \in Session : sessions'[t] = IF t = s THEN r ELSE sessions[t]
  BY <1>1, <1>2 DEF Aborted, RunState
<1>4. \A t \in Session : sessions[t] # NoRun => /\ sessions[t] \in DOMAIN runs
                                                /\ runs[sessions[t]].session = t
  BY <1>1 DEF RunnerInv, EntriesLive, Current, Live
<1>5. n \in Nat
  BY <1>1, <1>4, PendingFinite
<1> HIDE DEF n
<1>6. /\ p \in Seq(RunnerToHubMsg)
      /\ p # << >>
      /\ \A i \in 1..Len(p) : p[i] = SessionStatus(s, "running")
      /\ Rules(p[Len(p)], s)
      /\ SaysActive(p[Len(p)])
  BY <1>5, RunSessionSays
<1> HIDE DEF p
<1>7. \A i \in 1..Len(p) : p[i].session = s
  BY <1>6 DEF SessionStatus
<1>8. /\ ws \in Conn
      /\ link = "open"
      /\ Consumes
      /\ toRunner[ws][1] = m
      /\ Prompted(s)
  BY HandlerReads
<1>9. toHub' = [toHub EXCEPT ![ws] = @ \o p]
  BY <1>2, <1>8, CalmSends
<1>10. RunnerSpeaks(s, p)
  <2>1. status[s] # "absent"
    BY <1>8, SpokenOfHasRow
  <2>2. \A q \in DOMAIN runs' :
          \/ runs'[q].session = s
          \/ q \in DOMAIN runs /\ runs'[q].session = runs[q].session
    BY <1>3 DEF NewRun
  <2> QED
    BY <1>8, <1>9, <2>1, <2>2 DEF RunnerSpeaks
<1>11. OneConnection' /\ EmptyResync' /\ RowFirst' /\ StartFirst'
  BY <1>6, <1>7, <1>10, SpeaksKeepsOrder
<1>12. AskingIsActive'
  BY <1>3 DEF CalmInv, AskingIsActive, NewRun
<1>13. OneId'
  <2>1. \A t \in Session : ResolveSdkSessionId(t)' = ResolveSdkSessionId(t)
    <3>1. ASSUME NEW t \in Session, t # s
          PROVE  ResolveSdkSessionId(t)' = ResolveSdkSessionId(t)
      <4>1. sessions'[t] = sessions[t] /\ sdkIds' = sdkIds
        BY <1>2, <1>3, <3>1
      <4>2. sessions[t] # NoRun =>
              runs'[sessions[t]].sdk = runs[sessions[t]].sdk
        BY <1>3, <1>4
      <4> QED
        BY <4>1, <4>2 DEF ResolveSdkSessionId
    <3>2. k0 = NoSdk => sdkIds[s] = NoSdk
      BY DEF ResolveSdkSessionId
    <3>3. ResolveSdkSessionId(s)' = IF k0 # NoSdk THEN k0 ELSE sdkIds[s]
      BY <1>2, <1>3, NoRunFresh DEF ResolveSdkSessionId, NewRun
    <3>4. ResolveSdkSessionId(s)' = k0
      BY <3>2, <3>3
    <3> QED
      BY <3>1, <3>4
  <2>2. ASSUME NEW t \in Session, NEW k \in SdkId, KnownAs(t, k)'
        PROVE  KnownAs(t, k) \/ ResolveSdkSessionId(t) = k
    <3>1. CASE sdkIds'[t] = k \/ sdkOf'[t] = k
      BY <1>2, <3>1 DEF hubVars, rowVars, KnownAs
    <3>2. CASE \E q \in DOMAIN runs' : runs'[q].session = t /\ runs'[q].sdk = k
      BY <1>3, <3>2 DEF KnownAs, NewRun
    <3>3. ASSUME NEW c \in Conn, NEW i \in 1..Len(toHub'[c]),
                 toHub'[c][i] = SessionDone(t, k)
          PROVE  KnownAs(t, k)
      <4>1. \A j \in 1..Len(p) : p[j] # SessionDone(t, k)
        BY <1>6 DEF SessionStatus, SessionDone
      <4>2. i \in 1..Len(toHub[c]) /\ toHub'[c][i] = toHub[c][i]
        BY <1>6, <1>7, <1>10, <3>3, <4>1, SpeaksChannels
      <4> QED
        BY <3>3, <4>2 DEF KnownAs
    <3> QED
      BY <2>2, <3>1, <3>2, <3>3 DEF KnownAs, SessionDone
  <2>3. ASSUME NEW t \in Session \ split', sessions'[t] # NoRun
        PROVE  runs'[sessions'[t]].sdk = ResolveSdkSessionId(t)
    BY <1>3, <1>4, <2>3 DEF CalmInv, OneId, NewRun, Recalls
  <2> QED
    BY <2>1, <2>2, <2>3 DEF CalmInv, OneId, Recalls
<1>14. Announced'
  <2>1. \A t \in Session \ {s} : Prompted(t) => Prompted(t)'
    BY <1>8, ConsumesPrompted DEF Prompts
  <2>2. \A t \in Session \ {s} : Working(t)' <=> Working(t)
    BY <1>3, <1>4 DEF Working
  <2>3. Working(s)'
    BY <1>3, NoRunFresh DEF Working, NewRun
  <2>4. \A t \in Session \ ({s} \cup astray') : t \notin astray
    BY <1>3 DEF Recalls, Begins
  <2> QED
    BY <1>6, <1>7, <1>10, <2>1, <2>2, <2>3, <2>4, SpeaksKeepsAnnounced
<1> QED
  BY <1>11, <1>12, <1>13, <1>14 DEF CalmInv

\* A step that names no conversation: no run's id changes, and a result that
\* is sent reports an id that is known.
LEMMA SameRunsKeepOneId ==
  ASSUME Inv, CalmInv, Recalls, UNCHANGED <<sessions, sdkIds, sdkOf>>,
         DOMAIN runs' = DOMAIN runs,
         \A q \in DOMAIN runs : /\ runs'[q].session = runs[q].session
                                /\ runs'[q].sdk = runs[q].sdk,
         \A c \in Conn : \A i \in 1..Len(toHub'[c]) : \A t \in Session, k \in SdkId :
           toHub'[c][i] = SessionDone(t, k) => KnownAs(t, k)
  PROVE  OneId'
<1>1. \A t \in Session : sessions[t] # NoRun => sessions[t] \in DOMAIN runs
  BY DEF Inv, RunnerInv, EntriesLive, Current, Live
<1>2. \A t \in Session : ResolveSdkSessionId(t)' = ResolveSdkSessionId(t)
  BY <1>1 DEF ResolveSdkSessionId
<1>3. ASSUME NEW t \in Session, NEW k \in SdkId, KnownAs(t, k)'
      PROVE  KnownAs(t, k)
  <2>1. CASE sdkIds'[t] = k \/ sdkOf'[t] = k
    BY <2>1 DEF KnownAs
  <2>2. CASE \E q \in DOMAIN runs' : runs'[q].session = t /\ runs'[q].sdk = k
    BY <2>2 DEF KnownAs
  <2>3. CASE \E c \in Conn : \E i \in 1..Len(toHub'[c]) : toHub'[c][i] = SessionDone(t, k)
    BY <2>3
  <2> QED
    BY <1>3, <2>1, <2>2, <2>3 DEF KnownAs, SessionDone
<1> QED
  BY <1>1, <1>2, <1>3 DEF CalmInv, OneId, Recalls

\* A result in flight reports an id that is known, and so does one that is
\* neither new nor among what is sent.
LEMMA OldResultsKnown ==
  ASSUME Inv, CalmInv, NEW s, NEW p \in Seq(RunnerToHubMsg),
         \A i \in 1..Len(p) : p[i].session = s /\ p[i].type # "session_done",
         RunnerSpeaks(s, p)
  PROVE  \A c \in Conn : \A i \in 1..Len(toHub'[c]) : \A t \in Session, k \in SdkId :
           toHub'[c][i] = SessionDone(t, k) => KnownAs(t, k)
<1> SUFFICES ASSUME NEW c \in Conn, NEW i \in 1..Len(toHub'[c]),
                    NEW t \in Session, NEW k \in SdkId,
                    toHub'[c][i] = SessionDone(t, k)
             PROVE  KnownAs(t, k)
  OBVIOUS
<1>1. \A j \in 1..Len(p) : p[j] # SessionDone(t, k)
  BY DEF SessionDone
<1>2. i \in 1..Len(toHub[c]) /\ toHub'[c][i] = toHub[c][i]
  BY <1>1, SpeaksChannels
<1> QED
  BY <1>2 DEF KnownAs

\* A run of the right session behind every entry of the sessions map.
LEMMA EntryOf ==
  ASSUME Inv, NEW t \in Session, sessions[t] # NoRun
  PROVE  /\ sessions[t] \in DOMAIN runs
         /\ ~runs[sessions[t]].aborted
         /\ runs[sessions[t]].session = t
BY DEF Inv, RunnerInv, EntriesLive, Current, Live

\* A directory that is refused: the session was never started.
LEMMA RejectCwdKeepsCalm ==
  ASSUME Inv, CalmInv, Recalls, NEW s \in Session, RejectCwd(s), UNCHANGED hubVars
  PROVE  CalmInv'
<1> DEFINE m == HubStartSession(s)
           p == <<SessionError(s)>>
<1>1. /\ Delivered(m) /\ RunnerConsumes /\ RunnerSends(p)
      /\ UNCHANGED <<sessions, sdkIds, runs, ws, link, hubWs, cut>>
  BY DEF RejectCwd, runnerVars
<1>2. Prompts(m, s)
  BY DEF Prompts, HubStartSession
<1>3. /\ ws \in Conn
      /\ link = "open"
      /\ Consumes
      /\ toRunner[ws][1] = m
      /\ 1 \in 1..Len(toRunner[ws])
      /\ Prompted(s)
  BY <1>1, <1>2, HandlerReads
<1>4. /\ p \in Seq(RunnerToHubMsg) /\ p # << >> /\ Len(p) = 1
      /\ p[1] = SessionError(s)
  BY DEF SessionError, RunnerToHubMsg
<1>5. /\ \A i \in 1..Len(p) : p[i].session = s /\ p[i].type # "session_done"
      /\ Rules(p[Len(p)], s)
      /\ ~SaysActive(p[Len(p)])
  BY <1>4 DEF SessionError, Rules, SaysActive
<1> HIDE DEF p
<1>6. NoRunOf(s)
  BY <1>3 DEF CalmInv, StartFirst
<1>7. toHub' = [toHub EXCEPT ![ws] = @ \o p]
  BY <1>1, <1>3, CalmSends
<1>8. RunnerSpeaks(s, p)
  BY <1>1, <1>3, <1>7, SpokenOfHasRow DEF RunnerSpeaks, SameSessions
<1>9. OneConnection' /\ EmptyResync' /\ RowFirst' /\ StartFirst'
  BY <1>4, <1>5, <1>8, SpeaksKeepsOrder
<1>10. AskingIsActive'
  BY <1>1 DEF CalmInv, AskingIsActive
<1>11. OneId'
  BY <1>1, <1>4, <1>5, <1>8, OldResultsKnown, SameRunsKeepOneId DEF hubVars, rowVars
<1>12. Announced'
  <2>1. \A t \in Session \ {s} : Prompted(t) => Prompted(t)'
    BY <1>2, <1>3, ConsumesPrompted DEF Prompts
  <2>2. \A t \in Session : Working(t)' <=> Working(t)
    BY <1>1 DEF Working
  <2>3. ~Working(s)
    BY <1>6, EntryOf DEF Working, NoRunOf
  <2>4. SameRows
    BY <1>1 DEF Recalls, Begins, SameRows
  <2> QED
    BY <1>4, <1>5, <1>8, <2>1, <2>2, <2>3, <2>4, SpeaksKeepsAnnounced DEF SameRows
<1> QED
  BY <1>9, <1>10, <1>11, <1>12 DEF CalmInv

\* A step of the open runner on its own: it takes a message that is no prompt,
\* and sends nothing.
LEMMA QuietHandlerKeepsCalm ==
  ASSUME Inv, CalmInv, Recalls, NEW m, Delivered(m), \A s : ~Prompts(m, s), RunnerConsumes,
         UNCHANGED <<hubVars, sessions, sdkIds, runs, ws, link, hubWs, cut, toHub>>
  PROVE  CalmInv'
<1>1. /\ ws \in Conn
      /\ link = "open"
      /\ Consumes
      /\ toRunner[ws][1] = m
  BY HandlerReads
<1> DEFINE p == << >>
<1>2. /\ p \in Seq(RunnerToHubMsg)
      /\ \A i \in 1..Len(p) : FALSE
      /\ toHub' = [toHub EXCEPT ![ws] = @ \o p]
  BY <1>1, NothingSent
<1>3. RunnerSpeaks(0, p)
  BY <1>1, <1>2 DEF RunnerSpeaks, SameSessions
<1> HIDE DEF p
<1>4. OneConnection' /\ EmptyResync' /\ RowFirst' /\ StartFirst'
  BY <1>2, <1>3, SpeaksKeepsOrder
<1>5. AskingIsActive'
  BY DEF CalmInv, AskingIsActive
<1>6. OneId'
  BY <1>2, <1>3, OldResultsKnown, SameRunsKeepOneId DEF hubVars, rowVars
<1>7. Announced'
  <2>1. \A t \in Session : Prompted(t) => Prompted(t)'
    BY <1>1, ConsumesPrompted
  <2>2. \A t \in Session : Working(t)' <=> Working(t)
    BY DEF Working
  <2>3. SameRows
    BY DEF Recalls, Begins, SameRows
  <2> QED
    BY <2>1, <2>2, <2>3, SilentKeepsAnnounced DEF hubVars, rowVars
<1> QED
  BY <1>4, <1>5, <1>6, <1>7 DEF CalmInv

\* An answer that reaches the session's run: it goes on working.
LEMMA ResolvePromptKeepsCalm ==
  ASSUME Inv, CalmInv, Recalls, NEW s \in Session, NEW n \in PromptNo, ResolvePrompt(s, n),
         UNCHANGED hubVars
  PROVE  CalmInv'
<1> DEFINE r == sessions[s]
           p == <<SessionStatus(s, "running")>>
<1>1. PICK a \in Run : Delivered(HubRespondToPrompt(s, n, a))
  BY DEF ResolvePrompt
<1> DEFINE m == HubRespondToPrompt(s, n, a)
<1>2. /\ RunnerConsumes /\ RunnerSends(p)
      /\ r # NoRun
      /\ n \in runs[r].pending
      /\ runs' = [runs EXCEPT ![r].pending = @ \ {n}]
      /\ UNCHANGED <<sessions, sdkIds, ws, link, hubWs, cut>>
  BY DEF ResolvePrompt
<1>3. \A t : ~Prompts(m, t)
  BY DEF Prompts, HubRespondToPrompt
<1>4. /\ ws \in Conn
      /\ link = "open"
      /\ Consumes
      /\ toRunner[ws][1] = m
  BY <1>1, <1>2, HandlerReads
<1>5. r \in DOMAIN runs /\ runs[r].session = s /\ runs[r].phase = "active"
  <2>1. r \in DOMAIN runs /\ runs[r].session = s
    BY <1>2, EntryOf
  <2> QED
    BY <1>2, <2>1 DEF CalmInv, AskingIsActive
<1>6. \A q \in DOMAIN runs : runs[q] \in RunState
  BY DEF Inv, RunnerInv, RunnerTypeOK
<1>7. /\ DOMAIN runs' = DOMAIN runs
      /\ \A q \in DOMAIN runs : /\ runs'[q].session = runs[q].session
                                /\ runs'[q].sdk = runs[q].sdk
                                /\ runs'[q].phase = runs[q].phase
                                /\ q # r => runs'[q].pending = runs[q].pending
  BY <1>2, <1>6 DEF RunState
<1>8. /\ p \in Seq(RunnerToHubMsg) /\ p # << >> /\ Len(p) = 1
      /\ p[1] = SessionStatus(s, "running")
  BY StatusMsg DEF Status
<1>9. /\ \A i \in 1..Len(p) : p[i].session = s /\ p[i].type # "session_done"
      /\ Rules(p[Len(p)], s)
      /\ SaysActive(p[Len(p)])
  BY <1>8 DEF SessionStatus, Rules, SaysActive, ActiveStatus
<1> HIDE DEF p, m, r
<1>10. toHub' = [toHub EXCEPT ![ws] = @ \o p]
  BY <1>2, <1>4, CalmSends
<1>11. RunnerSpeaks(s, p)
  <2>1. status[s] # "absent"
    BY <1>5, SpokenOfHasRow DEF NoRunOf
  <2> QED
    BY <1>2, <1>4, <1>7, <1>10, <2>1 DEF RunnerSpeaks, SameSessions
<1>12. OneConnection' /\ EmptyResync' /\ RowFirst' /\ StartFirst'
  BY <1>8, <1>9, <1>11, SpeaksKeepsOrder
<1>13. AskingIsActive'
  BY <1>5, <1>7 DEF CalmInv, AskingIsActive
<1>14. OneId'
  BY <1>2, <1>7, <1>8, <1>9, <1>11, OldResultsKnown, SameRunsKeepOneId DEF hubVars, rowVars
<1>15. Announced'
  <2>1. \A t \in Session : Prompted(t) => Prompted(t)'
    BY <1>3, <1>4, ConsumesPrompted
  <2>2. \A t \in Session : Working(t)' <=> Working(t)
    BY <1>2, <1>7, EntryOf DEF Working
  <2>3. Working(s)
    BY <1>2, <1>5 DEF Working, r
  <2>4. SameRows
    BY <1>2 DEF Recalls, Begins, SameRows
  <2> QED
    BY <1>8, <1>9, <1>11, <2>1, <2>2, <2>3, <2>4, SpeaksKeepsAnnounced DEF SameRows
<1> QED
  BY <1>12, <1>13, <1>14, <1>15 DEF CalmInv

\* Every handler of the runner.
LEMMA RunnerHandlesKeepsCalm ==
  ASSUME Inv, CalmInv, Recalls, RunnerHandles, UNCHANGED hubVars
  PROVE  CalmInv'
<1>1. ASSUME NEW s \in Session, StartSession(s) PROVE CalmInv'
  BY <1>1, RunSessionKeepsCalm DEF StartSession, Prompts, HubStartSession
<1>2. ASSUME NEW s \in Session, SendPrompt(s) PROVE CalmInv'
  BY <1>2, RunSessionKeepsCalm DEF SendPrompt, Prompts, HubSendPrompt
<1>3. ASSUME NEW s \in Session, NEW p \in PromptNo, IgnoreResponse(s, p) PROVE CalmInv'
  <2>1. PICK q \in Run : Delivered(HubRespondToPrompt(s, p, q))
    BY <1>3 DEF IgnoreResponse
  <2>2. \A t : ~Prompts(HubRespondToPrompt(s, p, q), t)
    BY DEF Prompts, HubRespondToPrompt
  <2> QED
    BY <1>3, <2>1, <2>2, QuietHandlerKeepsCalm DEF IgnoreResponse, runnerVars
<1>4. ASSUME HandleResync PROVE CalmInv'
  <2>1. PICK m \in ResumeMap : Delivered(HubRunnerResync(m)) /\ sdkIds' = m
    BY <1>4 DEF HandleResync
  <2>2. RunnerConsumes /\ UNCHANGED <<sessions, runs, ws, link, hubWs, cut, toHub>>
    BY <1>4 DEF HandleResync
  <2>3. \A t : ~Prompts(HubRunnerResync(m), t)
    BY DEF Prompts, HubRunnerResync
  <2>4. /\ ws \in Conn
        /\ 1 \in 1..Len(toRunner[ws])
        /\ toRunner[ws][1] = HubRunnerResync(m)
    BY <2>1, <2>2, HandlerReads
  <2>5. m = NoSdkKnown /\ sdkIds = NoSdkKnown
    BY <2>4 DEF CalmInv, EmptyResync, HubRunnerResync
  <2> QED
    BY <2>1, <2>2, <2>3, <2>5, QuietHandlerKeepsCalm
<1> QED
  BY <1>1, <1>2, <1>3, <1>4, RejectCwdKeepsCalm, ResolvePromptKeepsCalm DEF RunnerHandles

-----------------------------------------------------------------------------
\* The SDK.

\* A run finds its connection open, its session with a row, and no resync
\* still to be read.
LEMMA RunIsConnected ==
  ASSUME Inv, CalmInv, NEW r \in DOMAIN runs
  PROVE  /\ link = "open"
         /\ ws \in Conn
         /\ runs[r] \in RunState
         /\ runs[r].session \in Session
         /\ status[runs[r].session] # "absent"
         /\ ~runs[r].aborted => sessions[runs[r].session] = r
<1>1. link = "open"
  BY DEF CalmInv, OneConnection
<1>2. ws \in Conn
  BY <1>1 DEF Inv, WireInv, WireTypeOK, HasSocket
<1>3. runs[r] \in RunState /\ runs[r].session \in Session
  BY DEF Inv, RunnerInv, RunnerTypeOK, RunState
<1>4. status[runs[r].session] # "absent"
  BY <1>3, SpokenOfHasRow DEF NoRunOf
<1> QED
  BY <1>1, <1>2, <1>3, <1>4 DEF Inv, RunnerInv, NoOrphanRun

\* The init message: a resumed run gets the id it resumed.  A fresh one is the
\* current run of a session that nobody knows a conversation of -- or it was
\* told to stop, and the session is split.
LEMMA SdkStartsKeepsCalm ==
  ASSUME Inv, CalmInv, Recalls, NEW r \in DOMAIN runs, SdkStarts(r),
         NamedLate(r) => runs[r].session \in split',
         UNCHANGED hubVars
  PROVE  CalmInv'
<1> DEFINE s == runs[r].session
           p == << >>
<1>1. /\ link = "open"
      /\ ws \in Conn
      /\ s \in Session
      /\ ~runs[r].aborted => sessions[s] = r
  BY RunIsConnected
<1>2. PICK k0 \in SdkId : SdkInit(r, k0)
  BY DEF SdkStarts
<1>3. /\ runs[r].phase = "starting"
      /\ runs[r].sdk # NoSdk => k0 = runs[r].sdk
      /\ runs' = [runs EXCEPT ![r].phase = "active", ![r].sdk = k0]
      /\ UNCHANGED <<sessions, sdkIds, ws, link, hubWs, cut, toHub, toRunner>>
  BY <1>2 DEF SdkInit, wireVars
<1>4. \A q \in DOMAIN runs : runs[q] \in RunState
  BY RunIsConnected
<1>5. /\ DOMAIN runs' = DOMAIN runs
      /\ runs'[r].session = s /\ runs'[r].sdk = k0
      /\ runs'[r].phase = "active" /\ runs'[r].pending = runs[r].pending
      /\ \A q \in DOMAIN runs : q # r => runs'[q] = runs[q]
  BY <1>3, <1>4 DEF RunState
<1>6. p \in Seq(RunnerToHubMsg) /\ \A i \in 1..Len(p) : FALSE
  OBVIOUS
<1>7. RunnerSpeaks(s, p)
  <2>1. toHub' = [toHub EXCEPT ![ws] = @ \o p]
    BY <1>1, <1>3, NothingSent
  <2> QED
    BY <1>1, <1>3, <1>5, <2>1 DEF RunnerSpeaks, SameSessions
<1> HIDE DEF p
<1>8. OneConnection' /\ EmptyResync' /\ RowFirst' /\ StartFirst'
  BY <1>6, <1>7, SpeaksKeepsOrder
<1>9. AskingIsActive'
  BY <1>5 DEF CalmInv, AskingIsActive
<1>10. \A t \in Session : t # s => sessions[t] # r
  BY <1>1, NoRunFresh, EntryOf DEF Inv, RunnerInv, RunnerTypeOK
<1>11. r # NoRun
  BY NoRunFresh DEF Inv, RunnerInv, RunnerTypeOK
<1>12. ASSUME runs[r].sdk = k0 PROVE OneId'
  <2>1. \A q \in DOMAIN runs : /\ runs'[q].session = runs[q].session
                               /\ runs'[q].sdk = runs[q].sdk
    BY <1>5, <1>12
  <2> QED
    BY <1>3, <1>5, <2>1, SameRunsKeepOneId DEF KnownAs, hubVars, rowVars
<1>13. ASSUME runs[r].sdk # k0 PROVE OneId'
  <2>0. runs[r].sdk = NoSdk /\ (s \in Session \ split' => sessions[s] = r /\ s \notin split)
    <3>1. runs[r].sdk # runs'[r].sdk /\ r \in DOMAIN runs'
      BY <1>5, <1>13
    <3>2. runs[r].aborted => s \in split'
      BY <3>1 DEF NamedLate
    <3> QED
      BY <1>1, <1>3, <1>13, <3>2 DEF Recalls
  <2>1. ASSUME NEW t \in Session, t # s
        PROVE  /\ ResolveSdkSessionId(t)' = ResolveSdkSessionId(t)
               /\ sessions'[t] # NoRun => runs'[sessions'[t]] = runs[sessions[t]]
    BY <1>3, <1>5, <1>10, <2>1, EntryOf DEF ResolveSdkSessionId
  <2>2. k0 # NoSdk
    BY NoSdkFresh
  <2>3. s \in Session \ split' =>
          ResolveSdkSessionId(s)' = k0 /\ runs'[sessions'[s]].sdk = k0
    BY <1>3, <1>5, <1>11, <2>0, <2>2 DEF ResolveSdkSessionId
  <2>4. ASSUME NEW t \in Session, NEW k \in SdkId, KnownAs(t, k)'
        PROVE  KnownAs(t, k) \/ (t = s /\ k = k0)
    <3>1. CASE sdkIds'[t] = k \/ sdkOf'[t] = k
      BY <1>3, <3>1 DEF KnownAs, hubVars, rowVars
    <3>2. CASE \E q \in DOMAIN runs' : runs'[q].session = t /\ runs'[q].sdk = k
      BY <1>5, <3>2 DEF KnownAs
    <3>3. CASE \E c \in Conn : \E i \in 1..Len(toHub'[c]) : toHub'[c][i] = SessionDone(t, k)
      BY <1>3, <3>3 DEF KnownAs
    <3> QED
      BY <2>4, <3>1, <3>2, <3>3 DEF KnownAs, SessionDone
  <2>5. ASSUME s \in Session \ split', NEW k \in SdkId, KnownAs(s, k) PROVE FALSE
    <3>1. runs[r].sdk = k
      BY <1>1, <1>11, <2>0, <2>5 DEF CalmInv, OneId
    <3> QED
      BY <2>0, <3>1, NoSdkFresh
  <2>6. ASSUME NEW t \in Session \ split', NEW k \in SdkId, KnownAs(t, k)'
        PROVE  ResolveSdkSessionId(t)' = k
    <3>1. CASE t = s
      <4>1. k = k0
        BY <2>4, <2>5, <2>6, <3>1
      <4> QED
        BY <1>5, <2>3, <3>1, <4>1
    <3>2. CASE t # s
      <4>1. ResolveSdkSessionId(t) = k
        BY <2>4, <2>6, <3>2 DEF CalmInv, OneId, Recalls
      <4> QED
        BY <2>1, <3>2, <4>1
    <3> QED
      BY <3>1, <3>2
  <2>7. ASSUME NEW t \in Session \ split', sessions'[t] # NoRun
        PROVE  runs'[sessions'[t]].sdk = ResolveSdkSessionId(t)'
    <3>1. CASE t = s
      BY <1>5, <2>3, <3>1
    <3>2. CASE t # s
      <4>1. runs[sessions[t]].sdk = ResolveSdkSessionId(t)
        BY <1>3, <2>7 DEF CalmInv, OneId, Recalls
      <4> QED
        BY <2>1, <2>7, <3>2, <4>1
    <3> QED
      BY <3>1, <3>2
  <2> QED
    BY <2>6, <2>7 DEF OneId
<1>14. Announced'
  <2>1. \A t \in Session : Prompted(t)' <=> Prompted(t)
    BY <1>3 DEF Prompted, Prompts
  <2>2. \A t \in Session : Working(t)' <=> Working(t)
    BY <1>3, <1>5, EntryOf DEF Working
  <2>3. SameRows
    BY <1>3 DEF Recalls, Begins, SameRows
  <2> QED
    BY <1>3, <2>1, <2>2, <2>3, SilentKeepsAnnounced DEF hubVars, rowVars
<1> QED
  BY <1>8, <1>9, <1>12, <1>13, <1>14 DEF CalmInv

\* A step of the SDK with a last word on the run's session: the question, or the
\* result.  From a run that was told to stop, it leads the row astray.
LEMMA RunSpeaksKeepsCalm ==
  ASSUME Inv, CalmInv, Recalls, NEW r \in DOMAIN runs,
         runs[r].aborted => runs[r].session \in astray',
         NEW p \in Seq(RunnerToHubMsg), p # << >>,
         \A i \in 1..Len(p) : p[i].session = runs[r].session,
         Rules(p[Len(p)], runs[r].session),
         \A i \in 1..Len(p) : p[i].type = "session_done" => p[i].sdk = runs[r].sdk,
         RunnerSends(p),
         NEW new, runs' = [runs EXCEPT ![r] = new],
         new.session = runs[r].session, new.sdk = runs[r].sdk,
         new.pending # {} => new.phase = "active",
         new.phase # "resulted" <=> SaysActive(p[Len(p)]),
         UNCHANGED <<hubVars, sessions, sdkIds, ws, link, hubWs, cut, toRunner>>
  PROVE  CalmInv'
<1> DEFINE s == runs[r].session
<1>1. /\ link = "open"
      /\ ws \in Conn
      /\ s \in Session
      /\ status[s] # "absent"
      /\ ~runs[r].aborted => sessions[s] = r
  BY RunIsConnected
<1>2. /\ DOMAIN runs' = DOMAIN runs
      /\ runs'[r] = new
      /\ \A q \in DOMAIN runs : q # r => runs'[q] = runs[q]
  OBVIOUS
<1>3. toHub' = [toHub EXCEPT ![ws] = @ \o p]
  BY <1>1, CalmSends
<1>4. RunnerSpeaks(s, p)
  BY <1>1, <1>2, <1>3 DEF RunnerSpeaks, SameSessions
<1>5. OneConnection' /\ EmptyResync' /\ RowFirst' /\ StartFirst'
  BY <1>4, SpeaksKeepsOrder
<1>6. AskingIsActive'
  BY <1>2 DEF CalmInv, AskingIsActive
<1>7. \A t \in Session : t # s => sessions[t] # r
  BY <1>1, NoRunFresh, EntryOf DEF Inv, RunnerInv, RunnerTypeOK
<1>8. OneId'
  <2>1. ASSUME NEW c \in Conn, NEW i \in 1..Len(toHub'[c]),
               NEW t \in Session, NEW k \in SdkId, toHub'[c][i] = SessionDone(t, k)
        PROVE  KnownAs(t, k)
    <3>1. CASE i \in 1..Len(toHub[c]) /\ toHub'[c][i] = toHub[c][i]
      BY <2>1, <3>1 DEF KnownAs
    <3>2. CASE \E j \in 1..Len(p) : toHub'[c][i] = p[j]
      <4>1. t = s /\ k = runs[r].sdk
        BY <2>1, <3>2 DEF SessionDone
      <4> QED
        BY <4>1 DEF KnownAs
    <3> QED
      BY <1>4, <3>1, <3>2, SpeaksChannels
  <2>2. \A q \in DOMAIN runs : /\ runs'[q].session = runs[q].session
                               /\ runs'[q].sdk = runs[q].sdk
    BY <1>2
  <2> QED
    BY <1>2, <2>1, <2>2, SameRunsKeepOneId DEF hubVars, rowVars
<1>9. Announced'
  <2>1. \A t \in Session : Prompted(t)' <=> Prompted(t)
    BY DEF Prompted, Prompts
  <2>2. \A t \in Session \ {s} : Working(t)' <=> Working(t)
    BY <1>1, <1>2, <1>7, EntryOf DEF Working
  <2>3. r # NoRun
    BY NoRunFresh DEF Inv, RunnerInv, RunnerTypeOK
  <2>4. s \in astray' \/ (Working(s)' <=> SaysActive(p[Len(p)]))
    BY <1>1, <1>2, <2>3 DEF Working
  <2>5. SameRows
    BY DEF Recalls, Begins, SameRows
  <2> QED
    BY <1>1, <1>4, <2>1, <2>2, <2>4, <2>5, SpeaksKeepsAnnounced DEF SameRows
<1> QED
  BY <1>5, <1>6, <1>8, <1>9 DEF CalmInv

\* handleCanUseTool asks: two messages, the second "waiting_for_input".
LEMMA CanUseToolKeepsCalm ==
  ASSUME Inv, CalmInv, Recalls, NEW r \in DOMAIN runs, CanUseTool(r), UNCHANGED hubVars
  PROVE  CalmInv'
<1> DEFINE s == runs[r].session
           n == runs[r].asked + 1
           a == UserPrompt(s, n, r)
           b == SessionStatus(s, "waiting_for_input")
           p == <<a, b>>
           new == [runs[r] EXCEPT !.asked = n, !.pending = @ \cup {n}]
<1>1. /\ runs[r].phase = "active"
      /\ ~runs[r].aborted
      /\ n \in PromptNo
      /\ RunnerSends(p)
      /\ runs' = [runs EXCEPT ![r] = new]
      /\ UNCHANGED <<sessions, sdkIds, ws, link, hubWs, cut, toRunner>>
  BY DEF CanUseTool
<1>2. runs[r] \in RunState /\ s \in Session /\ r \in Run
  BY RunIsConnected DEF Inv, RunnerInv, RunnerTypeOK
<1>3. a \in RunnerToHubMsg /\ b \in RunnerToHubMsg
  BY <1>1, <1>2, StatusMsg DEF UserPrompt, RunnerToHubMsg, Status
<1>4. /\ new.session = s
      /\ new.sdk = runs[r].sdk
      /\ new.phase = "active"
  BY <1>1, <1>2 DEF RunState
<1>5. /\ a.session = s /\ a.type # "session_done"
      /\ b.session = s /\ b.type # "session_done"
      /\ Rules(b, s) /\ SaysActive(b)
  BY DEF UserPrompt, SessionStatus, Rules, SaysActive, ActiveStatus
<1> HIDE DEF a, b, new
<1>6. /\ p \in Seq(RunnerToHubMsg) /\ p # << >> /\ Len(p) = 2
      /\ p[1] = a /\ p[2] = b
  BY <1>3
<1>7. /\ \A i \in 1..Len(p) : p[i].session = s /\ p[i].type # "session_done"
      /\ Rules(p[Len(p)], s) /\ SaysActive(p[Len(p)])
  BY <1>5, <1>6
<1> HIDE DEF p
<1> QED
  BY <1>1, <1>4, <1>6, <1>7, RunSpeaksKeepsCalm

\* The result: it names the run's conversation, and the run is done working.
LEMMA SdkResultKeepsCalm ==
  ASSUME Inv, CalmInv, Recalls, NEW r \in DOMAIN runs, SdkResult(r),
         runs[r].aborted => runs[r].session \in astray',
         UNCHANGED hubVars
  PROVE  CalmInv'
<1> DEFINE s == runs[r].session
           p == <<SessionDone(s, runs[r].sdk)>>
           new == [runs[r] EXCEPT !.phase = "resulted"]
<1>1. /\ runs[r].pending = {}
      /\ RunnerSends(p)
      /\ runs' = [runs EXCEPT ![r] = new]
      /\ UNCHANGED <<sessions, sdkIds, ws, link, hubWs, cut, toRunner>>
  BY DEF SdkResult
<1>2. runs[r] \in RunState /\ s \in Session
  BY RunIsConnected
<1>4. /\ new.session = s
      /\ new.sdk = runs[r].sdk
      /\ new.phase = "resulted"
      /\ new.pending = {}
  BY <1>1, <1>2 DEF RunState
<1>5. SessionDone(s, runs[r].sdk) \in RunnerToHubMsg
  BY <1>2 DEF SessionDone, RunnerToHubMsg, RunState
<1>6. /\ p \in Seq(RunnerToHubMsg) /\ p # << >> /\ Len(p) = 1
      /\ p[1] = SessionDone(s, runs[r].sdk)
  BY <1>5
<1>7. /\ \A i \in 1..Len(p) : p[i].session = s /\ p[i].sdk = runs[r].sdk
      /\ Rules(p[Len(p)], s) /\ ~SaysActive(p[Len(p)])
  BY <1>6 DEF SessionDone, Rules, SaysActive
<1> HIDE DEF p, new
<1> QED
  BY <1>1, <1>4, <1>6, <1>7, RunSpeaksKeepsCalm

\* The finally block leaves the conversation where the run had it: in the
\* resume map.
LEMMA FinallyKeepsOneId ==
  ASSUME Inv, CalmInv, Recalls, NEW r \in DOMAIN runs, Finally(r), UNCHANGED sdkOf,
         \A c \in Conn : \A i \in 1..Len(toHub'[c]) : \A t \in Session, k \in SdkId :
           toHub'[c][i] = SessionDone(t, k) => KnownAs(t, k)
  PROVE  OneId'
<1>1. PICK s \in Session : s = runs[r].session
  BY RunIsConnected
<1>2. /\ DOMAIN runs' = DOMAIN runs \ {r}
      /\ \A q \in DOMAIN runs' : runs'[q] = runs[q]
  BY DEF Finally
<1>3. /\ sessions \in [Session -> Run \cup {NoRun}]
      /\ sdkIds \in [Session -> MaybeSdk]
      /\ runs[r].sdk \in MaybeSdk
      /\ r # NoRun
  BY NoRunFresh DEF Inv, RunnerInv, RunnerTypeOK, ResumeMap, RunState
<1>4. /\ \A t \in Session : sessions'[t] = IF t = s /\ sessions[s] = r THEN NoRun
                                           ELSE sessions[t]
      /\ \A t \in Session : sdkIds'[t] = IF t = s /\ runs[r].sdk # NoSdk
                                         THEN runs[r].sdk ELSE sdkIds[t]
  BY <1>1, <1>3 DEF Finally, Leaves
<1>5. ASSUME NEW t \in Session, sessions'[t] # NoRun
      PROVE  /\ sessions'[t] = sessions[t]
             /\ sessions[t] \in DOMAIN runs \ {r}
             /\ runs'[sessions[t]] = runs[sessions[t]]
  <2>1. sessions'[t] = sessions[t]
    BY <1>4, <1>5
  <2>2. sessions[t] \in DOMAIN runs /\ runs[sessions[t]].session = t
    BY <1>5, <2>1, EntryOf
  <2>3. sessions[t] # r
    BY <1>1, <1>4, <1>5, <2>1, <2>2
  <2> QED
    BY <1>2, <2>1, <2>2, <2>3
<1>6. runs[r].sdk # NoSdk /\ s \notin split' => runs[r].sdk = ResolveSdkSessionId(s)
  <2> SUFFICES ASSUME runs[r].sdk # NoSdk, s \notin split' PROVE runs[r].sdk = ResolveSdkSessionId(s)
    OBVIOUS
  <2>1. KnownAs(s, runs[r].sdk)
    BY <1>1 DEF KnownAs
  <2>2. runs[r].sdk \in SdkId
    BY <1>3 DEF MaybeSdk
  <2>3. s \in Session
    BY <1>1, RunIsConnected
  <2> QED
    BY <2>1, <2>2, <2>3 DEF CalmInv, OneId, Recalls
<1>7. ASSUME NEW t \in Session \ split' PROVE ResolveSdkSessionId(t)' = ResolveSdkSessionId(t)
  <2>1. CASE sessions'[t] # NoRun
    <3>1. runs[sessions[t]].sdk = ResolveSdkSessionId(t)
      BY <1>5, <2>1 DEF CalmInv, OneId, Recalls
    <3>2. ResolveSdkSessionId(t)' =
            IF ResolveSdkSessionId(t) # NoSdk THEN ResolveSdkSessionId(t) ELSE sdkIds'[t]
      BY <1>5, <2>1, <3>1 DEF ResolveSdkSessionId
    <3>3. ResolveSdkSessionId(t) = NoSdk => sdkIds[t] = NoSdk
      BY DEF ResolveSdkSessionId
    <3>4. ResolveSdkSessionId(t) = NoSdk => sdkIds'[t] = NoSdk
      BY <1>4, <1>6, <3>3
    <3> QED
      BY <3>2, <3>4
  <2>2. CASE sessions'[t] = NoRun
    <3>1. ResolveSdkSessionId(t)' = sdkIds'[t]
      BY <2>2 DEF ResolveSdkSessionId
    <3>2. CASE t = s /\ runs[r].sdk # NoSdk
      BY <1>4, <1>6, <3>1, <3>2
    <3>3. CASE ~(t = s /\ runs[r].sdk # NoSdk)
      <4>1. sdkIds'[t] = sdkIds[t]
        BY <1>4, <3>3
      <4>2. sessions[t] = NoRun \/ runs[sessions[t]].sdk = NoSdk
        BY <1>4, <2>2, <3>3
      <4> QED
        BY <3>1, <4>1, <4>2 DEF ResolveSdkSessionId
    <3> QED
      BY <3>2, <3>3
  <2> QED
    BY <2>1, <2>2
<1>8. ASSUME NEW t \in Session \ split', NEW k \in SdkId, KnownAs(t, k)'
      PROVE  ResolveSdkSessionId(t) = k
  <2> USE DEF CalmInv, OneId, Recalls
  <2>1. CASE sdkIds'[t] = k
    BY <1>4, <1>6, <2>1 DEF KnownAs
  <2>2. CASE sdkOf'[t] = k
    BY <2>2 DEF KnownAs
  <2>3. CASE \E q \in DOMAIN runs' : runs'[q].session = t /\ runs'[q].sdk = k
    <3>1. KnownAs(t, k)
      BY <1>2, <2>3 DEF KnownAs
    <3> QED
      BY <3>1
  <2>4. CASE \E c \in Conn : \E i \in 1..Len(toHub'[c]) : toHub'[c][i] = SessionDone(t, k)
    BY <2>4
  <2> QED
    BY <1>8, <2>1, <2>2, <2>3, <2>4 DEF KnownAs, SessionDone
<1>9. \A t \in Session \ split' : sessions'[t] # NoRun =>
        runs'[sessions'[t]].sdk = ResolveSdkSessionId(t)
  BY <1>5 DEF CalmInv, OneId, Recalls
<1> QED
  BY <1>7, <1>8, <1>9 DEF OneId

\* The generator ends quietly: the run was aborted, or had sent its result, or
\* the row goes astray.
LEMMA SdkEndKeepsCalm ==
  ASSUME Inv, CalmInv, Recalls, NEW r \in DOMAIN runs, UNCHANGED hubVars,
         SdkEnd(r) \/ (SdkEndEarly(r) /\ runs[r].session \in astray')
  PROVE  CalmInv'
<1> DEFINE p == << >>
<1>1. PICK s \in Session : s = runs[r].session
  BY RunIsConnected
<1>2. /\ Finally(r)
      /\ runs[r].phase = "resulted" \/ runs[r].aborted \/ s \in astray'
      /\ UNCHANGED <<ws, link, hubWs, cut, toHub, toRunner>>
  BY <1>1 DEF SdkEnd, SdkEndEarly, wireVars
<1>3. /\ link = "open"
      /\ ws \in Conn
      /\ status[s] # "absent"
  BY <1>1, RunIsConnected
<1>4. /\ DOMAIN runs' = DOMAIN runs \ {r}
      /\ \A q \in DOMAIN runs' : runs'[q] = runs[q]
  BY <1>2 DEF Finally
<1>5. p \in Seq(RunnerToHubMsg) /\ \A i \in 1..Len(p) : FALSE
  OBVIOUS
<1>6. RunnerSpeaks(s, p)
  <2>1. toHub' = [toHub EXCEPT ![ws] = @ \o p]
    BY <1>2, <1>3, NothingSent
  <2> QED
    BY <1>2, <1>3, <1>4, <2>1 DEF RunnerSpeaks, SameSessions
<1> HIDE DEF p
<1>7. OneConnection' /\ EmptyResync' /\ RowFirst' /\ StartFirst'
  BY <1>5, <1>6, SpeaksKeepsOrder
<1>8. AskingIsActive'
  BY <1>4 DEF CalmInv, AskingIsActive
<1>9. OneId'
  BY <1>2, <1>5, <1>6, OldResultsKnown, FinallyKeepsOneId DEF hubVars, rowVars
<1>10. Announced'
  <2>1. \A t \in Session : Prompted(t)' <=> Prompted(t)
    BY <1>2 DEF Prompted, Prompts
  <2>2. ASSUME NEW t \in Session \ astray' PROVE Working(t)' <=> Working(t)
    <3>1. sessions'[t] = IF sessions[t] = r /\ t = s THEN NoRun ELSE sessions[t]
      BY <1>1, <1>2 DEF Finally, Leaves, Inv, RunnerInv, RunnerTypeOK
    <3>2. CASE sessions[t] = r
      <4>1. r # NoRun
        BY NoRunFresh DEF Inv, RunnerInv, RunnerTypeOK
      <4>2. runs[r].session = t /\ ~runs[r].aborted
        BY <3>2, <4>1, EntryOf
      <4> QED
        BY <1>1, <1>2, <3>1, <3>2, <4>2 DEF Working
    <3>3. CASE sessions[t] # r
      BY <1>4, <3>1, <3>3, EntryOf DEF Working
    <3> QED
      BY <3>2, <3>3
  <2>3. \A t \in Session : sessions'[t] \in {sessions[t], NoRun}
    BY <1>2 DEF Finally, Leaves, Inv, RunnerInv, RunnerTypeOK
  <2>4. SameRows
    BY <2>3 DEF Recalls, Begins, SameRows
  <2> QED
    BY <1>2, <2>1, <2>2, <2>4, SilentKeepsAnnounced DEF hubVars, rowVars
<1> QED
  BY <1>7, <1>8, <1>9, <1>10 DEF CalmInv

\* The generator throws in a run that was not told to stop: an error, and the
\* session has no run.
LEMMA SdkThrowKeepsCalm ==
  ASSUME Inv, CalmInv, Recalls, NEW r \in DOMAIN runs, SdkThrow(r), UNCHANGED hubVars
  PROVE  CalmInv'
<1>1. PICK s \in Session : s = runs[r].session
  BY RunIsConnected
<1> DEFINE p == <<SessionError(s)>>
<1>2. /\ Finally(r)
      /\ ~runs[r].aborted
      /\ RunnerSends(p)
      /\ UNCHANGED <<ws, link, hubWs, cut, toRunner>>
  BY <1>1 DEF SdkThrow, Current
<1>3. /\ link = "open"
      /\ ws \in Conn
      /\ status[s] # "absent"
      /\ sessions[s] = r
  BY <1>1, <1>2, RunIsConnected
<1>4. /\ DOMAIN runs' = DOMAIN runs \ {r}
      /\ \A q \in DOMAIN runs' : runs'[q] = runs[q]
  BY <1>2 DEF Finally
<1>5. /\ p \in Seq(RunnerToHubMsg) /\ p # << >> /\ Len(p) = 1
      /\ p[1] = SessionError(s)
  BY DEF SessionError, RunnerToHubMsg
<1>6. /\ \A i \in 1..Len(p) : p[i].session = s /\ p[i].type # "session_done"
      /\ Rules(p[Len(p)], s)
      /\ ~SaysActive(p[Len(p)])
  BY <1>5 DEF SessionError, Rules, SaysActive
<1> HIDE DEF p
<1>7. RunnerSpeaks(s, p)
  <2>1. toHub' = [toHub EXCEPT ![ws] = @ \o p]
    BY <1>2, <1>3, CalmSends
  <2> QED
    BY <1>2, <1>3, <1>4, <2>1 DEF RunnerSpeaks, SameSessions
<1>8. OneConnection' /\ EmptyResync' /\ RowFirst' /\ StartFirst'
  BY <1>5, <1>6, <1>7, SpeaksKeepsOrder
<1>9. AskingIsActive'
  BY <1>4 DEF CalmInv, AskingIsActive
<1>10. OneId'
  BY <1>2, <1>5, <1>6, <1>7, OldResultsKnown, FinallyKeepsOneId DEF hubVars, rowVars
<1>11. Announced'
  <2>1. \A t \in Session : Prompted(t)' <=> Prompted(t)
    BY <1>2 DEF Prompted, Prompts
  <2>2. \A t \in Session : sessions'[t] = IF t = s THEN NoRun ELSE sessions[t]
    BY <1>1, <1>2, <1>3 DEF Finally, Leaves, Inv, RunnerInv, RunnerTypeOK
  <2>3. \A t \in Session \ {s} : Working(t)' <=> Working(t)
    <3> TAKE t \in Session \ {s}
    <3>1. sessions[t] # NoRun => sessions[t] \in DOMAIN runs /\ sessions[t] # r
      BY <1>1, EntryOf
    <3> QED
      BY <1>4, <2>2, <3>1 DEF Working
  <2>4. ~Working(s)'
    BY <2>2 DEF Working
  <2>5. SameRows
    BY <2>2 DEF Recalls, Begins, SameRows
  <2> QED
    BY <1>5, <1>6, <1>7, <2>1, <2>3, <2>4, <2>5, SpeaksKeepsAnnounced DEF SameRows
<1> QED
  BY <1>8, <1>9, <1>10, <1>11 DEF CalmInv

\* The steps of the SDK that lead no row astray.
LEMMA SdkStepsKeepsCalm ==
  ASSUME Inv, CalmInv, Recalls, SdkSteps, UNCHANGED hubVars,
         \A r \in DOMAIN runs : NamedLate(r) => runs[r].session \in split'
  PROVE  CalmInv'
BY SdkStartsKeepsCalm, CanUseToolKeepsCalm, SdkResultKeepsCalm, SdkEndKeepsCalm,
   SdkThrowKeepsCalm DEF SdkSteps, Current

\* And those that do.
LEMMA SdkStraysKeepsCalm ==
  ASSUME Inv, CalmInv, Recalls, NEW r \in DOMAIN runs, SdkStrays(r), UNCHANGED hubVars,
         runs[r].session \in astray'
  PROVE  CalmInv'
BY SdkResultKeepsCalm, SdkEndKeepsCalm DEF SdkStrays

-----------------------------------------------------------------------------
\* The runner connects, once.
LEMMA RunnerConnectsKeepsCalm ==
  ASSUME Inv, CalmInv, Recalls, RunnerConnects, UNCHANGED hubVars
  PROVE  CalmInv'
<1> USE DEF CalmInv, OneConnection
<1>1. /\ runs' = runs /\ sessions' = sessions /\ sdkIds' = sdkIds /\ hubWs' = hubWs
      /\ UNCHANGED <<status, sdkOf, runner>>
  BY DEF RunnerConnects, Connect, Open, ConnectFails, RunnerWsClose, runnerVars,
         hubVars, rowVars
<1>2. /\ ws \in Conn \cup {NoConn}
      /\ ws # NoConn <=> link \in {"firstTry", "retrying", "open"}
      /\ cut \in [Conn -> BOOLEAN]
  BY DEF Inv, WireInv, WireTypeOK, HasSocket
<1>7. SameRows
  BY <1>1 DEF Recalls, Begins, SameRows
<1>3. CASE \E c \in Conn : Connect(c)
  <2>1. PICK c \in Conn : Connect(c)
    BY <1>3
  <2>2. link = "boot" /\ ws = NoConn /\ runner = NoConn
    BY <1>2, <2>1 DEF Connect
  <2>3. /\ \A d \in Conn : toHub[d] = << >> /\ toRunner[d] = << >>
        /\ DOMAIN runs = {} /\ sdkIds = NoSdkKnown
        /\ \A s \in Session : status[s] = "absent"
    BY <2>2, NoConnFresh
  <2>4. /\ ws' = c /\ link' = "firstTry" /\ cut' = [cut EXCEPT ![c] = FALSE]
        /\ toHub' = toHub /\ toRunner' = toRunner
    BY <2>1, <2>2, <2>3, CalmChannels DEF Connect
  <2>5. OneConnection'
    BY <1>1, <1>2, <2>2, <2>3, <2>4
  <2>6. EmptyResync' /\ RowFirst' /\ StartFirst' /\ AskingIsActive'
    BY <1>1, <2>4 DEF EmptyResync, RowFirst, StartFirst, AskingIsActive, Prompted,
                      NoRunOf, Prompts, HubStartSession
  <2>7. OneId'
    BY <1>1, <2>4, SameRunsKeepOneId DEF KnownAs
  <2>8. Announced'
    <3> SUFFICES ASSUME NEW s \in Session \ astray', ~Prompted(s)'
                 PROVE  WillShow(toHub'[c], s, status[s]) <=> Working(s)'
      BY <1>1, <2>4, NoConnFresh DEF Announced
    <3>1. ~Working(s)'
      BY <1>1, <2>3, EntryOf DEF Working
    <3>2. ~WillShow(toHub'[c], s, status[s])
      BY <2>3, <2>4, EmptySeq DEF WillShow, ActiveStatus
    <3> QED
      BY <3>1, <3>2
  <2> QED
    BY <2>5, <2>6, <2>7, <2>8
<1>4. CASE Open
  <2>1. /\ runner = ws
        /\ link' = "open" /\ UNCHANGED <<ws, cut, toHub, toRunner>>
    BY <1>2, <1>4 DEF Open, Connecting
  <2>2. OneConnection'
    BY <1>1, <2>1
  <2>3. EmptyResync' /\ RowFirst' /\ StartFirst' /\ AskingIsActive'
    BY <1>1, <2>1 DEF EmptyResync, RowFirst, StartFirst, AskingIsActive, Prompted,
                      NoRunOf, Prompts, HubStartSession
  <2>4. OneId'
    BY <1>1, <2>1, SameRunsKeepOneId DEF KnownAs
  <2>5. Announced'
    BY <1>1, <1>7, <2>1, SilentKeepsAnnounced DEF Prompted, Prompts, Working
  <2> QED
    BY <2>2, <2>3, <2>4, <2>5
<1>5. ~(Connecting /\ cut[ws] /\ ConnectFails)
  BY <1>2 DEF Connecting
<1>6. ~RunnerWsClose
  BY <1>2 DEF RunnerWsClose
<1> QED
  BY <1>3, <1>4, <1>5, <1>6 DEF RunnerConnects

-----------------------------------------------------------------------------
\* The clients.

\* What the hub sends is in flight to the runner, behind what was.
LEMMA CalmHubSends ==
  ASSUME Inv, CalmInv, runner # NoConn, NEW m \in HubToRunnerMsg, HubSends(runner, m)
  PROVE  LET n == Len(toRunner[ws])
         IN /\ runner = ws
            /\ ws \in Conn
            /\ n \in Nat
            /\ \A c \in Conn : toRunner'[c] = IF c = ws THEN Append(toRunner[c], m)
                                              ELSE toRunner[c]
            /\ Len(toRunner'[ws]) = n + 1
            /\ \A i \in 1..n : toRunner'[ws][i] = toRunner[ws][i]
            /\ toRunner'[ws][n + 1] = m
            /\ \A s : Prompted(s)' <=> Prompted(s) \/ Prompts(m, s)
<1> DEFINE q == toRunner[ws]
           n == Len(q)
<1>1. runner = ws /\ ws \in Conn
  BY DEF CalmInv, OneConnection, Inv, WireInv, WireTypeOK
<1>2. hubWs[ws] = "open" /\ ~cut[ws]
  BY <1>1 DEF CalmInv, OneConnection
<1>3. \A c \in Conn : toRunner'[c] = IF c = ws THEN Append(toRunner[c], m) ELSE toRunner[c]
  BY <1>1, <1>2, CalmChannels DEF HubSends
<1>4. q \in Seq(HubToRunnerMsg) /\ n \in Nat
  BY <1>1, CalmChannels
<1>5. /\ toRunner'[ws] = Append(q, m)
      /\ Len(toRunner'[ws]) = n + 1
      /\ \A i \in 1..n : toRunner'[ws][i] = q[i]
      /\ toRunner'[ws][n + 1] = m
  <2>1. toRunner'[ws] = Append(q, m)
    BY <1>1, <1>3
  <2> HIDE DEF q
  <2> QED
    BY <1>4, <2>1, AppendProperties
<1>6. ASSUME NEW s PROVE Prompted(s)' <=> Prompted(s) \/ Prompts(m, s)
  <2>1. (\E i \in 1..n + 1 : Prompts(toRunner'[ws][i], s))
          <=> (\E i \in 1..n : Prompts(q[i], s)) \/ Prompts(m, s)
    <3>1. \A i : i \in 1..n + 1 <=> i \in 1..n \/ i = n + 1
      BY <1>4
    <3> HIDE DEF n, q
    <3> QED
      BY <1>5, <3>1
  <2>2. Prompted(s)' <=> \/ \E c \in Conn \ {ws} : \E i \in 1..Len(toRunner[c]) :
                              Prompts(toRunner[c][i], s)
                         \/ \E i \in 1..n + 1 : Prompts(toRunner'[ws][i], s)
    <3>1. Prompted(s)' <=> \E c \in Conn : \E i \in 1..Len(toRunner'[c]) :
                             Prompts(toRunner'[c][i], s)
      BY DEF Prompted, Prompts
    <3>2. (\E i \in 1..Len(toRunner'[ws]) : Prompts(toRunner'[ws][i], s))
            <=> \E i \in 1..n + 1 : Prompts(toRunner'[ws][i], s)
      BY <1>5
    <3>3. \A c \in Conn \ {ws} : toRunner'[c] = toRunner[c]
      BY <1>3
    <3> HIDE DEF n
    <3> QED
      BY <1>1, <3>1, <3>2, <3>3
  <2>3. Prompted(s) <=> \/ \E c \in Conn \ {ws} : \E i \in 1..Len(toRunner[c]) :
                              Prompts(toRunner[c][i], s)
                        \/ \E i \in 1..n : Prompts(q[i], s)
    BY <1>1 DEF Prompted
  <2> QED
    BY <2>1, <2>2, <2>3
<1> QED
  BY <1>1, <1>3, <1>4, <1>5, <1>6

\* The hub sends a message that is no resync, and starts no session that
\* anyone has spoken of: the order of the messages is kept.
LEMMA HubSendsKeepsOrder ==
  ASSUME Inv, CalmInv, Recalls, runner # NoConn, NEW m \in HubToRunnerMsg, HubSends(runner, m),
         m.type # "hub_runner_resync",
         \A s \in Session : m = HubStartSession(s) => NoRunOf(s) /\ ~Prompted(s),
         \A s \in Session : Prompts(m, s) => status'[s] # "absent",
         \A s \in Session : status'[s] = "absent" => status[s] = "absent",
         UNCHANGED <<sessions, runs, sdkIds, sdkOf, runner, ws, link, hubWs, cut, toHub>>
  PROVE  /\ OneConnection' /\ EmptyResync' /\ RowFirst' /\ StartFirst'
         /\ AskingIsActive' /\ OneId'
<1> DEFINE n == Len(toRunner[ws])
<1>1. /\ runner = ws
      /\ ws \in Conn
      /\ n \in Nat
      /\ \A c \in Conn : c # ws => toRunner'[c] = toRunner[c]
      /\ Len(toRunner'[ws]) = n + 1
      /\ \A i \in 1..n : toRunner'[ws][i] = toRunner[ws][i]
      /\ toRunner'[ws][n + 1] = m
      /\ \A s : Prompted(s)' <=> Prompted(s) \/ Prompts(m, s)
  BY CalmHubSends
<1>2. \A c \in Conn : \A i \in 1..Len(toRunner'[c]) :
        \/ i \in 1..Len(toRunner[c]) /\ toRunner'[c][i] = toRunner[c][i]
        \/ c = ws /\ i = n + 1
  <2> TAKE c \in Conn
  <2> TAKE i \in 1..Len(toRunner'[c])
  <2>1. CASE c # ws
    BY <1>1, <2>1
  <2>2. CASE c = ws
    <3>1. i \in 1..n \/ i = n + 1
      BY <1>1, <2>2
    <3> QED
      BY <1>1, <2>2, <3>1
  <2> QED
    BY <2>1, <2>2
<1>3. \A j \in 1..n : j \in 1..n /\ j # n + 1
  BY <1>1
<1> HIDE DEF n
<1>4. OneConnection'
  BY <1>1, NoConnFresh DEF CalmInv, OneConnection
<1>5. EmptyResync'
  BY <1>1, <1>2 DEF CalmInv, EmptyResync
<1>6. RowFirst'
  <2> SUFFICES ASSUME NEW s \in Session, status'[s] = "absent"
               PROVE  /\ ~Prompted(s)'
                      /\ NoRunOf(s)'
                      /\ \A c \in Conn : \A i \in 1..Len(toHub[c]) : toHub[c][i].session # s
    BY DEF RowFirst
  <2>1. /\ ~Prompted(s)
        /\ NoRunOf(s)
        /\ \A c \in Conn : \A i \in 1..Len(toHub[c]) : toHub[c][i].session # s
    BY DEF CalmInv, RowFirst
  <2> QED
    BY <1>1, <2>1 DEF NoRunOf
<1>7. StartFirst'
  <2> SUFFICES ASSUME NEW c \in Conn, NEW i \in 1..Len(toRunner'[c]), NEW s \in Session,
                      toRunner'[c][i] = HubStartSession(s)
               PROVE  NoRunOf(s)' /\ \A j \in 1..i - 1 : ~Prompts(toRunner'[c][j], s)
    BY DEF StartFirst, Prompts, HubStartSession
  <2>1. NoRunOf(s)' <=> NoRunOf(s)
    BY DEF NoRunOf
  <2>2. CASE i \in 1..Len(toRunner[c]) /\ toRunner'[c][i] = toRunner[c][i]
    <3>1. NoRunOf(s) /\ \A j \in 1..i - 1 : ~Prompts(toRunner[c][j], s)
      BY <2>2 DEF CalmInv, StartFirst
    <3>2. \A j \in 1..i - 1 : j \in 1..Len(toRunner[c])
      BY <2>2, CalmChannels
    <3>3. \A j \in 1..Len(toRunner[c]) : toRunner'[c][j] = toRunner[c][j]
      BY <1>1 DEF n
    <3> QED
      BY <2>1, <3>1, <3>2, <3>3
  <2>3. CASE c = ws /\ i = n + 1
    <3>1. NoRunOf(s) /\ ~Prompted(s)
      BY <1>1, <2>3
    <3>2. \A j \in 1..i - 1 : j \in 1..n
      BY <1>1, <2>3
    <3>3. \A j \in 1..n : ~Prompts(toRunner[ws][j], s)
      BY <1>1, <3>1 DEF Prompted, n
    <3> QED
      BY <1>1, <2>1, <2>3, <3>1, <3>2, <3>3
  <2> QED
    BY <1>2, <2>2, <2>3
<1>8. AskingIsActive'
  BY DEF CalmInv, AskingIsActive
<1>9. OneId'
  BY SameRunsKeepOneId DEF KnownAs
<1> QED
  BY <1>4, <1>5, <1>6, <1>7, <1>8, <1>9

\* What a client may do.
LEMMA ClientStepKeepsCalm ==
  ASSUME Inv, CalmInv, Recalls, ClientStep, UNCHANGED runnerVars
  PROVE  CalmInv'
<1>1. UNCHANGED <<sessions, sdkIds, runs, sdkOf, runner, ws, link, hubWs, cut, toHub>>
  BY DEF ClientStep, HandleStartSession, HandleSendPrompt, HandleRespondToPrompt,
         HandleArchiveSession, runnerVars, hubVars, rowVars, wireVars
<1>2. \A s \in Session : Working(s)' <=> Working(s)
  BY <1>1 DEF Working
<1>3. status \in [Session -> Status \cup {"absent"}] /\ SameRows
  BY <1>1 DEF Inv, HubInv, HubTypeOK, Recalls, Begins, SameRows
<1>4. ASSUME NEW s \in Session, NEW m \in HubToRunnerMsg, HubSends(runner, m),
             runner # NoConn,
             \A t : Prompts(m, t) <=> t = s,
             m.type # "hub_runner_resync",
             m = HubStartSession(s) => status[s] = "absent",
             status' = [status EXCEPT ![s] = "running"]
      PROVE  CalmInv'
  <2>1. \A t \in Session : m = HubStartSession(t) => NoRunOf(t) /\ ~Prompted(t)
    <3> TAKE t \in Session
    <3> SUFFICES ASSUME m = HubStartSession(t) PROVE NoRunOf(t) /\ ~Prompted(t)
      OBVIOUS
    <3>1. t = s
      BY <1>4 DEF HubStartSession, Prompts
    <3> QED
      BY <1>4, <3>1 DEF CalmInv, RowFirst
  <2>2. \A t \in Session : status'[t] = IF t = s THEN "running" ELSE status[t]
    BY <1>3, <1>4
  <2>3. /\ OneConnection' /\ EmptyResync' /\ RowFirst' /\ StartFirst'
        /\ AskingIsActive' /\ OneId'
    BY <1>1, <1>4, <2>1, <2>2, HubSendsKeepsOrder
  <2>4. Announced'
    <3> SUFFICES ASSUME NEW t \in Session \ astray', ~Prompted(t)'
                 PROVE  IF ws = NoConn THEN ~Working(t)'
                        ELSE WillShow(toHub[ws], t, status'[t]) <=> Working(t)'
      BY <1>1 DEF Announced
    <3>1. t # s /\ ~Prompted(t)
      BY <1>4, CalmHubSends
    <3> QED
      BY <1>2, <1>3, <2>2, <3>1 DEF CalmInv, Announced, SameRows
  <2> QED
    BY <2>3, <2>4 DEF CalmInv
<1>5. ASSUME NEW s \in Session, HandleStartSession(s) PROVE CalmInv'
  <2>1. /\ HubStartSession(s) \in HubToRunnerMsg
        /\ \A t : Prompts(HubStartSession(s), t) <=> t = s
        /\ HubStartSession(s).type # "hub_runner_resync"
    BY DEF HubStartSession, HubToRunnerMsg, Prompts
  <2> QED
    BY <1>4, <1>5, <2>1 DEF HandleStartSession
<1>6. ASSUME NEW s \in Session, HandleSendPrompt(s) PROVE CalmInv'
  <2>1. /\ HubSendPrompt(s) \in HubToRunnerMsg
        /\ \A t : Prompts(HubSendPrompt(s), t) <=> t = s
        /\ HubSendPrompt(s).type # "hub_runner_resync"
        /\ HubSendPrompt(s) # HubStartSession(s)
    BY DEF HubSendPrompt, HubStartSession, HubToRunnerMsg, Prompts
  <2>2. /\ HubSends(runner, HubSendPrompt(s))
        /\ runner # NoConn
        /\ status' = [status EXCEPT ![s] = "running"]
    BY <1>6 DEF HandleSendPrompt, HasRunner, UpdateStatus
  <2> QED
    BY <1>4, <2>1, <2>2
<1>7. ASSUME NEW s \in Session, NEW p \in PromptNo, NEW r \in Run,
             HandleRespondToPrompt(s, p, r)
      PROVE  CalmInv'
  <2> DEFINE m == HubRespondToPrompt(s, p, r)
  <2>1. /\ m \in HubToRunnerMsg
        /\ \A t : ~Prompts(m, t) /\ m # HubStartSession(t)
        /\ m.type # "hub_runner_resync"
    BY DEF HubRespondToPrompt, HubStartSession, HubToRunnerMsg, Prompts
  <2>2. HubSends(runner, m) /\ runner # NoConn /\ status' = status
    BY <1>7 DEF HandleRespondToPrompt, HasRunner, hubVars, rowVars
  <2> HIDE DEF m
  <2>3. /\ OneConnection' /\ EmptyResync' /\ RowFirst' /\ StartFirst'
        /\ AskingIsActive' /\ OneId'
    BY <1>1, <2>1, <2>2, HubSendsKeepsOrder
  <2>4. \A t : Prompted(t)' <=> Prompted(t)
    BY <2>1, <2>2, CalmHubSends
  <2>5. Announced'
    BY <1>1, <1>2, <1>3, <2>2, <2>4, SilentKeepsAnnounced
  <2> QED
    BY <2>3, <2>5 DEF CalmInv
<1>8. ASSUME NEW s \in Session, HandleArchiveSession(s) PROVE CalmInv'
  <2>1. UNCHANGED <<status, toRunner>>
    BY <1>8 DEF HandleArchiveSession, wireVars
  <2>2. OneConnection' /\ AskingIsActive' /\ EmptyResync'
    BY <1>1, <2>1 DEF CalmInv, OneConnection, AskingIsActive, EmptyResync
  <2>3. \A t : Prompted(t)' <=> Prompted(t)
    BY <2>1 DEF Prompted, Prompts
  <2>4. RowFirst' /\ StartFirst'
    BY <1>1, <2>1, <2>3 DEF CalmInv, RowFirst, StartFirst, NoRunOf, Prompts, HubStartSession
  <2>5. OneId'
    BY <1>1, SameRunsKeepOneId DEF KnownAs
  <2>6. Announced'
    BY <1>1, <1>2, <1>3, <2>1, <2>3, SilentKeepsAnnounced
  <2> QED
    BY <2>2, <2>4, <2>5, <2>6 DEF CalmInv
<1> QED
  BY <1>5, <1>6, <1>7, <1>8 DEF ClientStep

-----------------------------------------------------------------------------
\* The hub.

\* A message that the hub reads is taken from the one channel; the status it
\* sets, and the conversation it reports, were already in flight.
LEMMA HubReceivesKeepsCalm ==
  ASSUME Inv, CalmInv, Recalls, NEW c \in Conn, HubReceives(c), UNCHANGED runnerVars
  PROVE  CalmInv'
<1> DEFINE q == toHub[c]
           m == Head(q)
<1>1. /\ q # << >>
      /\ HubConsumes(c)
      /\ UNCHANGED <<sessions, sdkIds, runs, runner, ws, link, hubWs, cut, toRunner>>
  BY DEF HubReceives, ReceiveUserPrompt, ReceiveStatus, ReceiveDone, ReceiveError,
         Arrives, HubHandles, runnerVars, rowVars
<1>2. c = ws /\ q \in Seq(RunnerToHubMsg)
  BY <1>1, CalmChannels DEF CalmInv, OneConnection
<1>3. /\ m \in RunnerToHubMsg
      /\ m = q[1]
      /\ Len(q) \in Nat /\ 1 \in 1..Len(q)
      /\ Len(Tail(q)) = Len(q) - 1
      /\ \A i \in 1..Len(Tail(q)) : Tail(q)[i] = q[i + 1]
  BY <1>1, <1>2, HeadTailProperties, EmptySeq, LenProperties
<1>4. \A d \in Conn : toHub'[d] = IF d = c THEN Tail(q) ELSE toHub[d]
  BY <1>1, CalmChannels DEF HubConsumes
<1>5. \A d \in Conn : \A i \in 1..Len(toHub'[d]) :
        \E j \in 1..Len(toHub[d]) : toHub'[d][i] = toHub[d][j]
  <2> TAKE d \in Conn
  <2> TAKE i \in 1..Len(toHub'[d])
  <2>1. CASE d = c
    <3>1. toHub'[d] = Tail(q)
      BY <1>4, <2>1
    <3>2. i \in 1..Len(Tail(q))
      BY <3>1
    <3>3. i + 1 \in 1..Len(q) /\ toHub'[d][i] = q[i + 1]
      BY <1>3, <3>1, <3>2
    <3> QED
      BY <2>1, <3>3
  <2>2. CASE d # c
    BY <1>4, <2>2
  <2> QED
    BY <2>1, <2>2
<1>6. m.session \in Session /\ status[m.session] # "absent"
  <2>1. m.session \in Session
    BY <1>3, EveryMessageHasSession
  <2> QED
    BY <1>3, <2>1 DEF CalmInv, RowFirst
<1>7. status \in [Session -> Status \cup {"absent"}] /\ sdkOf \in ResumeMap
  BY DEF Inv, HubInv, HubTypeOK
<1>8. \A s \in Session :
        /\ IF Rules(m, s) THEN status'[s] \in ActiveStatus <=> SaysActive(m)
           ELSE status'[s] = status[s]
        /\ status'[s] = "absent" => status[s] = "absent"
        /\ sdkOf'[s] = sdkOf[s] \/ sdkOf'[s] = NoSdk \/ m = SessionDone(s, sdkOf'[s])
  <2> USE DEF Rules, SaysActive, ActiveStatus, UpdateStatus, Arrives, rowVars
  <2>1. CASE ReceiveUserPrompt(c)
    <3>1. UNCHANGED <<status, sdkOf>> /\ m.type = "user_prompt"
      BY <2>1 DEF ReceiveUserPrompt, UserPrompt
    <3> QED
      BY <3>1
  <2>2. CASE ReceiveStatus(c)
    <3>1. PICK s \in Session, st \in Status :
            /\ m = SessionStatus(s, st)
            /\ UpdateStatus(s, st)
            /\ sdkOf' = sdkOf
      BY <2>2 DEF ReceiveStatus
    <3>2. status[s] # "absent"
      BY <1>6, <3>1 DEF SessionStatus
    <3> QED
      BY <1>7, <3>1, <3>2 DEF SessionStatus, Status
  <2>3. CASE ReceiveDone(c)
    <3>1. PICK s \in Session, k \in MaybeSdk :
            /\ m = SessionDone(s, k)
            /\ UpdateStatus(s, "idle")
            /\ sdkOf' = IF k = NoSdk \/ status[s] = "absent" THEN sdkOf
                        ELSE [sdkOf EXCEPT ![s] = k]
      BY <2>3 DEF ReceiveDone
    <3>2. status[s] # "absent"
      BY <1>6, <3>1 DEF SessionDone
    <3>3. \A t \in Session : sdkOf'[t] = sdkOf[t] \/ (t = s /\ sdkOf'[t] = k)
      BY <1>7, <3>1 DEF ResumeMap
    <3>4. \A t \in Session : status'[t] = IF t = s THEN "idle" ELSE status[t]
      BY <1>7, <3>1, <3>2
    <3>5. /\ ~SaysActive(m)
          /\ \A t \in Session : Rules(m, t) <=> t = s
      BY <3>1 DEF SessionDone
    <3> QED
      BY <3>1, <3>3, <3>4, <3>5
  <2>4. CASE ReceiveError(c)
    <3>1. PICK s \in Session :
            /\ m = SessionError(s)
            /\ UpdateStatus(s, "error")
            /\ sdkOf' = sdkOf
      BY <2>4 DEF ReceiveError
    <3>2. status[s] # "absent"
      BY <1>6, <3>1 DEF SessionError
    <3> QED
      BY <1>7, <3>1, <3>2 DEF SessionError
  <2> QED
    BY <2>1, <2>2, <2>3, <2>4 DEF HubReceives
<1> HIDE DEF q, m
<1>9. OneConnection'
  <2>1. \A d \in Conn : toHub'[d] # << >> => toHub[d] # << >>
    BY <1>1, <1>4 DEF q
  <2>2. runner # NoConn
    BY <1>6 DEF CalmInv, OneConnection
  <2> QED
    BY <1>1, <2>1, <2>2 DEF CalmInv, OneConnection
<1>10. \A s : (Prompted(s)' <=> Prompted(s)) /\ (NoRunOf(s)' <=> NoRunOf(s))
  BY <1>1 DEF Prompted, Prompts, NoRunOf
<1>11. EmptyResync' /\ StartFirst' /\ AskingIsActive'
  BY <1>1, <1>10 DEF CalmInv, EmptyResync, StartFirst, AskingIsActive, Prompts,
                     HubStartSession
<1>12. RowFirst'
  BY <1>5, <1>8, <1>10 DEF CalmInv, RowFirst
<1>13. OneId'
  <2>1. \A t \in Session : ResolveSdkSessionId(t)' = ResolveSdkSessionId(t)
    BY <1>1 DEF ResolveSdkSessionId
  <2>2. ASSUME NEW t \in Session, NEW k \in SdkId, KnownAs(t, k)' PROVE KnownAs(t, k)
    <3>1. CASE sdkIds'[t] = k \/ \E r \in DOMAIN runs' : runs'[r].session = t /\ runs'[r].sdk = k
      BY <1>1, <3>1 DEF KnownAs
    <3>2. CASE sdkOf'[t] = k
      <4>1. k # NoSdk
        BY NoSdkFresh
      <4>2. sdkOf[t] = k \/ toHub[c][1] = SessionDone(t, k)
        BY <1>3, <1>8, <3>2, <4>1 DEF q
      <4>3. 1 \in 1..Len(toHub[c])
        BY <1>3 DEF q
      <4> QED
        BY <4>2, <4>3 DEF KnownAs
    <3>3. CASE \E d \in Conn : \E i \in 1..Len(toHub'[d]) : toHub'[d][i] = SessionDone(t, k)
      BY <1>5, <3>3 DEF KnownAs
    <3> QED
      BY <2>2, <3>1, <3>2, <3>3 DEF KnownAs, SessionDone
  <2> QED
    BY <1>1, <2>1, <2>2 DEF CalmInv, OneId, Recalls
<1>14. Announced'
  <2> SUFFICES ASSUME NEW s \in Session \ astray', ~Prompted(s)'
               PROVE  WillShow(toHub'[ws], s, status'[s]) <=> Working(s)'
    BY <1>1, <1>2, NoConnFresh DEF Announced
  <2>1. WillShow(q, s, status[s]) <=> Working(s)
    BY <1>1, <1>2, <1>10, NoConnFresh DEF CalmInv, Announced, q, Recalls, Begins
  <2>2. WillShow(Tail(q), s, status'[s]) <=> WillShow(q, s, status[s])
    BY <1>1, <1>2, <1>8, ReceivedOrInFlight DEF q, m
  <2>3. Working(s)' <=> Working(s)
    BY <1>1 DEF Working
  <2> QED
    BY <1>2, <1>4, <2>1, <2>2, <2>3
<1> QED
  BY <1>9, <1>11, <1>12, <1>13, <1>14 DEF CalmInv

\* The runner's connection is accepted before any session has a row.
LEMMA AcceptRunnerKeepsCalm ==
  ASSUME Inv, CalmInv, Recalls, NEW c \in Conn, AcceptRunner(c), UNCHANGED runnerVars
  PROVE  CalmInv'
<1>1. /\ ws = c /\ link = "firstTry" /\ runner = NoConn
      /\ hubWs[c] = "none"
      /\ \A s \in Session : status[s] = "absent"
      /\ DOMAIN runs = {} /\ sdkIds = NoSdkKnown
      /\ \A d \in Conn : toHub[d] = << >> /\ toRunner[d] = << >>
  BY NoConnFresh DEF AcceptRunner, Connecting, CalmInv, OneConnection
<1>2. Resumable = NoSdkKnown
  BY <1>1 DEF Resumable, NoSdkKnown
<1> DEFINE m == HubRunnerResync(NoSdkKnown)
<1>3. /\ UNCHANGED <<sessions, sdkIds, runs, status, sdkOf, ws, link, cut, toHub>>
      /\ runner' = c
      /\ toRunner' = [toRunner EXCEPT ![c] = <<m>>]
      /\ hubWs' = [d \in Conn |-> IF d = c THEN "open"
                                  ELSE IF d = runner THEN "closing" ELSE hubWs[d]]
  BY <1>2 DEF AcceptRunner, runnerVars, rowVars
<1>4. \A d \in Conn : toRunner'[d] = IF d = c THEN <<m>> ELSE << >>
  BY <1>1, <1>3, CalmChannels
<1>6. /\ m.type = "hub_runner_resync"
      /\ m.sessions = NoSdkKnown
      /\ \A s : ~Prompts(m, s) /\ m # HubStartSession(s)
  BY DEF HubRunnerResync, HubStartSession, Prompts
<1> HIDE DEF m
<1>5. ASSUME NEW d \in Conn, NEW i \in 1..Len(toRunner'[d])
      PROVE  d = c /\ i = 1 /\ toRunner'[d][i] = m
  <2>1. CASE d = c
    <3>1. toRunner'[d] = <<m>>
      BY <1>4, <2>1
    <3> QED
      BY <2>1, <3>1
  <2>2. CASE d # c
    <3>1. toRunner'[d] = << >>
      BY <1>4, <2>2
    <3> QED
      BY <3>1
  <2> QED
    BY <2>1, <2>2
<1>7. OneConnection'
  <2>1. \A d \in Conn : hubWs'[d] = IF d = c THEN "open" ELSE "none"
    BY <1>1, <1>3, NoConnFresh DEF CalmInv, OneConnection
  <2>2. ws # NoConn /\ ~cut[ws]
    BY <1>1, NoConnFresh DEF CalmInv, OneConnection
  <2> QED
    BY <1>1, <1>3, <1>4, <2>1, <2>2, NoConnFresh DEF OneConnection
<1>8. EmptyResync'
  BY <1>1, <1>3, <1>5, <1>6 DEF EmptyResync
<1>9. \A s : ~Prompted(s) /\ ~Prompted(s)'
  <2>1. \A s : ~Prompted(s)'
    BY <1>5, <1>6 DEF Prompted, Prompts
  <2>2. \A d \in Conn : \A i \in 1..Len(toRunner[d]) : FALSE
    BY <1>1
  <2> QED
    BY <2>1, <2>2 DEF Prompted
<1>10. RowFirst'
  BY <1>1, <1>3, <1>9, EmptySeq DEF RowFirst, NoRunOf
<1>11. StartFirst'
  BY <1>5, <1>6 DEF StartFirst, HubStartSession
<1>12. AskingIsActive'
  BY <1>1, <1>3 DEF AskingIsActive
<1>13. OneId'
  BY <1>3, SameRunsKeepOneId DEF KnownAs
<1>14. Announced'
  <2>1. \A s \in Session : Working(s)' <=> Working(s)
    BY <1>3 DEF Working
  <2>2. SameRows
    BY <1>3 DEF Recalls, Begins, SameRows
  <2> QED
    BY <1>3, <1>9, <2>1, <2>2, SilentKeepsAnnounced
<1> QED
  BY <1>7, <1>8, <1>10, <1>11, <1>12, <1>13, <1>14 DEF CalmInv

\* No connection closes.
LEMMA NothingCloses ==
  ASSUME Inv, CalmInv, NEW c \in Conn
  PROVE  ~HubWsClose(c)
<1>1. hubWs[c] # "none" => ~cut[c]
  BY NoConnFresh DEF CalmInv, OneConnection
<1> QED
  BY <1>1 DEF HubWsClose

-----------------------------------------------------------------------------
\* Steps that change none of the variables.
LEMMA UnchangedKeepsCalm ==
  ASSUME Inv, CalmInv, UNCHANGED vars
  PROVE  CalmInv'
<1>1. /\ UNCHANGED <<sessions, sdkIds, runs, status, sdkOf, runner>>
      /\ UNCHANGED <<ws, link, hubWs, cut, toHub, toRunner>>
      /\ Recalls /\ SameRows
  BY DEF vars, runnerVars, wireVars, hubVars, rowVars, historyVars, Recalls, SameRows
<1>2. \A s : (Prompted(s)' <=> Prompted(s)) /\ (NoRunOf(s)' <=> NoRunOf(s))
  BY <1>1 DEF Prompted, Prompts, NoRunOf
<1>3. OneConnection' /\ EmptyResync' /\ StartFirst' /\ AskingIsActive' /\ RowFirst'
  BY <1>1, <1>2 DEF CalmInv, OneConnection, EmptyResync, StartFirst, AskingIsActive,
                    RowFirst, Prompts, HubStartSession
<1>4. OneId'
  BY <1>1, SameRunsKeepOneId DEF KnownAs
<1>5. Announced'
  <2>1. \A s \in Session : Working(s)' <=> Working(s)
    BY <1>1 DEF Working
  <2> QED
    BY <1>1, <1>2, <2>1, SilentKeepsAnnounced
<1> QED
  BY <1>3, <1>4, <1>5 DEF CalmInv

\* Nothing is known or on its way when the two processes start.
LEMMA CalmInit == Init => CalmInv
<1> SUFFICES ASSUME Init PROVE CalmInv
  OBVIOUS
<1>1. /\ ws = NoConn /\ link = "boot" /\ runner = NoConn
      /\ \A c \in Conn : hubWs[c] = "none" /\ toHub[c] = << >> /\ toRunner[c] = << >>
      /\ sessions = NoneRunning /\ sdkIds = NoSdkKnown /\ DOMAIN runs = {}
      /\ \A s \in Session : status[s] = "absent" /\ sdkOf[s] = NoSdk
  BY DEF Init, WireInit, RunnerInit, HubInit, NoRuns
<1>2. \A c \in Conn : /\ \A i \in 1..Len(toRunner[c]) : FALSE
                      /\ \A i \in 1..Len(toHub[c]) : FALSE
  BY <1>1
<1>3. OneConnection
  BY <1>1, NoConnFresh DEF OneConnection
<1>4. EmptyResync /\ RowFirst /\ StartFirst /\ AskingIsActive
  BY <1>1, <1>2 DEF EmptyResync, RowFirst, StartFirst, AskingIsActive, NoRunOf, Prompted
<1>5. OneId
  <2>1. \A s \in Session : \A k \in SdkId : ~KnownAs(s, k)
    BY <1>1, <1>2, NoSdkFresh DEF KnownAs, NoSdkKnown
  <2>2. \A s \in Session : sessions[s] = NoRun
    BY <1>1 DEF NoneRunning
  <2> QED
    BY <2>1, <2>2 DEF OneId
<1>6. Announced
  BY <1>1 DEF Announced, Working, NoneRunning
<1> QED
  BY <1>3, <1>4, <1>5, <1>6 DEF CalmInv

\* What a step remembers, as long as nothing disturbs the system.
LEMMA RemembersRecalls ==
  ASSUME Inv, CalmInv, faults' = 0, NEW S, NEW C, Remembers(S, C)
  PROVE  /\ Recalls
         /\ \A s \in S : ~Begins(s) => s \in astray'
         /\ \A r \in DOMAIN runs : NamedLate(r) => runs[r].session \in split'
<1>1. \A r \in DOMAIN runs : r \in Run /\ runs[r].session \in Session
  BY RunIsConnected DEF Inv, RunnerInv, RunnerTypeOK
<1> QED
  BY <1>1 DEF Inv, HistoryTypeOK, Remembers, Recalls

\* What leads a row astray begins no run.
LEMMA StraysBeginNothing ==
  ASSUME Inv, CalmInv, NEW r \in DOMAIN runs, SdkStrays(r)
  PROVE  ~Begins(runs[r].session)
<1>1. CASE SdkResult(r)
  BY <1>1 DEF SdkResult, Begins
<1>2. CASE SdkEndEarly(r)
  <2>1. runs[r].session \in Session /\ sessions \in [Session -> Run \cup {NoRun}]
    BY RunIsConnected DEF Inv, RunnerInv, RunnerTypeOK
  <2> QED
    BY <1>2, <2>1 DEF SdkEndEarly, Finally, Leaves, Begins
<1> QED
  BY <1>1, <1>2 DEF SdkStrays

\* Until something disturbs the system, every step keeps it calm.
LEMMA CalmNext ==
  Inv /\ (faults = 0 => CalmInv) /\ [Next]_vars => (faults = 0 => CalmInv)'
<1> SUFFICES ASSUME Inv, faults = 0 => CalmInv, [Next]_vars, faults' = 0
             PROVE  CalmInv'
  OBVIOUS
<1>1. faults \in Nat
  BY MaxFaultsNat DEF Inv
<1>2. CASE RunnerDoes(RunnerStep, {})
  <2>1. CalmInv /\ UNCHANGED hubVars /\ Remembers({}, {}) /\ RunnerStep
    BY <1>2 DEF RunnerDoes
  <2>2. Recalls /\ \A r \in DOMAIN runs : NamedLate(r) => runs[r].session \in split'
    BY <2>1, RemembersRecalls
  <2> QED
    BY <2>1, <2>2, RunnerHandlesKeepsCalm, SdkStepsKeepsCalm, RunnerConnectsKeepsCalm
    DEF RunnerStep
<1>3. ASSUME NEW r \in DOMAIN runs, RunnerDoes(SdkStrays(r), {runs[r].session})
      PROVE  CalmInv'
  <2>1. CalmInv /\ UNCHANGED hubVars /\ Remembers({runs[r].session}, {}) /\ SdkStrays(r)
    BY <1>3 DEF RunnerDoes
  <2>2. Recalls /\ runs[r].session \in astray'
    BY <2>1, RemembersRecalls, StraysBeginNothing
  <2> QED
    BY <2>1, <2>2, SdkStraysKeepsCalm
<1>4. CASE ClientDoes(ClientStep)
  BY <1>4, RemembersRecalls, ClientStepKeepsCalm DEF ClientDoes
<1>5. CASE HubDoes(HubStep)
  <2>1. CalmInv /\ Recalls /\ UNCHANGED runnerVars
    BY <1>5, RemembersRecalls DEF HubDoes
  <2>2. \E c \in Conn : AcceptRunner(c) \/ HubReceives(c) \/ HubWsClose(c)
    BY <1>5 DEF HubDoes, HubStep, HubAccepts
  <2> QED
    BY <2>1, <2>2, AcceptRunnerKeepsCalm, HubReceivesKeepsCalm, NothingCloses
<1>6. ~Disturb
  BY <1>1 DEF Disturb
<1>7. CASE UNCHANGED vars
  BY <1>7, UnchangedKeepsCalm DEF vars
<1> QED
  BY <1>2, <1>3, <1>4, <1>5, <1>6, <1>7 DEF Next

\* While nothing disturbs the system, it is calm.
THEOREM CalmInvariant == Spec => [](faults = 0 => CalmInv)
<1>1. Init => (faults = 0 => CalmInv)
  BY CalmInit
<1> QED
  BY <1>1, CalmNext, Invariant, PTL DEF Spec

\* Undisturbed, a session never splits into two histories: whatever the resume
\* map, the row and the runs know of its conversation is what the next prompt
\* resumes, unless the SDK named the conversation of a run after its abort.
THEOREM OneConversationHolds == Spec => []OneConversation
<1>1. Inv /\ (faults = 0 => CalmInv) => OneConversation
  <2> SUFFICES ASSUME Inv, CalmInv, NEW s \in Session \ split
               PROVE  LET known == {sdkIds[s], sdkOf[s]}
                        \cup {runs[r].sdk : r \in {q \in DOMAIN runs : runs[q].session = s}}
                      IN Cardinality(known \ {NoSdk}) <= 1
    BY DEF OneConversation
  <2> DEFINE known == {sdkIds[s], sdkOf[s]}
                \cup {runs[r].sdk : r \in {q \in DOMAIN runs : runs[q].session = s}}
  <2>1. known \subseteq MaybeSdk
    BY DEF Inv, HubInv, HubTypeOK, RunnerInv, RunnerTypeOK, RunState, ResumeMap
  <2>2. \A k \in known \ {NoSdk} : KnownAs(s, k) /\ k \in SdkId
    BY <2>1 DEF KnownAs, MaybeSdk
  <2>3. known \ {NoSdk} \subseteq {ResolveSdkSessionId(s)}
    BY <2>2 DEF CalmInv, OneId
  <2> HIDE DEF known
  <2>4. IsFiniteSet({ResolveSdkSessionId(s)}) /\ Cardinality({ResolveSdkSessionId(s)}) = 1
    BY FS_Singleton
  <2>5. Cardinality(known \ {NoSdk}) <= 1
    BY <2>3, <2>4, FS_Subset
  <2> QED
    BY <2>5 DEF known
<1> QED
  BY <1>1, CalmInvariant, Invariant, PTL

\* With nothing in flight and nothing ever disturbed, the hub shows a session
\* as active exactly while the runner works on it, unless an aborted run
\* reported a result since the session's last run began, or that run ended
\* without one.
THEOREM HonestStatusHolds == Spec => []HonestStatus
<1>1. Inv /\ (faults = 0 => CalmInv) => HonestStatus
  <2> SUFFICES ASSUME Inv, CalmInv, Quiet, NEW s \in Session \ astray
               PROVE  status[s] \in ActiveStatus <=> Working(s)
    BY DEF HonestStatus
  <2>1. ~Prompted(s)
    BY EmptySeq DEF Quiet, Prompted
  <2>2. CASE ws = NoConn
    <3>1. status[s] = "absent"
      BY <2>2, NoConnFresh DEF CalmInv, OneConnection
    <3> QED
      BY <2>1, <2>2, <3>1 DEF CalmInv, Announced, ActiveStatus
  <2>3. CASE ws # NoConn
    <3>1. ws \in Conn
      BY <2>3 DEF Inv, WireInv, WireTypeOK
    <3>2. \A i \in 1..Len(toHub[ws]) : FALSE
      BY <3>1, EmptySeq DEF Quiet
    <3> QED
      BY <2>1, <2>3, <3>2 DEF CalmInv, Announced, WillShow
  <2> QED
    BY <2>2, <2>3
<1> QED
  BY <1>1, CalmInvariant, Invariant, PTL
=============================================================================
