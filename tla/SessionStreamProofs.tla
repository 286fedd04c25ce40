------------------------- MODULE SessionStreamProofs -------------------------
(***************************************************************************)
(* Theorems about SessionStream: for any cap, any length of the history    *)
(* and any conversation, the screen of a device keeps its window, follows  *)
(* the conversation, is complete and shows the question that waits.        *)
(***************************************************************************)
EXTENDS SessionStream, WellFoundedInduction, TLAPS

Shown == {"text", "call"}

\* The conversation: a result follows its call, and a call has one at most.
LogOrder ==
  /\ \A n \in 1..Len(log) : log[n].kind # "result" => log[n].of = n
  /\ \A r \in 1..Len(log) : log[r].kind = "result" =>
       /\ log[r].of \in 1..r - 1
       /\ log[log[r].of].kind = "call"
  /\ \A r, q \in 1..Len(log) :
       log[r].kind = "result" /\ log[q].kind = "result" /\ log[r].of = log[q].of => r = q
  /\ \A n \in sent + 1..Len(log) : log[n].kind # "user"
  /\ ~running => sent = Len(log)

\* Items of a history that was read.
ReadWell(m) ==
  /\ m.from >= 1
  /\ m.to \in m.from - 1..written

\* What is on its way was sent.
MessageOK(m) ==
  /\ m.type \in Shown => m.n \in 1..sent /\ log[m.n].kind = m.type
  /\ m.type = "result" => m.n \in 1..sent /\ log[m.n].kind = "call"
  /\ m.type = "prompt" => m.n \in 1..asked
  /\ m.type = "history" => ReadWell(m) /\ (~m.ahead => m.to <= sent)

\* Items come in order, and after a history that is not ahead of them.
Precedes(m, q) ==
  q.type \in Shown => /\ m.type \in Shown => m.n < q.n
                      /\ m.type = "history" /\ ~m.ahead => m.to < q.n

FeedOrder ==
  /\ \A i \in 1..Len(feed) : MessageOK(feed[i])
  /\ \A j \in 1..Len(feed) : \A i \in 1..j - 1 : Precedes(feed[i], feed[j])
  /\ intact => connected

InFeed(t, n, i) == feed[i].type = t /\ feed[i].n = n

\* The result of a call that is still to come comes after it.
ResultAfterCall ==
  intact =>
    \A r \in 1..sent : log[r].kind = "result" =>
      \A i \in 1..Len(feed) : InFeed("call", log[r].of, i) =>
        \E j \in i + 1..Len(feed) : InFeed("result", log[r].of, j)

ResultKept ==
  intact =>
    \A r \in 1..sent : log[r].kind = "result" =>
      \/ \E i \in 1..Len(feed) : InFeed("result", log[r].of, i)
      \/ \A i \in 1..Len(entries) : LastCall(entries, i, log[r].of) => entries[i].result

PendingText == \A k \in 1..Len(pending) : pending[k] <= sent /\ log[pending[k]].kind = "text"

\* The items seen in the entries after the b-th.
SeenFrom(es, b) == {n \in Item : \E i \in b + 1..Len(es) : ShownBy(es[i], n)}

\* What came live stands in the entries after the b-th.  It is in order and comes
\* before what is still to come.
Follows(b) ==
  /\ Ascends(Screen, b)
  /\ \A n \in SeenFrom(Screen, b) :
       /\ n <= sent
       /\ \A j \in 1..Len(feed) : feed[j].type \in Shown => n < feed[j].n

\* It was below all that is on the screen or still to come.
Evicted(n, b) ==
  /\ HasMarker(entries)
  /\ b = 0
  /\ \A m \in SeenFrom(Screen, b) : m > n
  /\ \A j \in 1..Len(feed) : feed[j].type \in Shown => feed[j].n > n

\* An item that was sent is still to come, on the screen, or evicted.
Accounted(b) ==
  \A n \in 1..sent : log[n].kind \in Shown =>
    \/ \E i \in 1..Len(feed) : InFeed(log[n].kind, n, i)
    \/ n \in SeenFrom(Screen, b)
    \/ Evicted(n, b)

QuestionKept ==
  intact =>
    /\ submit \in waiting => submit \in answers
    /\ ~masked => \A p \in waiting :
         \/ \E i \in 1..Len(feed) : InFeed("prompt", p, i)
         \/ shown = p
         \/ p \in answers

BaseInv ==
  /\ TypeOK
  /\ WindowKept
  /\ LogOrder
  /\ ReadWell(request)
  /\ FeedOrder
  /\ PendingText

OutboxBound == outbox <= typed

ScreenInv ==
  /\ ~overlaid => Follows(0)
  /\ \E b \in 0..Len(entries) : Follows(b) /\ (intact => Accounted(b))

StreamInv ==
  BaseInv /\ OutboxBound /\ QuestionKept /\ ScreenInv /\ ResultAfterCall /\ ResultKept

-----------------------------------------------------------------------------
\* Naturals: a set of them that is not empty has a least member, and what holds
\* first and is handed on holds to the end.

LEMMA LeastNumber ==
  ASSUME NEW T \in SUBSET Nat, T # {}
  PROVE  \E x \in T : \A y \in T : x <= y
<1>1. IsWellFoundedOn(OpToRel(<, Nat), Nat)
  BY NatLessThanWellFounded
<1>2. PICK x \in T : \A y \in T : ~(<<y, x>> \in OpToRel(<, Nat))
  BY <1>1, WFMin
<1>3. ASSUME NEW y \in T PROVE x <= y
  <2>1. ~(<<y, x>> \in OpToRel(<, Nat))
    BY <1>2
  <2>2. x \in Nat /\ y \in Nat
    OBVIOUS
  <2> QED BY <2>1, <2>2 DEF OpToRel
<1> QED BY <1>2, <1>3

LEMMA HandedOn ==
  ASSUME NEW a \in Nat, NEW b \in Nat, NEW G, a \in G,
         \A k \in a + 1..b : k - 1 \in G => k \in G
  PROVE  a..b \subseteq G
<1> SUFFICES ASSUME NEW z \in a..b, z \notin G PROVE FALSE
  OBVIOUS
<1> DEFINE T == {k \in a..b : k \notin G}
<1>1. T \in SUBSET Nat /\ T # {}
  OBVIOUS
<1>2. PICK x \in T : \A y \in T : x <= y
  BY <1>1, LeastNumber
<1>3. x \in a + 1..b
  OBVIOUS
<1>4. x - 1 \in G
  BY <1>2, <1>3
<1> QED BY <1>3, <1>4


-----------------------------------------------------------------------------
\* The replay is a function, so that it can be followed from item to item.

IsReplay(f, from, to) ==
  f = [n \in from - 1..to |-> IF n = from - 1 THEN Roll ELSE Replayed(f[n - 1], n)]

LEMMA ReplayExists ==
  ASSUME NEW from \in Nat \ {0}, NEW to \in Nat, to >= from - 1
  PROVE  \E f : IsReplay(f, from, to)
<1> DEFINE G == {k \in from - 1..to : \E f : IsReplay(f, from, k)}
<1>1. from - 1 \in G
  <2> DEFINE f == [n \in from - 1..from - 1 |-> Roll]
  <2>1. f = [n \in from - 1..from - 1 |->
              IF n = from - 1 THEN Roll ELSE Replayed(f[n - 1], n)]
    OBVIOUS
  <2> HIDE DEF f
  <2> QED BY <2>1 DEF IsReplay
<1>2. ASSUME NEW k \in (from - 1) + 1..to, k - 1 \in G
      PROVE  k \in G
  <2>1. PICK g : IsReplay(g, from, k - 1)
    BY <1>2
  <2> DEFINE f == [n \in from - 1..k |-> IF n = k THEN Replayed(g[k - 1], k) ELSE g[n]]
  <2>2. ASSUME NEW n \in from - 1..k
        PROVE  f[n] = IF n = from - 1 THEN Roll ELSE Replayed(f[n - 1], n)
    <3>1. g = [m \in from - 1..k - 1 |->
                IF m = from - 1 THEN Roll ELSE Replayed(g[m - 1], m)]
      BY <2>1 DEF IsReplay
    <3>2. CASE n = k
      <4>1. f[n] = Replayed(g[k - 1], k)
        BY <3>2
      <4>2. k - 1 \in from - 1..k /\ k - 1 # k /\ n # from - 1
        BY <3>2
      <4>3. f[n - 1] = g[k - 1]
        BY <3>2, <4>2
      <4> QED BY <3>2, <4>1, <4>2, <4>3
    <3>3. CASE n # k /\ n = from - 1
      <4>1. n \in from - 1..k - 1
        BY <3>3
      <4>2. g[n] = Roll
        BY <3>1, <3>3, <4>1
      <4> QED BY <3>3, <4>2
    <3>4. CASE n # k /\ n # from - 1
      <4>1. n \in from - 1..k - 1 /\ n - 1 \in from - 1..k /\ n - 1 # k
        BY <3>4
      <4>2. g[n] = Replayed(g[n - 1], n)
        BY <3>1, <3>4, <4>1
      <4>3. f[n] = g[n] /\ f[n - 1] = g[n - 1]
        BY <3>4, <4>1
      <4> QED BY <3>4, <4>2, <4>3
    <3> QED BY <3>2, <3>3, <3>4
  <2>3. f = [n \in from - 1..k |->
              IF n = from - 1 THEN Roll ELSE Replayed(f[n - 1], n)]
    <3>1. f = [n \in from - 1..k |-> f[n]]
      OBVIOUS
    <3> HIDE DEF f
    <3> QED BY <3>1, <2>2
  <2> HIDE DEF f
  <2>4. IsReplay(f, from, k)
    BY <2>3 DEF IsReplay
  <2> QED BY <2>4
<1> HIDE DEF G
<1>3. from - 1..to \subseteq G
  BY <1>1, <1>2, HandedOn
<1>4. to \in G
  BY <1>3
<1> QED BY <1>4 DEF G

\* The step from one item to the next.
LEMMA ReplaySteps ==
  ASSUME NEW from \in Nat \ {0}, NEW to \in Nat, to >= from - 1
  PROVE  \E f : /\ Replay(from, to) = f[to]
                /\ f[from - 1] = Roll
                /\ \A n \in from..to : f[n] = Replayed(f[n - 1], n)
<1> DEFINE f == CHOOSE g : IsReplay(g, from, to)
<1>1. IsReplay(f, from, to)
  BY ReplayExists
<1>2. Replay(from, to) = f[to]
  BY DEF Replay, IsReplay
<1> HIDE DEF f
<1>3. f[from - 1] = Roll
  BY <1>1 DEF IsReplay
<1>4. ASSUME NEW n \in from..to PROVE f[n] = Replayed(f[n - 1], n)
  BY <1>1 DEF IsReplay
<1> QED BY <1>2, <1>3, <1>4


-----------------------------------------------------------------------------
\* What appendEntry does to a list that keeps its window.

LEMMA EntriesTyped ==
  ASSUME NEW items \in Seq(Item),
         NEW kind \in {"user", "text", "call", "orphan", "response", "error",
                       "unavailable", "marker"}
  PROVE  /\ NewEntry(kind, items) \in Entry
         /\ NewEntry(kind, items).kind = kind
         /\ NewEntry(kind, items).items = items
         /\ NewEntry(kind, items).result = FALSE
         /\ NewEntry(kind, items).dropped = 0
BY DEF NewEntry, Entry

\* One entry was evicted, the first after the marker.
Evicts(es, r, e) ==
  LET d == IF HasMarker(es) THEN 1 ELSE 0 IN
  /\ HasMarker(r)
  /\ r[1].items = <<>>
  /\ Len(es) = MaxEntries + d
  /\ Len(r) = MaxEntries + 1
  /\ \A i \in 2..MaxEntries : r[i] = es[i + d]
  /\ r[MaxEntries + 1] = e

LEMMA AppendEntryIs ==
  ASSUME NEW es \in Seq(Entry), NEW c \in Nat, Window(es, c),
         NEW e \in Entry, e.kind # "marker"
  PROVE  /\ AppendEntry(es, e) \in Seq(Entry)
         /\ Window(AppendEntry(es, e), c + 1)
         /\ \/ AppendEntry(es, e) = Append(es, e) /\ ~HasMarker(es)
            \/ Evicts(es, AppendEntry(es, e), e)
<1> DEFINE d == IF HasMarker(es) THEN 1 ELSE 0
           real == Append(IF HasMarker(es) THEN Tail(es) ELSE es, e)
           before == IF HasMarker(es) THEN Head(es).dropped ELSE 0
           overflow == Len(real) - MaxEntries
           marker == [NewEntry("marker", <<>>) EXCEPT !.dropped = before + overflow]
           r == AppendEntry(es, e)
<1> USE MaxEntriesPos
<1>1. /\ HasMarker(es) => Len(es) = MaxEntries + 1 /\ es[1].dropped + MaxEntries = c
      /\ ~HasMarker(es) => Len(es) <= MaxEntries /\ Len(es) = c
      /\ \A i \in 2..Len(es) : es[i].kind # "marker"
  BY DEF Window
<1>2. HasMarker(es) => es # <<>> /\ Head(es) = es[1] /\ es[1].kind = "marker"
  BY DEF HasMarker
<1>3. ~HasMarker(es) /\ es # <<>> => es[1].kind # "marker"
  BY DEF HasMarker
<1>4. /\ real \in Seq(Entry)
      /\ Len(real) = Len(es) + 1 - d
      /\ real[Len(real)] = e
      /\ \A i \in 1..Len(es) - d : real[i] = es[i + d]
  <2>1. CASE HasMarker(es)
    BY <1>2, <2>1
  <2>2. CASE ~HasMarker(es)
    BY <2>2
  <2> QED BY <2>1, <2>2
<1>5. CASE overflow <= 0
  <2>1. ~HasMarker(es) /\ Len(es) < MaxEntries
    BY <1>1, <1>4, <1>5
  <2>2. r = Append(es, e)
    BY <1>5 DEF AppendEntry
  <2>3. Window(r, c + 1)
    BY <1>1, <1>3, <2>1, <2>2 DEF Window, HasMarker
  <2> HIDE DEF r
  <2> QED BY <2>1, <2>2, <2>3 DEF r
<1>6. CASE overflow > 0
  <2>1. Len(es) = MaxEntries + d /\ overflow = 1 /\ Len(real) = MaxEntries + 1
    BY <1>1, <1>4, <1>6
  <2>2. before \in Nat /\ before + 1 + MaxEntries = c + 1
    <3>1. CASE HasMarker(es)
      <4>1. es[1] \in Entry
        BY <1>2, <3>1
      <4>2. es[1].dropped \in Nat
        BY <4>1 DEF Entry
      <4>3. before = es[1].dropped
        BY <1>2, <3>1
      <4>4. es[1].dropped + MaxEntries = c
        BY <1>1, <3>1
      <4> HIDE DEF before
      <4> QED BY <4>2, <4>3, <4>4
    <3>2. CASE ~HasMarker(es)
      BY <1>1, <2>1, <3>2
    <3> QED BY <3>1, <3>2
  <2>3. marker \in Entry /\ marker.kind = "marker" /\ marker.items = <<>>
        /\ marker.dropped = before + 1
    <3>1. marker = [NewEntry("marker", <<>>) EXCEPT !.dropped = before + 1]
      BY <2>1
    <3>2. before + 1 \in Nat
      BY <2>2
    <3>3. NewEntry("marker", <<>>) \in Entry
      <4>1. <<>> \in Seq(Item)
        OBVIOUS
      <4> QED BY <4>1, EntriesTyped
    <3> DEFINE n == before + 1
    <3> HIDE DEF marker, before, n
    <3>4. marker = [NewEntry("marker", <<>>) EXCEPT !.dropped = n] /\ n \in Nat
      BY <3>1, <3>2 DEF n
    <3>5. /\ marker \in Entry /\ marker.kind = "marker" /\ marker.items = <<>>
          /\ marker.dropped = n
      BY <3>3, <3>4 DEF NewEntry, Entry
    <3> QED BY <3>5 DEF n
  <2>4. r = <<marker>> \o SubSeq(real, 2, MaxEntries + 1)
    <3>1. r = <<marker>> \o SubSeq(real, overflow + 1, Len(real))
      BY <1>6, Zenon DEF AppendEntry
    <3>2. overflow + 1 = 2 /\ Len(real) = MaxEntries + 1
      BY <2>1
    <3> HIDE DEF marker, real, overflow, r
    <3> QED BY <3>1, <3>2
  <2> HIDE DEF marker, before, overflow
  <2>5. SubSeq(real, 2, MaxEntries + 1) \in Seq(Entry)
        /\ Len(SubSeq(real, 2, MaxEntries + 1)) = MaxEntries
        /\ \A i \in 1..MaxEntries : SubSeq(real, 2, MaxEntries + 1)[i] = real[i + 1]
    <3> HIDE DEF real
    <3> QED BY <1>4, <2>1
  <2> DEFINE q == SubSeq(real, 2, MaxEntries + 1)
  <2> HIDE DEF q
  <2>6. r \in Seq(Entry) /\ Len(r) = MaxEntries + 1 /\ r[1] = marker
        /\ \A i \in 2..MaxEntries + 1 : r[i] = real[i]
    <3>1. r = <<marker>> \o q
      BY <2>4 DEF q
    <3>2. q \in Seq(Entry) /\ Len(q) = MaxEntries
          /\ \A i \in 1..MaxEntries : q[i] = real[i + 1]
      BY <2>5 DEF q
    <3> HIDE DEF r, real
    <3>3. r \in Seq(Entry) /\ Len(r) = MaxEntries + 1 /\ r[1] = marker
      BY <3>1, <3>2, <2>3
    <3>4. ASSUME NEW i \in 2..MaxEntries + 1 PROVE r[i] = real[i]
      <4>1. r[i] = q[i - 1]
        BY <3>1, <3>2
      <4>2. i - 1 \in 1..MaxEntries /\ (i - 1) + 1 = i
        OBVIOUS
      <4> QED BY <3>2, <4>1, <4>2
    <3> QED BY <3>3, <3>4
  <2> HIDE DEF r, real
  <2>7. /\ r[MaxEntries + 1] = e
        /\ \A i \in 2..MaxEntries : r[i] = es[i + d]
    BY <1>4, <2>1, <2>6
  <2>8. HasMarker(r)
    BY <2>3, <2>6 DEF HasMarker
  <2>9. Evicts(es, r, e)
    BY <2>1, <2>3, <2>6, <2>7, <2>8 DEF Evicts
  <2>10. \A i \in 2..Len(r) : r[i].kind # "marker"
    <3> SUFFICES ASSUME NEW i \in 2..MaxEntries + 1 PROVE r[i].kind # "marker"
      BY <2>6
    <3>1. CASE i = MaxEntries + 1
      BY <2>7, <3>1
    <3>2. CASE i \in 2..MaxEntries
      <4>1. i + d \in 2..Len(es)
        BY <2>1, <3>2
      <4> QED BY <1>1, <2>7, <3>2, <4>1
    <3> QED BY <3>1, <3>2
  <2>11. Window(r, c + 1)
    BY <2>2, <2>3, <2>6, <2>8, <2>10 DEF Window
  <2> QED BY <2>6, <2>9, <2>11 DEF r
<1>7. overflow \in Int
  BY <1>4
<1> QED BY <1>5, <1>6, <1>7


-----------------------------------------------------------------------------
\* What is seen in a list that grows at its end and is cut at its head.

LEMMA SeenTyped ==
  ASSUME NEW e \in Entry
  PROVE  Seen(e) \in Seq(Item)
<1>1. e.items \in Seq(Item)
  BY DEF Entry
<1> QED BY <1>1 DEF Seen

\* An item is seen exactly where it stands.
LEMMA SeenAt ==
  ASSUME NEW es \in Seq(Entry), NEW b \in Nat,
         NEW i \in b + 1..Len(es), NEW k \in 1..Len(Seen(es[i]))
  PROVE  Seen(es[i])[k] \in SeenFrom(es, b)
<1>1. i \in 1..Len(es)
  OBVIOUS
<1>2. es[i] \in Entry
  BY <1>1
<1>3. Seen(es[i]) \in Seq(Item)
  BY <1>2, SeenTyped
<1>4. Seen(es[i])[k] \in Item
  BY <1>3
<1> QED BY <1>4 DEF SeenFrom, ShownBy

LEMMA SeenWhere ==
  ASSUME NEW es, NEW b, NEW n \in SeenFrom(es, b)
  PROVE  /\ n \in Item
         /\ \E i \in b + 1..Len(es) : \E k \in 1..Len(Seen(es[i])) : Seen(es[i])[k] = n
BY DEF SeenFrom, ShownBy

\* The items of one entry.
ItemsOf(e) == {n \in Item : ShownBy(e, n)}

Rising(q) == \A k, l \in 1..Len(q) : k < l => q[k] < q[l]

LEMMA ItemsAt ==
  ASSUME NEW e \in Entry, NEW k \in 1..Len(Seen(e))
  PROVE  Seen(e)[k] \in ItemsOf(e)
<1>1. Seen(e) \in Seq(Item)
  BY SeenTyped
<1>2. Seen(e)[k] \in Item
  BY <1>1
<1> QED BY <1>2 DEF ItemsOf, ShownBy

LEMMA SeenAppended ==
  ASSUME NEW es \in Seq(Entry), NEW e \in Entry, NEW b \in 0..Len(es)
  PROVE  SeenFrom(Append(es, e), b) = SeenFrom(es, b) \cup ItemsOf(e)
<1> DEFINE all == Append(es, e)
<1>1. /\ Len(all) = Len(es) + 1 /\ all[Len(es) + 1] = e
      /\ \A i \in 1..Len(es) : all[i] = es[i]
  OBVIOUS
<1> HIDE DEF all
<1>2. ASSUME NEW n \in SeenFrom(all, b) PROVE n \in SeenFrom(es, b) \cup ItemsOf(e)
  <2>1. n \in Item
    BY SeenWhere
  <2>2. PICK i \in b + 1..Len(all) : ShownBy(all[i], n)
    BY DEF SeenFrom
  <2>3. CASE i = Len(es) + 1
    BY <1>1, <2>1, <2>2, <2>3 DEF ItemsOf
  <2>4. CASE i # Len(es) + 1
    <3>1. i \in b + 1..Len(es) /\ i \in 1..Len(es)
      BY <1>1, <2>4
    <3> QED BY <1>1, <2>1, <2>2, <3>1 DEF SeenFrom
  <2> QED BY <2>3, <2>4
<1>3. ASSUME NEW n \in SeenFrom(es, b) PROVE n \in SeenFrom(all, b)
  <2>1. PICK i \in b + 1..Len(es) : ShownBy(es[i], n)
    BY DEF SeenFrom
  <2>2. i \in b + 1..Len(all) /\ i \in 1..Len(es) /\ n \in Item
    BY <1>1, SeenWhere
  <2> QED BY <1>1, <2>1, <2>2 DEF SeenFrom
<1>4. ASSUME NEW n \in ItemsOf(e) PROVE n \in SeenFrom(all, b)
  <2>1. Len(es) + 1 \in b + 1..Len(all)
    BY <1>1
  <2> QED BY <1>1, <2>1 DEF SeenFrom, ItemsOf
<1> QED BY <1>2, <1>3, <1>4 DEF all

\* A list ascends when its last entry ascends and is above those before it.
LEMMA AscendsAppended ==
  ASSUME NEW es \in Seq(Entry), NEW e \in Entry, NEW b \in 0..Len(es)
  PROVE  Ascends(Append(es, e), b) <=>
           /\ Ascends(es, b)
           /\ Rising(Seen(e))
           /\ \A m \in SeenFrom(es, b), n \in ItemsOf(e) : m < n
<1> DEFINE all == Append(es, e)
<1>1. /\ Len(all) = Len(es) + 1 /\ all[Len(es) + 1] = e
      /\ \A i \in 1..Len(es) : all[i] = es[i]
  OBVIOUS
<1> HIDE DEF all
<1>2. ASSUME Ascends(all, b) PROVE Ascends(es, b)
  <2>1. ASSUME NEW i \in b + 1..Len(es), NEW j \in b + 1..Len(es),
               NEW k \in 1..Len(Seen(es[i])), NEW l \in 1..Len(Seen(es[j])),
               i < j \/ (i = j /\ k < l)
        PROVE  Seen(es[i])[k] < Seen(es[j])[l]
    <3>1. i \in 1..Len(es) /\ j \in 1..Len(es) /\ i \in b + 1..Len(all) /\ j \in b + 1..Len(all)
      BY <1>1
    <3>2. all[i] = es[i] /\ all[j] = es[j]
      BY <1>1, <3>1
    <3> QED BY <1>2, <2>1, <3>1, <3>2 DEF Ascends
  <2> QED BY <2>1 DEF Ascends
<1>3. ASSUME Ascends(all, b) PROVE Rising(Seen(e))
  <2>1. Len(es) + 1 \in b + 1..Len(all)
    BY <1>1
  <2> QED BY <1>1, <1>3, <2>1 DEF Ascends, Rising
<1>4. ASSUME Ascends(all, b), NEW m \in SeenFrom(es, b), NEW n \in ItemsOf(e)
      PROVE  m < n
  <2>1. PICK i \in b + 1..Len(es) : \E k \in 1..Len(Seen(es[i])) : Seen(es[i])[k] = m
    BY SeenWhere
  <2>2. PICK k \in 1..Len(Seen(es[i])) : Seen(es[i])[k] = m
    BY <2>1
  <2>3. PICK l \in 1..Len(Seen(e)) : Seen(e)[l] = n
    BY DEF ItemsOf, ShownBy
  <2>4. i \in 1..Len(es) /\ i \in b + 1..Len(all) /\ Len(es) + 1 \in b + 1..Len(all)
        /\ i < Len(es) + 1
    BY <1>1
  <2>5. all[i] = es[i]
    BY <1>1, <2>4
  <2> QED BY <1>1, <1>4, <2>2, <2>3, <2>4, <2>5 DEF Ascends
<1>5. ASSUME Ascends(es, b), Rising(Seen(e)),
             \A m \in SeenFrom(es, b), n \in ItemsOf(e) : m < n
      PROVE  Ascends(all, b)
  <2>1. ASSUME NEW i \in b + 1..Len(all), NEW j \in b + 1..Len(all),
               NEW k \in 1..Len(Seen(all[i])), NEW l \in 1..Len(Seen(all[j])),
               i < j \/ (i = j /\ k < l)
        PROVE  Seen(all[i])[k] < Seen(all[j])[l]
    <3>1. CASE j # Len(es) + 1
      <4>1. i \in b + 1..Len(es) /\ j \in b + 1..Len(es)
            /\ i \in 1..Len(es) /\ j \in 1..Len(es)
        BY <1>1, <2>1, <3>1
      <4>2. all[i] = es[i] /\ all[j] = es[j]
        BY <1>1, <4>1
      <4> QED BY <1>5, <2>1, <4>1, <4>2 DEF Ascends
    <3>2. CASE j = Len(es) + 1 /\ i = j
      BY <1>1, <1>5, <2>1, <3>2 DEF Rising
    <3>3. CASE j = Len(es) + 1 /\ i < j
      <4>1. i \in b + 1..Len(es) /\ i \in 1..Len(es)
        BY <3>3
      <4>2. all[i] = es[i] /\ all[j] = e
        BY <1>1, <3>3, <4>1
      <4>3. Seen(all[i])[k] \in SeenFrom(es, b)
        BY <4>1, <4>2, SeenAt
      <4>4. Seen(all[j])[l] \in ItemsOf(e)
        BY <4>2, ItemsAt
      <4> QED BY <1>5, <4>3, <4>4
    <3>4. i <= j
      BY <2>1
    <3> QED BY <3>1, <3>2, <3>3, <3>4
  <2> QED BY <2>1 DEF Ascends
<1> QED BY <1>2, <1>3, <1>4, <1>5 DEF all


\* r is the list all, or all with its head made a marker (d = 0) or replaced by the
\* one that is there (d = 1).
Slides(all, r, d) ==
  /\ Len(r) = Len(all) - d
  /\ \A i \in 2..Len(r) : r[i] = all[i + d]
  /\ \/ d = 0 /\ r = all
     \/ /\ r # <<>> /\ r[1].kind = "marker"
        /\ d = 1 => all # <<>> /\ all[1].kind = "marker"

LEMMA AppendEntrySlides ==
  ASSUME NEW es \in Seq(Entry), NEW c \in Nat, Window(es, c),
         NEW e \in Entry, e.kind # "marker"
  PROVE  /\ \E d \in {0, 1} : Slides(Append(es, e), AppendEntry(es, e), d)
         /\ HasMarker(es) => HasMarker(AppendEntry(es, e))
<1> DEFINE all == Append(es, e)
           r == AppendEntry(es, e)
           d == IF HasMarker(es) THEN 1 ELSE 0
<1>1. \/ r = all /\ ~HasMarker(es)
      \/ Evicts(es, r, e)
  BY AppendEntryIs
<1>2. r \in Seq(Entry)
  BY AppendEntryIs
<1>3. /\ Len(all) = Len(es) + 1 /\ all[Len(es) + 1] = e
      /\ \A i \in 1..Len(es) : all[i] = es[i]
      /\ all # <<>>
  OBVIOUS
<1> HIDE DEF r, all
<1>4. CASE r = all /\ ~HasMarker(es)
  <2>1. Slides(all, r, 0)
    BY <1>3, <1>4 DEF Slides
  <2> QED BY <1>4, <2>1 DEF r, all
<1>5. CASE Evicts(es, r, e)
  <2>1. /\ r # <<>> /\ r[1].kind = "marker"
        /\ Len(es) = MaxEntries + d /\ Len(r) = MaxEntries + 1
        /\ \A i \in 2..MaxEntries : r[i] = es[i + d]
        /\ r[MaxEntries + 1] = e
        /\ HasMarker(r)
    BY <1>5, <1>2 DEF Evicts, HasMarker
  <2>2. ASSUME NEW i \in 2..Len(r) PROVE r[i] = all[i + d]
    <3>1. CASE i = MaxEntries + 1
      BY <1>3, <2>1, <3>1, MaxEntriesPos
    <3>2. CASE i \in 2..MaxEntries
      <4>1. i + d \in 1..Len(es)
        BY <2>1, <3>2, MaxEntriesPos
      <4> QED BY <1>3, <2>1, <3>2, <4>1
    <3> QED BY <2>1, <3>1, <3>2, MaxEntriesPos
  <2>3. d = 1 => all[1].kind = "marker"
    <3> SUFFICES ASSUME HasMarker(es) PROVE all[1].kind = "marker"
      OBVIOUS
    <3>1. es # <<>> /\ es[1].kind = "marker"
      BY DEF HasMarker
    <3>2. 1 \in 1..Len(es)
      BY <3>1
    <3> QED BY <1>3, <3>1, <3>2
  <2>4. d \in {0, 1}
    OBVIOUS
  <2>5. Len(r) = Len(all) - d
    BY <1>3, <2>1, MaxEntriesPos
  <2> HIDE DEF d
  <2>6. Slides(all, r, d)
    BY <1>3, <2>1, <2>2, <2>3, <2>5 DEF Slides
  <2> QED BY <2>1, <2>4, <2>6 DEF r, all
<1> QED BY <1>1, <1>4, <1>5

\* Where the entries after the b-th are after that.
Slid(b, d) == IF b < d THEN 0 ELSE b - d

\* Order is kept, nothing is seen that was not, and what is not seen any more was
\* below everything else.
LEMMA SlidingKeepsOrder ==
  ASSUME NEW all \in Seq(Entry), NEW r \in Seq(Entry), NEW d \in {0, 1},
         Slides(all, r, d), NEW b \in 0..Len(all), Ascends(all, b)
  PROVE  /\ Ascends(r, Slid(b, d))
         /\ SeenFrom(r, Slid(b, d)) \subseteq SeenFrom(all, b)
         /\ \A n \in SeenFrom(all, b) :
              \/ n \in SeenFrom(r, Slid(b, d))
              \/ /\ HasMarker(r) /\ Slid(b, d) = 0
                 /\ \A m \in SeenFrom(r, 0) : m > n
<1> DEFINE b2 == Slid(b, d)
<1>1. b2 \in Nat /\ b2 + d >= b /\ (b2 # 0 => b2 + d = b)
  BY DEF Slid
<1>2. CASE d = 0 /\ r = all
  <2>1. b2 = b
    BY <1>2 DEF Slid
  <2> QED BY <1>2, <2>1
<1>3. CASE r # <<>> /\ r[1].kind = "marker" /\ (d = 1 => all # <<>> /\ all[1].kind = "marker")
  <2>1. Seen(r[1]) = <<>> /\ HasMarker(r)
    BY <1>3 DEF Seen, HasMarker
  <2>2. \A i \in 2..Len(r) : r[i] = all[i + d] /\ i + d \in 1..Len(all)
    BY DEF Slides
  <2>3. \A i \in b2 + 1..Len(r) : i # 1 => i \in 2..Len(r) /\ i + d \in b + 1..Len(all)
    BY <1>1 DEF Slides
  <2> HIDE DEF b2
  <2>4. ASSUME NEW i \in b2 + 1..Len(r), NEW k \in 1..Len(Seen(r[i]))
        PROVE  i # 1 /\ i \in 2..Len(r) /\ i + d \in b + 1..Len(all) /\ r[i] = all[i + d]
    <3>1. i # 1
      BY <2>1
    <3> QED BY <2>2, <2>3, <3>1
  <2>5. Ascends(r, b2)
    <3> SUFFICES ASSUME NEW i \in b2 + 1..Len(r), NEW j \in b2 + 1..Len(r),
                        NEW k \in 1..Len(Seen(r[i])), NEW l \in 1..Len(Seen(r[j])),
                        i < j \/ (i = j /\ k < l)
                 PROVE  Seen(r[i])[k] < Seen(r[j])[l]
      BY DEF Ascends
    <3>1. r[i] = all[i + d] /\ i + d \in b + 1..Len(all)
      BY <2>4
    <3>2. r[j] = all[j + d] /\ j + d \in b + 1..Len(all)
      BY <2>4
    <3>3. i + d < j + d \/ (i + d = j + d /\ k < l)
      BY <1>1
    <3> QED BY <3>1, <3>2, <3>3 DEF Ascends
  <2>6. ASSUME NEW n \in SeenFrom(r, b2) PROVE n \in SeenFrom(all, b)
    <3>1. PICK i \in b2 + 1..Len(r) : \E k \in 1..Len(Seen(r[i])) : Seen(r[i])[k] = n
      BY SeenWhere
    <3>2. PICK k \in 1..Len(Seen(r[i])) : Seen(r[i])[k] = n
      BY <3>1
    <3>3. r[i] = all[i + d] /\ i + d \in b + 1..Len(all)
      BY <2>4
    <3> QED BY <3>2, <3>3, SeenAt
  <2>7. ASSUME NEW n \in SeenFrom(all, b), n \notin SeenFrom(r, b2)
        PROVE  b2 = 0 /\ \A m \in SeenFrom(r, 0) : m > n
    <3>1. PICK i \in b + 1..Len(all) : \E k \in 1..Len(Seen(all[i])) : Seen(all[i])[k] = n
      BY SeenWhere
    <3>2. PICK k \in 1..Len(Seen(all[i])) : Seen(all[i])[k] = n
      BY <3>1
    <3>3. i <= 1 + d
      <4> SUFFICES ASSUME i > 1 + d PROVE FALSE
        OBVIOUS
      <4>1. i - d \in 2..Len(r) /\ i - d \in b2 + 1..Len(r) /\ (i - d) + d = i
        BY <1>1 DEF Slides, Slid, b2
      <4>2. r[i - d] = all[i]
        BY <2>2, <4>1
      <4>3. k \in 1..Len(Seen(r[i - d])) /\ Seen(r[i - d])[k] = n
        BY <3>2, <4>2
      <4>4. b2 \in Nat
        BY <1>1 DEF b2
      <4>5. n \in SeenFrom(r, b2)
        BY <4>1, <4>3, <4>4, SeenAt
      <4> QED BY <2>7, <4>5
    <3>4. i = 1 + d
      <4>1. d = 1 => i # 1
        <5> SUFFICES ASSUME d = 1, i = 1 PROVE FALSE
          OBVIOUS
        <5>1. Seen(all[1]) = <<>>
          BY <1>3 DEF Seen
        <5> QED BY <3>2, <5>1
      <4> QED BY <3>3, <4>1
    <3>5. b2 = 0
      BY <3>4 DEF b2, Slid
    <3>6. ASSUME NEW m \in SeenFrom(r, 0) PROVE m > n
      <4>1. PICK j \in 0 + 1..Len(r) : \E l \in 1..Len(Seen(r[j])) : Seen(r[j])[l] = m
        BY SeenWhere
      <4>2. PICK l \in 1..Len(Seen(r[j])) : Seen(r[j])[l] = m
        BY <4>1
      <4>3. j \in b2 + 1..Len(r)
        BY <3>5
      <4>4. r[j] = all[j + d] /\ j + d \in b + 1..Len(all) /\ j # 1
        BY <2>4, <4>3
      <4>5. i < j + d
        BY <3>4, <4>4
      <4>6. n < m
        BY <3>2, <4>2, <4>4, <4>5 DEF Ascends
      <4>7. n \in Item /\ m \in Item
        BY SeenWhere
      <4> QED BY <4>6, <4>7 DEF Item
    <3> QED BY <3>5, <3>6
  <2> QED BY <2>1, <2>5, <2>6, <2>7 DEF b2
<1> QED BY <1>2, <1>3 DEF Slides


-----------------------------------------------------------------------------
\* A list r with its live part after the b2-th entry follows one that had S in its
\* live part, after the b-th entry.
Moves(S, b, r, b2) ==
  /\ b = 0 => b2 = 0
  /\ Ascends(r, b2)
  /\ SeenFrom(r, b2) \subseteq S
  /\ \A n \in S :
       \/ n \in SeenFrom(r, b2)
       \/ HasMarker(r) /\ b2 = 0 /\ \A m \in SeenFrom(r, b2) : m > n

LEMMA MarkerAppended ==
  ASSUME NEW es \in Seq(Entry), NEW e \in Entry, e.kind # "marker"
  PROVE  HasMarker(Append(es, e)) <=> HasMarker(es)
<1>1. CASE es = <<>>
  BY <1>1 DEF HasMarker
<1>2. CASE es # <<>>
  <2>1. Append(es, e) # <<>> /\ Head(Append(es, e)) = Head(es)
    BY <1>2
  <2> QED BY <1>2, <2>1 DEF HasMarker
<1> QED BY <1>1, <1>2

LEMMA AddedMoves ==
  ASSUME NEW es \in Seq(Entry), NEW c \in Nat, Window(es, c),
         NEW e \in Entry, e.kind # "marker",
         NEW b \in 0..Len(es), Ascends(es, b), Rising(Seen(e)),
         \A m \in SeenFrom(es, b), n \in ItemsOf(e) : m < n
  PROVE  \E b2 \in 0..Len(AppendEntry(es, e)) :
           Moves(SeenFrom(es, b) \cup ItemsOf(e), b, AppendEntry(es, e), b2)
<1> DEFINE all == Append(es, e)
           r == AppendEntry(es, e)
<1>1. PICK d \in {0, 1} : Slides(all, r, d)
  BY AppendEntrySlides
<1>2. all \in Seq(Entry) /\ Len(all) = Len(es) + 1 /\ b \in 0..Len(all)
  OBVIOUS
<1>3. r \in Seq(Entry)
  BY AppendEntryIs
<1>4. Ascends(all, b)
  BY AscendsAppended
<1>5. SeenFrom(all, b) = SeenFrom(es, b) \cup ItemsOf(e)
  BY SeenAppended
<1> HIDE DEF all, r
<1> DEFINE b2 == Slid(b, d)
<1>6. /\ Ascends(r, b2)
      /\ SeenFrom(r, b2) \subseteq SeenFrom(all, b)
      /\ \A n \in SeenFrom(all, b) :
           \/ n \in SeenFrom(r, b2)
           \/ /\ HasMarker(r) /\ b2 = 0
              /\ \A m \in SeenFrom(r, 0) : m > n
  BY <1>1, <1>2, <1>3, <1>4, SlidingKeepsOrder
<1>7. b2 \in 0..Len(r) /\ (b = 0 => b2 = 0)
  BY <1>1, <1>2 DEF Slid, Slides
<1> HIDE DEF b2
<1>8. Moves(SeenFrom(all, b), b, r, b2)
  BY <1>6, <1>7 DEF Moves
<1> QED BY <1>5, <1>7, <1>8 DEF r

\* A text at the end of the list moves with it.
LEMMA MovesWithText ==
  ASSUME NEW S \in SUBSET Item, NEW b \in Nat, NEW r \in Seq(Entry), NEW b2 \in 0..Len(r),
         Moves(S, b, r, b2), NEW t \in Entry, t.kind # "marker", Rising(Seen(t)),
         \A m \in S, n \in ItemsOf(t) : m < n
  PROVE  /\ Moves(S \cup ItemsOf(t), b, Append(r, t), b2)
         /\ b2 \in 0..Len(Append(r, t))
<1> DEFINE q == Append(r, t)
<1>1. Ascends(q, b2)
  BY AscendsAppended DEF Moves
<1>2. SeenFrom(q, b2) = SeenFrom(r, b2) \cup ItemsOf(t)
  BY SeenAppended
<1>3. HasMarker(q) <=> HasMarker(r)
  BY MarkerAppended
<1>4. b2 \in 0..Len(q)
  OBVIOUS
<1> HIDE DEF q
<1>5. SeenFrom(q, b2) \subseteq S \cup ItemsOf(t)
  BY <1>2 DEF Moves
<1>6. ASSUME NEW n \in S \cup ItemsOf(t), n \notin SeenFrom(q, b2)
      PROVE  HasMarker(q) /\ b2 = 0 /\ \A m \in SeenFrom(q, b2) : m > n
  <2>1. n \in S /\ n \notin SeenFrom(r, b2)
    BY <1>2, <1>6
  <2>2. HasMarker(q) /\ b2 = 0 /\ \A m \in SeenFrom(r, b2) : m > n
    BY <2>1, <1>3 DEF Moves
  <2>3. ASSUME NEW m \in ItemsOf(t) PROVE m > n
    <3>1. n < m
      BY <2>1
    <3>2. n \in Item /\ m \in Item
      BY <2>1 DEF ItemsOf
    <3> QED BY <3>1, <3>2 DEF Item
  <2> QED BY <1>2, <2>2, <2>3
<1>7. Moves(S \cup ItemsOf(t), b, q, b2)
  BY <1>1, <1>5, <1>6 DEF Moves
<1> QED BY <1>4, <1>7 DEF q

LEMMA MovesTwice ==
  ASSUME NEW S \in SUBSET Item, NEW N \in SUBSET Item, \A m \in S, n \in N : m < n,
         NEW b \in Nat, NEW r \in Seq(Entry), NEW b1 \in 0..Len(r), Moves(S, b, r, b1),
         NEW q \in Seq(Entry), NEW b2 \in 0..Len(q),
         Moves(SeenFrom(r, b1) \cup N, b1, q, b2),
         HasMarker(r) => HasMarker(q)
  PROVE  Moves(S \cup N, b, q, b2)
<1>1. b = 0 => b2 = 0
  BY DEF Moves
<1>2. Ascends(q, b2)
  BY DEF Moves
<1>3. SeenFrom(r, b1) \subseteq S /\ SeenFrom(q, b2) \subseteq SeenFrom(r, b1) \cup N
  BY DEF Moves
<1>4. ASSUME NEW n \in S \cup N, n \notin SeenFrom(q, b2)
      PROVE  HasMarker(q) /\ b2 = 0 /\ \A m \in SeenFrom(q, b2) : m > n
  <2>1. CASE n \in SeenFrom(r, b1) \cup N
    BY <1>4, <2>1 DEF Moves
  <2>2. CASE n \notin SeenFrom(r, b1) \cup N
    <3>1. n \in S /\ HasMarker(r) /\ b1 = 0 /\ \A m \in SeenFrom(r, b1) : m > n
      BY <1>4, <2>2 DEF Moves
    <3>2. HasMarker(q) /\ b2 = 0
      BY <3>1 DEF Moves
    <3>3. ASSUME NEW m \in SeenFrom(q, b2) PROVE m > n
      <4>1. CASE m \in SeenFrom(r, b1)
        BY <3>1, <4>1
      <4>2. CASE m \in N
        <5>1. n < m
          BY <3>1, <4>2
        <5>2. n \in Item /\ m \in Item
          BY <3>1, <4>2
        <5> QED BY <5>1, <5>2 DEF Item
      <4> QED BY <1>3, <4>1, <4>2
    <3> QED BY <3>2, <3>3
  <2> QED BY <2>1, <2>2
<1> QED BY <1>1, <1>2, <1>3, <1>4 DEF Moves


-----------------------------------------------------------------------------
\* Rolls: adding entries and results to them.

RollOK(roll) ==
  /\ roll.list \in Seq(Entry)
  /\ roll.count \in Nat
  /\ Window(roll.list, roll.count)

LEMMA AddedOK ==
  ASSUME NEW roll, RollOK(roll), NEW e \in Entry, e.kind # "marker"
  PROVE  /\ RollOK(Added(roll, e))
         /\ Added(roll, e).list = AppendEntry(roll.list, e)
         /\ Added(roll, e).count = roll.count + 1
         /\ Added(roll, e).list # <<>>
         /\ HasMarker(roll.list) => HasMarker(Added(roll, e).list)
<1>1. /\ AppendEntry(roll.list, e) \in Seq(Entry)
      /\ Window(AppendEntry(roll.list, e), roll.count + 1)
  BY AppendEntryIs DEF RollOK
<1>2. HasMarker(roll.list) => HasMarker(AppendEntry(roll.list, e))
  BY AppendEntrySlides DEF RollOK
<1>3. AppendEntry(roll.list, e) # <<>>
  <2>1. \/ AppendEntry(roll.list, e) = Append(roll.list, e)
        \/ HasMarker(AppendEntry(roll.list, e))
    BY AppendEntryIs DEF RollOK, Evicts
  <2>2. ASSUME NEW es \in Seq(Entry) PROVE Append(es, e) # <<>>
    OBVIOUS
  <2>3. Append(roll.list, e) # <<>>
    BY <2>2 DEF RollOK
  <2> QED BY <2>1, <2>3 DEF HasMarker
<1> QED BY <1>1, <1>2, <1>3 DEF Added, RollOK

\* A new entry of another kind leaves the last entry of a call what it is.
LEMMA AddedCalls ==
  ASSUME NEW es \in Seq(Entry), NEW c \in Nat, Window(es, c),
         NEW e \in Entry, e.kind # "marker", NEW n, ~IsCall(e, n),
         NEW i \in 1..Len(AppendEntry(es, e)), LastCall(AppendEntry(es, e), i, n)
  PROVE  \E j \in 1..Len(es) : LastCall(es, j, n) /\ AppendEntry(es, e)[i] = es[j]
<1> DEFINE all == Append(es, e)
           r == AppendEntry(es, e)
<1>1. PICK d \in {0, 1} : Slides(all, r, d)
  BY AppendEntrySlides
<1>2. /\ Len(all) = Len(es) + 1 /\ all[Len(es) + 1] = e
      /\ \A j \in 1..Len(es) : all[j] = es[j]
  OBVIOUS
<1>3. i \in 1..Len(r) /\ IsCall(r[i], n) /\ \A k \in i + 1..Len(r) : ~IsCall(r[k], n)
  BY DEF LastCall
<1> HIDE DEF all, r
<1>4. \A k \in 1..Len(r) : IsCall(r[k], n) => r[k] = all[k + d]
  BY <1>1 DEF Slides, IsCall
<1>5. Len(r) = Len(all) - d /\ \A k \in 2..Len(r) : r[k] = all[k + d]
  BY <1>1 DEF Slides
<1>6. r[i] = all[i + d] /\ i + d \in 1..Len(all)
  BY <1>1, <1>2, <1>3, <1>4, <1>5
<1>7. i + d # Len(es) + 1
  BY <1>2, <1>3, <1>6
<1>8. i + d \in 1..Len(es)
  BY <1>2, <1>6, <1>7
<1>9. ASSUME NEW j \in (i + d) + 1..Len(es) PROVE ~IsCall(es[j], n)
  <2>1. j - d \in i + 1..Len(r) /\ j - d \in 2..Len(r) /\ (j - d) + d = j /\ j \in 1..Len(es)
    BY <1>2, <1>5
  <2>2. r[j - d] = es[j]
    BY <1>2, <1>5, <2>1
  <2> QED BY <1>3, <2>1, <2>2
<1>10. LastCall(es, i + d, n) /\ r[i] = es[i + d]
  BY <1>2, <1>3, <1>6, <1>8, <1>9 DEF LastCall
<1> QED BY <1>8, <1>10 DEF r

LEMMA WithResultIs ==
  ASSUME NEW es \in Seq(Entry), NEW n
  PROVE  /\ WithResult(es, n) \in Seq(Entry)
         /\ Len(WithResult(es, n)) = Len(es)
         /\ \A i \in 1..Len(es) :
              /\ WithResult(es, n)[i].kind = es[i].kind
              /\ WithResult(es, n)[i].items = es[i].items
              /\ WithResult(es, n)[i].dropped = es[i].dropped
              /\ WithResult(es, n)[i].result = (es[i].result \/ LastCall(es, i, n))
<1> DEFINE r == WithResult(es, n)
<1>1. r = [i \in 1..Len(es) |-> [es[i] EXCEPT !.result = @ \/ LastCall(es, i, n)]]
  BY DEF WithResult
<1> HIDE DEF r
<1>2. ASSUME NEW i \in 1..Len(es)
      PROVE  /\ r[i] \in Entry
             /\ r[i].kind = es[i].kind
             /\ r[i].items = es[i].items
             /\ r[i].dropped = es[i].dropped
             /\ r[i].result = (es[i].result \/ LastCall(es, i, n))
  <2>1. r[i] = [es[i] EXCEPT !.result = @ \/ LastCall(es, i, n)]
    BY <1>1
  <2>2. es[i] \in Entry
    OBVIOUS
  <2> QED BY <2>1, <2>2 DEF Entry
<1>3. r \in Seq(Entry) /\ Len(r) = Len(es)
  BY <1>1, <1>2
<1> QED BY <1>2, <1>3 DEF r

\* Lists that show the same.
Alike(es, r) ==
  /\ Len(r) = Len(es)
  /\ \A i \in 1..Len(es) : r[i].kind = es[i].kind /\ r[i].items = es[i].items

LEMMA AlikeShows ==
  ASSUME NEW es \in Seq(Entry), NEW r \in Seq(Entry), Alike(es, r)
  PROVE  /\ \A b \in Nat : /\ SeenFrom(r, b) = SeenFrom(es, b)
                           /\ Ascends(es, b) => Ascends(r, b)
         /\ HasMarker(r) <=> HasMarker(es)
         /\ \A i \in 1..Len(es) : \A n : LastCall(r, i, n) <=> LastCall(es, i, n)
<1>1. /\ Len(r) = Len(es)
      /\ \A i \in 1..Len(es) : Seen(r[i]) = Seen(es[i])
  BY DEF Alike, Seen
<1>2. ASSUME NEW b \in Nat
      PROVE  SeenFrom(r, b) = SeenFrom(es, b) /\ (Ascends(es, b) => Ascends(r, b))
  <2>1. \A i \in b + 1..Len(es) : i \in 1..Len(es)
    OBVIOUS
  <2>2. \A i \in b + 1..Len(es) : Seen(r[i]) = Seen(es[i])
    BY <1>1, <2>1
  <2>3. SeenFrom(r, b) = SeenFrom(es, b)
    BY <1>1, <2>2 DEF SeenFrom, ShownBy
  <2>4. Ascends(es, b) => Ascends(r, b)
    BY <1>1, <2>2 DEF Ascends
  <2> QED BY <2>3, <2>4
<1>3. HasMarker(r) <=> HasMarker(es)
  <2>1. CASE es = <<>>
    <3>1. r = <<>>
      BY <1>1, <2>1
    <3> QED BY <2>1, <3>1 DEF HasMarker
  <2>2. CASE es # <<>>
    <3>1. Head(es) = es[1] /\ Head(r) = r[1] /\ r # <<>> /\ 1 \in 1..Len(es)
      BY <1>1, <2>2
    <3> QED BY <2>2, <3>1 DEF HasMarker, Alike
  <2> QED BY <2>1, <2>2
<1>4. ASSUME NEW i \in 1..Len(es), NEW n
      PROVE  LastCall(r, i, n) <=> LastCall(es, i, n)
  <2>1. \A j \in 1..Len(es) : IsCall(r[j], n) <=> IsCall(es[j], n)
    BY DEF Alike, IsCall
  <2>2. \A j \in i + 1..Len(es) : j \in 1..Len(es)
    OBVIOUS
  <2> QED BY <1>1, <2>1, <2>2 DEF LastCall
<1> QED BY <1>2, <1>3, <1>4

LEMMA WithResultOK ==
  ASSUME NEW es \in Seq(Entry), NEW c \in Nat, Window(es, c), NEW n
  PROVE  /\ WithResult(es, n) \in Seq(Entry)
         /\ Window(WithResult(es, n), c)
         /\ Alike(es, WithResult(es, n))
<1> DEFINE r == WithResult(es, n)
<1>1. /\ r \in Seq(Entry) /\ Len(r) = Len(es)
      /\ \A i \in 1..Len(es) : /\ r[i].kind = es[i].kind
                               /\ r[i].items = es[i].items
                               /\ r[i].dropped = es[i].dropped
  BY WithResultIs
<1> HIDE DEF r
<1>2. Alike(es, r)
  BY <1>1 DEF Alike
<1>3. HasMarker(r) <=> HasMarker(es)
  BY <1>1, <1>2, AlikeShows
<1>4. HasMarker(es) => r[1].dropped = es[1].dropped
  <2>1. HasMarker(es) => 1 \in 1..Len(es)
    BY DEF HasMarker
  <2> QED BY <1>1, <2>1
<1>5. \A i \in 2..Len(r) : r[i].kind # "marker"
  <2>1. \A i \in 2..Len(es) : i \in 1..Len(es)
    OBVIOUS
  <2> QED BY <1>1, <2>1 DEF Window
<1>6. Window(r, c)
  BY <1>1, <1>3, <1>4, <1>5 DEF Window
<1> QED BY <1>1, <1>2, <1>6 DEF r


-----------------------------------------------------------------------------
\* A replay ascends and shows nothing after its last item.

LEMMA OneItemSeen ==
  ASSUME NEW e \in Entry, NEW n \in Item, e.items = <<n>> \/ e.items = <<>>
  PROVE  /\ ItemsOf(e) \subseteq {n}
         /\ Rising(Seen(e))
         /\ e.kind \notin {"orphan", "marker"} /\ e.items = <<n>> => ItemsOf(e) = {n}
         /\ e.items = <<>> => ItemsOf(e) = {} /\ Seen(e) = <<>>
<1>1. Seen(e) = <<n>> \/ Seen(e) = <<>>
  BY DEF Seen
<1>2. Len(<<n>>) = 1 /\ <<n>>[1] = n
  OBVIOUS
<1> QED BY <1>1, <1>2 DEF ItemsOf, ShownBy, Rising, Seen

LEMMA ReplayedKeeps ==
  ASSUME NEW roll, RollOK(roll), TypeOK, LogOrder, NEW n \in 1..Len(log),
         Ascends(roll.list, 0), \A m \in SeenFrom(roll.list, 0) : m < n
  PROVE  /\ RollOK(Replayed(roll, n))
         /\ Ascends(Replayed(roll, n).list, 0)
         /\ \A m \in SeenFrom(Replayed(roll, n).list, 0) : m <= n
<1> DEFINE c == log[n].of
<1>1. n \in Item /\ c \in Item /\ log[n] \in LogItem
  <2>1. log \in Seq(LogItem) /\ Len(log) <= MaxItems
    BY DEF TypeOK
  <2>2. log[n] \in LogItem
    BY <2>1
  <2>3. n \in Item
    BY <2>1, BoundsNat DEF Item
  <2> QED BY <2>2, <2>3 DEF LogItem
<1>2. ASSUME NEW e \in Entry, e.kind # "marker",
             ItemsOf(e) \subseteq {n}, Rising(Seen(e))
      PROVE  /\ RollOK(Added(roll, e))
             /\ Ascends(Added(roll, e).list, 0)
             /\ \A m \in SeenFrom(Added(roll, e).list, 0) : m <= n
  <2>1. RollOK(Added(roll, e)) /\ Added(roll, e).list = AppendEntry(roll.list, e)
    BY <1>2, AddedOK
  <2> DEFINE es == roll.list
             ct == roll.count
  <2>2. es \in Seq(Entry) /\ ct \in Nat /\ Window(es, ct) /\ Ascends(es, 0)
    BY DEF RollOK
  <2>3. \A m \in SeenFrom(es, 0), l \in ItemsOf(e) : m < l
    BY <1>2
  <2>4. \A m \in SeenFrom(es, 0) : m < n
    OBVIOUS
  <2> HIDE DEF es, ct
  <2>5. 0 \in 0..Len(es)
    BY <2>2
  <2>6. PICK b2 \in 0..Len(AppendEntry(es, e)) :
               Moves(SeenFrom(es, 0) \cup ItemsOf(e), 0, AppendEntry(es, e), b2)
    BY <1>2, <2>2, <2>3, <2>5, AddedMoves
  <2>7. /\ Ascends(AppendEntry(es, e), 0)
        /\ SeenFrom(AppendEntry(es, e), 0) \subseteq SeenFrom(es, 0) \cup {n}
    BY <1>2, <2>6 DEF Moves
  <2>8. ASSUME NEW m \in SeenFrom(es, 0) \cup {n} PROVE m <= n
    <3>1. m \in Item
      BY <1>1, SeenWhere
    <3> QED BY <1>1, <2>4, <3>1 DEF Item
  <2> QED BY <2>1, <2>7, <2>8 DEF es
<1>3. CASE log[n].kind # "result"
  <2> DEFINE e == NewEntry(log[n].kind, <<n>>)
  <2>1. <<n>> \in Seq(Item)
    BY <1>1
  <2>2. log[n].kind \in {"user", "text", "call"}
    BY <1>1, <1>3 DEF LogItem
  <2>3. e \in Entry /\ e.kind = log[n].kind /\ e.items = <<n>>
    <3> DEFINE kind == log[n].kind
    <3>1. kind \in {"user", "text", "call", "orphan", "response", "error",
                    "unavailable", "marker"}
      BY <2>2
    <3> HIDE DEF kind
    <3>2. NewEntry(kind, <<n>>) \in Entry /\ NewEntry(kind, <<n>>).kind = kind
          /\ NewEntry(kind, <<n>>).items = <<n>>
      BY <2>1, <3>1 DEF NewEntry, Entry
    <3> QED BY <3>2 DEF kind
  <2>4. Replayed(roll, n) = Added(roll, e)
    BY <1>3 DEF Replayed
  <2> HIDE DEF e
  <2>5. ItemsOf(e) \subseteq {n} /\ Rising(Seen(e))
    BY <1>1, <2>3, OneItemSeen
  <2> QED BY <1>2, <2>2, <2>3, <2>4, <2>5
<1>4. CASE log[n].kind = "result" /\ HasCall(roll.list, c)
  <2> DEFINE es == roll.list
             ct == roll.count
  <2>1. es \in Seq(Entry) /\ ct \in Nat /\ Window(es, ct) /\ Ascends(es, 0)
    BY DEF RollOK
  <2>2. /\ Replayed(roll, n).list = WithResult(es, c)
        /\ Replayed(roll, n).count = ct
    BY <1>4 DEF Replayed
  <2> HIDE DEF es, ct
  <2>3. /\ WithResult(es, c) \in Seq(Entry)
        /\ Window(WithResult(es, c), ct)
        /\ Alike(es, WithResult(es, c))
    BY <2>1, WithResultOK
  <2>4. /\ SeenFrom(WithResult(es, c), 0) = SeenFrom(es, 0)
        /\ Ascends(WithResult(es, c), 0)
    BY <2>1, <2>3, AlikeShows
  <2>5. RollOK(Replayed(roll, n))
    BY <2>1, <2>2, <2>3 DEF RollOK
  <2>6. ASSUME NEW m \in SeenFrom(es, 0) PROVE m <= n
    <3>1. m \in Item /\ m < n
      BY SeenWhere DEF es
    <3> QED BY <1>1, <3>1 DEF Item
  <2> QED BY <2>2, <2>4, <2>5, <2>6
<1>5. CASE log[n].kind = "result" /\ ~HasCall(roll.list, c)
  <2> DEFINE e == [NewEntry("orphan", <<c>>) EXCEPT !.result = TRUE]
  <2>1. <<c>> \in Seq(Item)
    BY <1>1
  <2>2. e \in Entry /\ e.kind = "orphan"
    <3>1. NewEntry("orphan", <<c>>) \in Entry
      BY <2>1, EntriesTyped
    <3> QED BY <3>1 DEF NewEntry, Entry
  <2>3. Replayed(roll, n) = Added(roll, e)
    BY <1>5 DEF Replayed
  <2> HIDE DEF e
  <2>4. Seen(e) = <<>>
    BY <2>2 DEF Seen
  <2>5. ItemsOf(e) = {} /\ Rising(Seen(e))
    BY <2>4 DEF ItemsOf, ShownBy, Rising
  <2> QED BY <1>2, <2>2, <2>3, <2>5
<1> QED BY <1>3, <1>4, <1>5


LEMMA ReplayKeeps ==
  ASSUME TypeOK, LogOrder, WindowKept, entries = <<>>,
         NEW from \in Nat \ {0}, NEW to \in from - 1..Len(log)
  PROVE  /\ RollOK(Replay(from, to))
         /\ Ascends(Replay(from, to).list, 0)
         /\ \A m \in SeenFrom(Replay(from, to).list, 0) : m <= to
<1>0. to \in Nat /\ to >= from - 1 /\ Len(log) \in Nat /\ from - 1 \in Nat
  BY DEF TypeOK
<1>1. PICK f : /\ Replay(from, to) = f[to]
               /\ f[from - 1] = Roll
               /\ \A n \in from..to : f[n] = Replayed(f[n - 1], n)
  BY <1>0, ReplaySteps
<1> DEFINE Good(n) == /\ RollOK(f[n])
                      /\ Ascends(f[n].list, 0)
                      /\ \A m \in SeenFrom(f[n].list, 0) : m <= n
           G == {n \in from - 1..to : Good(n)}
<1>2. from - 1 \in G
  <2>1. Roll.list = <<>> /\ Roll.count = appended
    BY DEF Roll
  <2>2. RollOK(Roll)
    BY <2>1 DEF RollOK, Roll, WindowKept, TypeOK
  <2>3. SeenFrom(<<>>, 0) = {} /\ Ascends(<<>>, 0)
    BY DEF SeenFrom, Ascends
  <2>4. Good(from - 1)
    BY <1>1, <2>1, <2>2, <2>3
  <2> HIDE DEF Good
  <2> QED BY <1>0, <2>4
<1>3. ASSUME NEW n \in (from - 1) + 1..to, n - 1 \in G
      PROVE  n \in G
  <2>1. n \in from..to /\ n \in 1..Len(log) /\ n \in from - 1..to
    BY <1>0
  <2>2. f[n] = Replayed(f[n - 1], n)
    BY <1>1, <2>1
  <2>3. Good(n - 1)
    BY <1>3
  <2>4. ASSUME NEW m \in SeenFrom(f[n - 1].list, 0) PROVE m < n
    <3>1. m <= n - 1
      BY <2>3
    <3>2. m \in Item
      BY SeenWhere
    <3> QED BY <2>1, <3>1, <3>2 DEF Item
  <2>5. Good(n)
    BY <2>1, <2>2, <2>3, <2>4, ReplayedKeeps
  <2> HIDE DEF Good
  <2> QED BY <2>1, <2>5
<1> HIDE DEF Good, G
<1>4. from - 1..to \subseteq G
  BY <1>0, <1>2, <1>3, HandedOn
<1>5. to \in G
  BY <1>0, <1>4
<1> QED BY <1>1, <1>5 DEF G, Good


-----------------------------------------------------------------------------
\* Types and orders: what the runner has sent only grows.

Grown ==
  /\ sent' \in Nat /\ sent' >= sent
  /\ written' \in Nat /\ written' >= written
  /\ asked' \in Nat /\ asked' >= asked
  /\ Len(log') >= Len(log)
  /\ \A i \in 1..Len(log) : log'[i] = log[i]

LEMMA RunnerTyped ==
  ASSUME TypeOK
  PROVE  /\ sent \in Nat /\ written \in Nat /\ asked \in Nat /\ Len(log) \in Nat
         /\ sent <= Len(log) /\ written <= Len(log) /\ Len(log) <= MaxItems
         /\ MaxItems \in Nat
         /\ feed \in Seq(Message)
         /\ \A i \in 1..Len(log) : log[i] \in LogItem
<1>1. log \in Seq(LogItem) /\ Len(log) <= MaxItems
  BY DEF TypeOK
<1>2. MaxItems \in Nat
  BY BoundsNat
<1> QED BY <1>1, <1>2 DEF TypeOK

LEMMA MessageStays ==
  ASSUME TypeOK, Grown, NEW m \in Message, MessageOK(m)
  PROVE  /\ m.type \in Shown => m.n \in 1..sent' /\ log'[m.n].kind = m.type
         /\ m.type = "result" => m.n \in 1..sent' /\ log'[m.n].kind = "call"
         /\ m.type = "prompt" => m.n \in 1..asked'
         /\ m.type = "history" => /\ m.from >= 1 /\ m.to \in m.from - 1..written'
                                  /\ ~m.ahead => m.to <= sent'
<1>1. /\ sent \in Nat /\ Len(log) \in Nat /\ sent <= Len(log) /\ written \in Nat
      /\ asked \in Nat
  BY RunnerTyped
<1>2. /\ sent' >= sent /\ written' >= written /\ asked' >= asked
      /\ sent' \in Nat /\ written' \in Nat /\ asked' \in Nat
      /\ \A i \in 1..Len(log) : log'[i] = log[i]
  BY DEF Grown
<1>3. ASSUME NEW n \in 1..sent PROVE n \in 1..sent' /\ log'[n] = log[n]
  BY <1>1, <1>2
<1>4. m.type \in Shown => m.n \in 1..sent' /\ log'[m.n].kind = m.type
  BY <1>3 DEF MessageOK
<1>5. m.type = "result" => m.n \in 1..sent' /\ log'[m.n].kind = "call"
  BY <1>3 DEF MessageOK
<1>6. m.type = "prompt" => m.n \in 1..asked'
  BY <1>1, <1>2 DEF MessageOK

<1>7. m.type = "history" => /\ m.from >= 1 /\ m.to \in m.from - 1..written'
                            /\ ~m.ahead => m.to <= sent'
  <2> SUFFICES ASSUME m.type = "history"
               PROVE  /\ m.from >= 1 /\ m.to \in m.from - 1..written'
                      /\ ~m.ahead => m.to <= sent'
    OBVIOUS
  <2>1. m.from \in Nat /\ m.to \in Nat
    BY DEF Message
  <2>2. m.from >= 1 /\ m.to \in m.from - 1..written /\ (~m.ahead => m.to <= sent)
    BY DEF MessageOK, ReadWell
  <2> QED BY <1>1, <1>2, <2>1, <2>2
<1> QED BY <1>4, <1>5, <1>6, <1>7

LEMMA FeedOrderCut ==
  ASSUME TypeOK, FeedOrder, Grown, NEW d \in {0, 1},
         feed' \in Seq(Message), Len(feed') + d <= Len(feed),
         \A i \in 1..Len(feed') : feed'[i] = feed[i + d],
         (intact => connected)'
  PROVE  FeedOrder'
<1>1. /\ sent \in Nat /\ Len(log) \in Nat /\ sent <= Len(log) /\ written \in Nat
      /\ asked \in Nat
  BY RunnerTyped
<1>2. \A i \in 1..Len(feed') : feed'[i] = feed[i + d] /\ i + d \in 1..Len(feed)
  <2>1. feed \in Seq(Message)
    BY RunnerTyped
  <2> QED BY <2>1
<1>3. ASSUME NEW i \in 1..Len(feed') PROVE MessageOK(feed[i])'
  <2> DEFINE m == feed[i + d]
  <2>1. feed'[i] = m /\ MessageOK(m) /\ m \in Message
    <3>1. i + d \in 1..Len(feed) /\ feed'[i] = m
      BY <1>2
    <3>2. feed \in Seq(Message)
      BY RunnerTyped
    <3>3. \A k \in 1..Len(feed) : MessageOK(feed[k])
      BY DEF FeedOrder
    <3> HIDE DEF MessageOK
    <3>4. MessageOK(m)
      BY <3>1, <3>3
    <3> QED BY <3>1, <3>2, <3>4
  <2> HIDE DEF m
  <2>2. /\ m.type \in Shown => m.n \in 1..sent' /\ log'[m.n].kind = m.type
        /\ m.type = "result" => m.n \in 1..sent' /\ log'[m.n].kind = "call"
        /\ m.type = "prompt" => m.n \in 1..asked'
        /\ m.type = "history" => /\ m.from >= 1 /\ m.to \in m.from - 1..written'
                                 /\ ~m.ahead => m.to <= sent'
    BY <2>1, MessageStays
  <2> QED BY <2>1, <2>2 DEF MessageOK, ReadWell
<1>4. ASSUME NEW j \in 1..Len(feed'), NEW i \in 1..j - 1
      PROVE  Precedes(feed[i], feed[j])'
  <2>1. i \in 1..Len(feed') /\ j + d \in 1..Len(feed) /\ i + d \in 1..(j + d) - 1
    BY <1>2
  <2>2. Precedes(feed[i + d], feed[j + d])
    BY <2>1 DEF FeedOrder
  <2>3. feed'[i] = feed[i + d] /\ feed'[j] = feed[j + d]
    BY <1>2, <2>1
  <2> QED BY <2>2, <2>3 DEF Precedes
<1> QED BY <1>3, <1>4 DEF FeedOrder

LEMMA FeedOrderSent ==
  ASSUME TypeOK, FeedOrder, Grown, NEW m \in Message, Send(m),
         UNCHANGED <<intact, connected>>,
         m.type \in Shown => m.n \in 1..sent' /\ log'[m.n].kind = m.type,
         m.type = "result" => m.n \in 1..sent' /\ log'[m.n].kind = "call",
         m.type = "prompt" => m.n \in 1..asked',
         m.type = "history" => m.from >= 1 /\ m.to \in m.from - 1..written'
                               /\ (~m.ahead => m.to <= sent'),
         m.type \in Shown => \A i \in 1..Len(feed) :
           /\ feed[i].type \in Shown => feed[i].n < m.n
           /\ feed[i].type = "history" /\ ~feed[i].ahead => feed[i].to < m.n
  PROVE  FeedOrder' /\ feed' \in Seq(Message)
<1>0. feed \in Seq(Message) /\ feed' \in Seq(Message)
  BY DEF TypeOK, Send
<1>1. CASE ~connected
  <2>1. feed' = feed
    BY <1>1 DEF Send
  <2>2. Len(feed') + 0 <= Len(feed) /\ \A i \in 1..Len(feed') : feed'[i] = feed[i + 0]
    BY <1>0, <2>1
  <2>3. (intact => connected)'
    BY DEF FeedOrder
  <2> QED BY <1>0, <2>2, <2>3, FeedOrderCut
<1>2. CASE connected
  <2>1. /\ feed' = Append(feed, m) /\ Len(feed') = Len(feed) + 1
        /\ feed'[Len(feed) + 1] = m
        /\ \A i \in 1..Len(feed) : feed'[i] = feed[i]
    BY <1>0, <1>2 DEF Send
  <2>2. /\ sent \in Nat /\ Len(log) \in Nat /\ sent <= Len(log) /\ written \in Nat
        /\ asked \in Nat
    BY RunnerTyped
  <2>3. ASSUME NEW i \in 1..Len(feed') PROVE MessageOK(feed[i])'
    <3>1. CASE i = Len(feed) + 1
      BY <2>1, <3>1 DEF MessageOK, ReadWell
    <3>2. CASE i # Len(feed) + 1
      <4> DEFINE q == feed[i]
      <4>1. i \in 1..Len(feed)
        BY <1>0, <2>1, <3>2
      <4>2. feed'[i] = q /\ MessageOK(q) /\ q \in Message
        BY <1>0, <2>1, <4>1 DEF FeedOrder
      <4> HIDE DEF q
      <4>3. /\ q.type \in Shown => q.n \in 1..sent' /\ log'[q.n].kind = q.type
            /\ q.type = "result" => q.n \in 1..sent' /\ log'[q.n].kind = "call"
            /\ q.type = "prompt" => q.n \in 1..asked'
            /\ q.type = "history" => /\ q.from >= 1 /\ q.to \in q.from - 1..written'
                                     /\ ~q.ahead => q.to <= sent'
        BY <4>2, MessageStays
      <4> QED BY <4>2, <4>3 DEF MessageOK, ReadWell
    <3> QED BY <3>1, <3>2
  <2>4. ASSUME NEW j \in 1..Len(feed'), NEW i \in 1..j - 1
        PROVE  Precedes(feed[i], feed[j])'
    <3>1. i \in 1..Len(feed) /\ feed'[i] = feed[i]
      BY <1>0, <2>1
    <3>2. CASE j = Len(feed) + 1
      BY <2>1, <3>1, <3>2 DEF Precedes
    <3>3. CASE j # Len(feed) + 1
      <4>1. j \in 1..Len(feed) /\ feed'[j] = feed[j]
        BY <1>0, <2>1, <3>3
      <4>2. Precedes(feed[i], feed[j])
        BY <4>1 DEF FeedOrder
      <4> QED BY <3>1, <4>1, <4>2 DEF Precedes
    <3> QED BY <3>2, <3>3
  <2>5. (intact => connected)'
    BY DEF FeedOrder
  <2> QED BY <1>0, <2>3, <2>4, <2>5 DEF FeedOrder
<1> QED BY <1>1, <1>2


-----------------------------------------------------------------------------
\* The runner's steps keep the types and orders.

LEMMA RunnerKeepsBase ==
  ASSUME BaseInv, Grown, DeviceIdle, TypeOK', LogOrder', FeedOrder',
         ReadWell(request)'
  PROVE  BaseInv'
<1>1. WindowKept'
  BY DEF BaseInv, WindowKept, Window, HasMarker, DeviceIdle, streamVars
<1>2. PendingText'
  <2> SUFFICES ASSUME NEW k \in 1..Len(pending)
               PROVE  pending[k] <= sent' /\ log'[pending[k]].kind = "text"
    BY DEF PendingText, DeviceIdle, streamVars
  <2>1. pending[k] <= sent /\ log[pending[k]].kind = "text"
    BY DEF BaseInv, PendingText
  <2>2. pending[k] \in 1..MaxItems
    <3>1. pending \in Seq(Item)
      BY DEF BaseInv, TypeOK
    <3>2. pending[k] \in Item
      BY <3>1
    <3> QED BY <3>2 DEF Item
  <2>3. /\ sent \in Nat /\ sent <= Len(log) /\ MaxItems \in Nat /\ Len(log) \in Nat
    BY RunnerTyped DEF BaseInv
  <2>4. pending[k] \in 1..Len(log)
    BY <2>1, <2>2, <2>3
  <2> QED BY <2>1, <2>2, <2>3, <2>4 DEF Grown
<1> QED BY <1>1, <1>2 DEF BaseInv

LEMMA RequestStays ==
  ASSUME BaseInv, Grown, request' = request
  PROVE  ReadWell(request)'
<1>1. request.from \in Nat /\ request.to \in Nat /\ written \in Nat /\ sent \in Nat
  BY DEF BaseInv, TypeOK
<1> QED BY <1>1 DEF BaseInv, ReadWell, Grown

\* With the feed as it was.
LEMMA FeedStays ==
  ASSUME BaseInv, Grown, feed' = feed, UNCHANGED <<intact, connected>>
  PROVE  FeedOrder'
<1>1. feed \in Seq(Message)
  BY RunnerTyped DEF BaseInv
<1>2. feed' \in Seq(Message) /\ Len(feed') + 0 <= Len(feed)
      /\ \A i \in 1..Len(feed') : feed'[i] = feed[i + 0]
  BY <1>1
<1>3. (intact => connected)'
  BY DEF BaseInv, FeedOrder
<1> QED BY <1>2, <1>3, FeedOrderCut DEF BaseInv

LEMMA LogGrows ==
  ASSUME BaseInv, NEW item \in LogItem, log' = Append(log, item), Len(log) < MaxItems
  PROVE  /\ log' \in Seq(LogItem) /\ Len(log') = Len(log) + 1 /\ Len(log') <= MaxItems
         /\ log'[Len(log) + 1] = item
         /\ \A i \in 1..Len(log) : log'[i] = log[i]
         /\ sent' \in {sent, sent + 1} /\ UNCHANGED <<written, asked>> => Grown
<1>1. log \in Seq(LogItem) /\ Len(log) \in Nat /\ MaxItems \in Nat
      /\ sent \in Nat /\ written \in Nat /\ asked \in Nat
  BY RunnerTyped DEF BaseInv, TypeOK
<1>2. /\ log' \in Seq(LogItem) /\ Len(log') = Len(log) + 1
      /\ log'[Len(log) + 1] = item
      /\ \A i \in 1..Len(log) : log'[i] = log[i]
  BY <1>1
<1> QED BY <1>1, <1>2 DEF Grown

LEMMA LogOrderGrows ==
  ASSUME BaseInv, NEW item \in LogItem, log' = Append(log, item), Len(log) < MaxItems,
         item.kind # "result" => item.of = Len(log) + 1,
         item.kind = "result" =>
           /\ item.of \in 1..Len(log)
           /\ log[item.of].kind = "call"
           /\ \A r \in 1..Len(log) : log[r].kind = "result" => log[r].of # item.of,
         IF item.kind = "user" THEN sent' = Len(log) + 1 ELSE sent' = sent,
         running'
  PROVE  LogOrder'
<1> DEFINE n == Len(log) + 1
<1>1. /\ n \in Nat /\ Len(log') = n /\ log'[n] = item
      /\ \A i \in 1..Len(log) : log'[i] = log[i]
  <2>1. Len(log) \in Nat
    BY RunnerTyped DEF BaseInv
  <2> QED BY <2>1, LogGrows
<1>2. /\ \A i \in 1..Len(log) : log[i].kind # "result" => log[i].of = i
      /\ \A r \in 1..Len(log) : log[r].kind = "result" =>
           /\ log[r].of \in 1..r - 1
           /\ log[log[r].of].kind = "call"
      /\ \A r, q \in 1..Len(log) :
           log[r].kind = "result" /\ log[q].kind = "result" /\ log[r].of = log[q].of => r = q
  BY DEF BaseInv, LogOrder
<1>3. \A i \in 1..n : i = n \/ i \in 1..Len(log)
  BY <1>1
<1>4. \A r \in 1..Len(log) : log[r].kind = "result" => log[r].of \in 1..Len(log)
  BY <1>1, <1>2
<1>5. item.kind = "result" => item.of \in 1..n - 1
  BY <1>1
<1> HIDE DEF n
<1>6. \A i \in 1..n : log'[i].kind # "result" => log'[i].of = i
  BY <1>1, <1>2, <1>3 DEF n
<1>7. \A r \in 1..n : log'[r].kind = "result" =>
           /\ log'[r].of \in 1..r - 1
           /\ log'[log'[r].of].kind = "call"
  <2> SUFFICES ASSUME NEW r \in 1..n, log'[r].kind = "result"
               PROVE  log'[r].of \in 1..r - 1 /\ log'[log'[r].of].kind = "call"
    OBVIOUS
  <2>1. CASE r = n
    BY <1>1, <1>5, <2>1
  <2>2. CASE r # n
    <3>1. r \in 1..Len(log) /\ log'[r] = log[r]
      BY <1>1, <1>3, <2>2
    <3> QED BY <1>1, <1>2, <1>4, <3>1
  <2> QED BY <2>1, <2>2
<1>8. \A r, q \in 1..n :
        log'[r].kind = "result" /\ log'[q].kind = "result" /\ log'[r].of = log'[q].of => r = q
  BY <1>1, <1>2, <1>3
<1>9. \A i \in sent' + 1..n : log'[i].kind # "user"
  <2>1. sent \in Nat /\ \A i \in sent + 1..Len(log) : log[i].kind # "user"
    BY RunnerTyped DEF BaseInv, LogOrder
  <2> SUFFICES ASSUME NEW i \in sent' + 1..n PROVE log'[i].kind # "user"
    OBVIOUS
  <2>2. item.kind # "user" /\ sent' = sent
    BY <1>1, <2>1 DEF n
  <2> QED BY <1>1, <2>1, <2>2 DEF n
<1>10. (\A i \in sent + 1..Len(log) : log[i].kind # "user")'
  BY <1>1, <1>9
<1>11. (~running => sent = Len(log))'
  OBVIOUS
<1>12. (\A i \in 1..Len(log) : log[i].kind # "result" => log[i].of = i)'
  BY <1>1, <1>6
<1>13. (\A r \in 1..Len(log) : log[r].kind = "result" =>
          log[r].of \in 1..r - 1 /\ log[log[r].of].kind = "call")'
  BY <1>1, <1>7
<1>14. (\A r, q \in 1..Len(log) :
          log[r].kind = "result" /\ log[q].kind = "result" /\ log[r].of = log[q].of => r = q)'
  BY <1>1, <1>8
<1> QED BY <1>10, <1>11, <1>12, <1>13, <1>14 DEF LogOrder

LEMMA MessagesTyped ==
  /\ \A t \in {"text", "call", "result", "prompt", "done", "error"}, n \in Nat :
       [type |-> t, n |-> n] \in Message
  /\ \A from, to \in Nat, ahead, error \in BOOLEAN :
       [type |-> "history", from |-> from, to |-> to, ahead |-> ahead, error |-> error]
         \in Message
BY DEF Message

\* With the conversation as it was.
LEMMA LogOrderStays ==
  ASSUME TypeOK, LogOrder, log' = log, sent' \in {sent, sent + 1},
         (~running => sent = Len(log))'
  PROVE  LogOrder'
<1>1. sent \in Nat /\ Len(log) \in Nat
  BY RunnerTyped
<1>2. ASSUME NEW n \in sent' + 1..Len(log) PROVE log[n].kind # "user"
  <2>1. CASE sent' = sent
    BY <2>1 DEF LogOrder
  <2>2. CASE sent' = sent + 1
    <3>1. n \in sent + 1..Len(log)
      BY <1>1, <2>2
    <3> QED BY <3>1 DEF LogOrder
  <2> QED BY <2>1, <2>2
<1> QED BY <1>2 DEF LogOrder

\* What the runner has still to yield is no prompt.
LEMMA NextItem ==
  ASSUME BaseInv, sent < Len(log)
  PROVE  /\ sent + 1 \in 1..Len(log)
         /\ log[sent + 1].kind \in {"text", "call", "result"} /\ log[sent + 1].of \in Nat
         /\ [type |-> log[sent + 1].kind, n |-> log[sent + 1].of] \in Message
<1>1. sent \in Nat /\ Len(log) \in Nat
  BY RunnerTyped DEF BaseInv
<1>2. sent + 1 \in 1..Len(log) /\ sent + 1 \in sent + 1..Len(log)
  BY <1>1
<1>3. log[sent + 1] \in LogItem /\ log[sent + 1].kind # "user"
  BY <1>2, RunnerTyped DEF BaseInv, LogOrder
<1>4. log[sent + 1].kind \in {"text", "call", "result"} /\ log[sent + 1].of \in Nat
  BY <1>3 DEF LogItem, Item
<1> QED BY <1>2, <1>4, MessagesTyped


LEMMA TurnStartsKeepsBase ==
  ASSUME BaseInv, TurnStarts
  PROVE  BaseInv'
<1> DEFINE item == [kind |-> "user", of |-> Len(log) + 1]
<1>1. /\ log' = Append(log, item) /\ Len(log) < MaxItems /\ running' = TRUE
      /\ ~running /\ sent' = sent + 1
      /\ UNCHANGED <<written, asked, waiting, request, feed, answers, connected,
                     faults, intact>>
      /\ DeviceIdle
      /\ outbox' \in {outbox} \cup (IF outbox > 0 THEN {outbox - 1} ELSE {})
  BY DEF TurnStarts
<1>2. Len(log) \in Nat /\ MaxItems \in Nat /\ sent <= Len(log) /\ sent \in Nat
      /\ written \in Nat /\ written <= Len(log)
  BY RunnerTyped DEF BaseInv
<1>3. item \in LogItem
  BY <1>1, <1>2 DEF LogItem, Item
<1>4. item.kind = "user" /\ item.of = Len(log) + 1
  OBVIOUS
<1> HIDE DEF item
<1>5. log' \in Seq(LogItem) /\ Len(log') = Len(log) + 1 /\ Len(log') <= MaxItems /\ Grown
  BY <1>1, <1>3, LogGrows
<1>6. LogOrder'
  <2>1. sent' = Len(log) + 1
    BY <1>1 DEF BaseInv, LogOrder
  <2> QED BY <1>1, <1>3, <1>4, <2>1, LogOrderGrows
<1>7. TypeOK'
  <2>1. outbox' \in 0..MaxTyped
    <3>1. MaxTyped \in Nat /\ outbox \in 0..MaxTyped
      BY BoundsNat DEF BaseInv, TypeOK
    <3> QED BY <1>1, <3>1
  <2>2. written' \in 0..Len(log') /\ sent' \in 0..Len(log')
    BY <1>1, <1>2, <1>5
  <2> QED BY <1>1, <1>5, <2>1, <2>2 DEF BaseInv, TypeOK, DeviceIdle, streamVars
<1>8. FeedOrder' /\ ReadWell(request)'
  BY <1>1, <1>5, FeedStays, RequestStays
<1> QED BY <1>1, <1>5, <1>6, <1>7, <1>8, RunnerKeepsBase

LEMMA ConversesKeepsBase ==
  ASSUME BaseInv, Converses
  PROVE  BaseInv'
<1>1. /\ Len(log) < MaxItems /\ running
      /\ UNCHANGED <<written, sent, running, asked, waiting, request, feed, outbox,
                     answers, connected, faults, intact>>
      /\ DeviceIdle
  BY DEF Converses
<1>2. Len(log) \in Nat /\ MaxItems \in Nat /\ sent <= Len(log) /\ sent \in Nat
      /\ written \in Nat /\ written <= Len(log)
  BY RunnerTyped DEF BaseInv
<1>3. PICK item \in LogItem :
        /\ log' = Append(log, item) /\ item.kind # "user"
        /\ item.kind # "result" => item.of = Len(log) + 1
        /\ item.kind = "result" =>
             /\ item.of \in 1..Len(log)
             /\ log[item.of].kind = "call"
             /\ \A r \in 1..Len(log) : log[r].kind = "result" => log[r].of # item.of
  <2>1. ASSUME NEW k \in {"text", "call"},
               log' = Append(log, [kind |-> k, of |-> Len(log) + 1])
        PROVE  /\ [kind |-> k, of |-> Len(log) + 1] \in LogItem
               /\ k # "result" /\ k # "user"
    BY <1>1, <1>2 DEF LogItem, Item
  <2>2. ASSUME NEW c \in 1..Len(log) PROVE [kind |-> "result", of |-> c] \in LogItem
    BY <1>1, <1>2 DEF LogItem, Item
  <2>3. CASE \E k \in {"text", "call"} : log' = Append(log, [kind |-> k, of |-> Len(log) + 1])
    <3>1. PICK k \in {"text", "call"} : log' = Append(log, [kind |-> k, of |-> Len(log) + 1])
      BY <2>3
    <3> QED BY <2>1, <3>1
  <2>4. CASE \E c \in 1..Len(log) :
               /\ log[c].kind = "call"
               /\ \A r \in 1..Len(log) : log[r].kind = "result" => log[r].of # c
               /\ log' = Append(log, [kind |-> "result", of |-> c])
    <3>1. PICK c \in 1..Len(log) :
               /\ log[c].kind = "call"
               /\ \A r \in 1..Len(log) : log[r].kind = "result" => log[r].of # c
               /\ log' = Append(log, [kind |-> "result", of |-> c])
      BY <2>4
    <3> QED BY <2>2, <3>1
  <2> QED BY <2>3, <2>4 DEF Converses
<1>5. log' \in Seq(LogItem) /\ Len(log') = Len(log) + 1 /\ Len(log') <= MaxItems /\ Grown
  BY <1>1, <1>3, LogGrows
<1>6. LogOrder'
  BY <1>1, <1>3, LogOrderGrows
<1>7. TypeOK'
  <2>1. written' \in 0..Len(log') /\ sent' \in 0..Len(log')
    BY <1>1, <1>2, <1>5
  <2> QED BY <1>1, <1>5, <2>1 DEF BaseInv, TypeOK, DeviceIdle, streamVars
<1>8. FeedOrder' /\ ReadWell(request)'
  BY <1>1, <1>5, FeedStays, RequestStays
<1> QED BY <1>1, <1>5, <1>6, <1>7, <1>8, RunnerKeepsBase

LEMMA WritesKeepsBase ==
  ASSUME BaseInv, Writes
  PROVE  BaseInv'
<1>1. /\ written < Len(log) /\ written' = written + 1
      /\ UNCHANGED <<log, sent, running, asked, waiting, request, feed, outbox, answers,
                     connected, faults, intact>>
      /\ DeviceIdle
  BY DEF Writes
<1>2. Len(log) \in Nat /\ sent <= Len(log) /\ sent \in Nat /\ written \in Nat /\ asked \in Nat
  BY RunnerTyped DEF BaseInv
<1>3. Grown
  BY <1>1, <1>2 DEF Grown
<1>4. TypeOK'
  <2>1. written' \in 0..Len(log)
    BY <1>1, <1>2
  <2> QED BY <1>1, <2>1 DEF BaseInv, TypeOK, DeviceIdle, streamVars
<1>5. LogOrder'
  BY <1>1, LogOrderStays DEF BaseInv, LogOrder
<1>6. FeedOrder' /\ ReadWell(request)'
  BY <1>1, <1>3, FeedStays, RequestStays
<1> QED BY <1>1, <1>3, <1>4, <1>5, <1>6, RunnerKeepsBase

LEMMA YieldsKeepsBase ==
  ASSUME BaseInv, Yields
  PROVE  BaseInv' /\ Grown
<1> DEFINE item == log[sent + 1]
           m == [type |-> item.kind, n |-> item.of]
<1>1. /\ sent < Len(log) /\ sent' = sent + 1
      /\ Send(m)
      /\ UNCHANGED <<log, written, running, asked, waiting, request, outbox, answers,
                     connected, faults, intact>>
      /\ DeviceIdle
  BY DEF Yields
<1>2. Len(log) \in Nat /\ sent <= Len(log) /\ sent \in Nat /\ written \in Nat /\ asked \in Nat
      /\ feed \in Seq(Message)
  BY RunnerTyped DEF BaseInv
<1>3. Grown
  BY <1>1, <1>2 DEF Grown
<1>4. item \in LogItem /\ sent + 1 \in 1..Len(log)
  BY <1>1, <1>2 DEF BaseInv, TypeOK
<1>5. /\ item.kind # "result" => item.of = sent + 1
      /\ item.kind = "result" => item.of \in 1..sent /\ log[item.of].kind = "call"
  <2>1. item.kind = "result" => item.of \in 1..(sent + 1) - 1 /\ log[item.of].kind = "call"
    BY <1>4 DEF BaseInv, LogOrder
  <2>2. (sent + 1) - 1 = sent
    BY <1>2
  <2> QED BY <1>4, <2>1, <2>2 DEF BaseInv, LogOrder
<1>6. FeedOrder' /\ feed' \in Seq(Message)
  <2>1. /\ item.kind \in {"text", "call", "result"} /\ item.of \in Nat
        /\ m \in Message /\ m.type = item.kind /\ m.n = item.of
    BY <1>1, NextItem
  <2>2. item.kind \in Shown => item.of = sent + 1 /\ log[sent + 1].kind = item.kind
    BY <1>5 DEF Shown
  <2>3. ASSUME NEW i \in 1..Len(feed)
        PROVE  /\ feed[i].type \in Shown => feed[i].n < sent + 1
               /\ feed[i].type = "history" /\ ~feed[i].ahead => feed[i].to < sent + 1
    <3>1. MessageOK(feed[i])
      BY DEF BaseInv, FeedOrder
    <3>2. feed[i] \in Message
      BY <1>2
    <3>3. feed[i].type = "history" => feed[i].to \in Nat
      BY <3>2 DEF Message
    <3> QED BY <1>2, <3>1, <3>3 DEF MessageOK, ReadWell
  <2> HIDE DEF item, m
  <2> QED BY <1>1, <1>2, <1>3, <1>4, <1>5, <2>1, <2>2, <2>3, FeedOrderSent
          DEF BaseInv, Shown, item
<1> HIDE DEF item, m
<1>7. TypeOK'
  <2>1. sent' \in 0..Len(log)
    BY <1>1, <1>2
  <2> QED BY <1>1, <1>6, <2>1 DEF BaseInv, TypeOK, DeviceIdle, streamVars
<1>8. LogOrder'
  <2>1. running
    BY <1>1, <1>2 DEF BaseInv, LogOrder
  <2> QED BY <1>1, <2>1, LogOrderStays DEF BaseInv
<1>9. ReadWell(request)'
  BY <1>1, <1>3, RequestStays
<1> QED BY <1>1, <1>3, <1>6, <1>7, <1>8, <1>9, RunnerKeepsBase


\* Only asked may have grown.
LEMMA GrownByAsking ==
  ASSUME BaseInv, UNCHANGED <<log, sent, written>>, asked' \in Nat, asked' >= asked
  PROVE  Grown
<1>1. sent \in Nat /\ written \in Nat /\ Len(log) \in Nat
  BY RunnerTyped DEF BaseInv
<1> QED BY <1>1 DEF Grown

LEMMA AsksKeepsBase ==
  ASSUME BaseInv, Asks
  PROVE  BaseInv'
<1> DEFINE m == [type |-> "prompt", n |-> asked + 1]
<1>1. /\ running /\ asked < MaxPrompts /\ asked' = asked + 1
      /\ waiting' = waiting \cup {asked + 1} /\ Send(m)
      /\ UNCHANGED <<log, written, sent, running, request, outbox, answers, connected,
                     faults, intact>>
      /\ DeviceIdle
  BY DEF Asks
<1>2. asked \in Nat /\ MaxPrompts \in Nat
  BY RunnerTyped, BoundsNat DEF BaseInv
<1>3. Grown
  BY <1>1, <1>2, GrownByAsking
<1>4. m \in Message /\ m.type = "prompt" /\ m.n = asked + 1
  BY <1>2, MessagesTyped
<1> HIDE DEF m
<1>5. FeedOrder' /\ feed' \in Seq(Message)
  BY <1>1, <1>2, <1>3, <1>4, FeedOrderSent DEF BaseInv, Shown
<1>6. TypeOK'
  <2>1. /\ waiting \subseteq 1..asked /\ answers \subseteq 1..asked
        /\ shown \in 0..asked /\ submit \in 0..asked
    BY DEF BaseInv, TypeOK
  <2>2. /\ asked' \in 0..MaxPrompts /\ waiting' \subseteq 1..asked'
        /\ answers' \subseteq 1..asked' /\ shown' \in 0..asked' /\ submit' \in 0..asked'
    BY <1>1, <1>2, <2>1 DEF DeviceIdle, streamVars
  <2> QED BY <1>1, <1>5, <2>2 DEF BaseInv, TypeOK, DeviceIdle, streamVars
<1>7. LogOrder'
  BY <1>1, LogOrderStays DEF BaseInv, LogOrder
<1>8. ReadWell(request)'
  BY <1>1, <1>3, RequestStays
<1> QED BY <1>1, <1>3, <1>5, <1>6, <1>7, <1>8, RunnerKeepsBase

LEMMA GetsAnswerKeepsBase ==
  ASSUME BaseInv, NEW p, GetsAnswer(p)
  PROVE  BaseInv'
<1>1. /\ waiting' = waiting \ {p} /\ answers' = answers \ {p}
      /\ UNCHANGED <<log, written, sent, running, asked, request, feed, outbox, connected,
                     faults, intact>>
      /\ DeviceIdle
  BY DEF GetsAnswer
<1>2. asked \in Nat
  BY RunnerTyped DEF BaseInv
<1>3. Grown
  BY <1>1, <1>2, GrownByAsking
<1>4. TypeOK'
  BY <1>1 DEF BaseInv, TypeOK, DeviceIdle, streamVars
<1>5. LogOrder'
  BY <1>1, LogOrderStays DEF BaseInv, LogOrder
<1>6. FeedOrder' /\ ReadWell(request)'
  BY <1>1, <1>3, FeedStays, RequestStays
<1> QED BY <1>1, <1>3, <1>4, <1>5, <1>6, RunnerKeepsBase

LEMMA TurnEndsKeepsBase ==
  ASSUME BaseInv, TurnEnds
  PROVE  BaseInv'
<1>1. /\ sent = Len(log) /\ running' = FALSE
      /\ \E t \in {"done", "error"} : Send([type |-> t, n |-> 0])
      /\ UNCHANGED <<log, written, sent, asked, waiting, request, outbox, answers,
                     connected, faults, intact>>
      /\ DeviceIdle
  BY DEF TurnEnds
<1>2. asked \in Nat
  BY RunnerTyped DEF BaseInv
<1>3. Grown
  BY <1>1, <1>2, GrownByAsking
<1>4. PICK t \in {"done", "error"} : Send([type |-> t, n |-> 0])
  BY <1>1
<1> DEFINE m == [type |-> t, n |-> 0]
<1>5. m \in Message /\ m.type \in {"done", "error"} /\ Send(m)
  BY <1>4, MessagesTyped
<1> HIDE DEF m
<1>6. FeedOrder' /\ feed' \in Seq(Message)
  BY <1>1, <1>3, <1>5, FeedOrderSent DEF BaseInv, Shown
<1>7. TypeOK'
  BY <1>1, <1>6 DEF BaseInv, TypeOK, DeviceIdle, streamVars
<1>8. LogOrder'
  BY <1>1, LogOrderStays DEF BaseInv
<1>9. ReadWell(request)'
  BY <1>1, <1>3, RequestStays
<1> QED BY <1>1, <1>3, <1>6, <1>7, <1>8, <1>9, RunnerKeepsBase

LEMMA ReadsHistoryKeepsBase ==
  ASSUME BaseInv, ReadsHistory
  PROVE  BaseInv'
<1>1. PICK from \in {1, written + 1 - HistoryLimit} :
        /\ from >= 1
        /\ request' = [at |-> "read", from |-> from,
                       to |-> IF written < from + HistoryLimit THEN written
                              ELSE from + HistoryLimit - 1]
  BY DEF ReadsHistory
<1>2. /\ UNCHANGED <<log, written, sent, running, asked, waiting, feed, outbox, answers,
                     connected, faults, intact>>
      /\ DeviceIdle
  BY DEF ReadsHistory, runnerVars
<1>3. /\ Len(log) \in Nat /\ sent \in Nat /\ written \in Nat /\ asked \in Nat
      /\ written <= Len(log) /\ HistoryLimit \in Nat /\ HistoryLimit >= 1
  BY RunnerTyped, HistoryLimitPos DEF BaseInv
<1> DEFINE to == IF written < from + HistoryLimit THEN written ELSE from + HistoryLimit - 1
<1>4. from \in Nat /\ to \in Nat /\ from >= 1 /\ to \in from - 1..written
  BY <1>1, <1>3
<1>5. /\ request'.from = from /\ request'.to = to
      /\ request' \in [at : {"none", "sent", "read"}, from : Nat, to : Nat]
  BY <1>1, <1>4
<1> HIDE DEF to
<1>6. ReadWell(request)'
  BY <1>2, <1>3, <1>4, <1>5 DEF ReadWell
<1>7. Grown
  BY <1>2, <1>3, GrownByAsking
<1>8. TypeOK'
  BY <1>2, <1>5 DEF BaseInv, TypeOK, DeviceIdle, streamVars
<1>9. LogOrder'
  BY <1>2, LogOrderStays DEF BaseInv, LogOrder
<1>10. FeedOrder'
  BY <1>2, <1>7, FeedStays
<1> QED BY <1>2, <1>6, <1>7, <1>8, <1>9, <1>10, RunnerKeepsBase

LEMMA NoRequestOK ==
  /\ NoRequest \in [at : {"none", "sent", "read"}, from : Nat, to : Nat]
  /\ NoRequest.from = 1 /\ NoRequest.to = 0
BY DEF NoRequest

LEMMA RepliesHistoryKeepsBase ==
  ASSUME BaseInv, RepliesHistory
  PROVE  BaseInv'
<1>1. /\ request' = NoRequest
      /\ UNCHANGED <<log, written, sent, running, asked, waiting, outbox, answers,
                     connected, intact>>
      /\ DeviceIdle
  BY DEF RepliesHistory, runnerVars
<1>2. /\ Len(log) \in Nat /\ sent \in Nat /\ written \in Nat /\ asked \in Nat
  BY RunnerTyped DEF BaseInv
<1>3. PICK m \in Message :
        /\ Send(m) /\ m.type = "history"
        /\ m.from >= 1 /\ m.to \in m.from - 1..written
        /\ ~m.ahead => m.to <= sent
  <2>1. ASSUME request.at = "read",
               Send([type |-> "history", from |-> request.from, to |-> request.to,
                     ahead |-> request.to > sent, error |-> FALSE])
        PROVE  \E m \in Message :
                 /\ Send(m) /\ m.type = "history"
                 /\ m.from >= 1 /\ m.to \in m.from - 1..written
                 /\ ~m.ahead => m.to <= sent
    <3> DEFINE m == [type |-> "history", from |-> request.from, to |-> request.to,
                     ahead |-> request.to > sent, error |-> FALSE]
    <3>1. request.from \in Nat /\ request.to \in Nat
      BY DEF BaseInv, TypeOK
    <3>2. m \in Message
      <4>1. (request.to > sent) \in BOOLEAN
        OBVIOUS
      <4> QED BY <3>1, <4>1, MessagesTyped
    <3>3. ReadWell(request)
      BY DEF BaseInv
    <3>4. Send(m)
      BY <2>1
    <3>5. m.type = "history" /\ m.from = request.from /\ m.to = request.to
      OBVIOUS
    <3>6. ~m.ahead => ~(request.to > sent)
      OBVIOUS
    <3>7. ~(request.to > sent) => request.to <= sent
      BY <1>2, <3>1
    <3> HIDE DEF m
    <3> QED BY <3>2, <3>3, <3>4, <3>5, <3>6, <3>7 DEF ReadWell
  <2>2. ASSUME Send([type |-> "history", from |-> 1, to |-> 0, ahead |-> FALSE, error |-> TRUE])
        PROVE  \E m \in Message :
                 /\ Send(m) /\ m.type = "history"
                 /\ m.from >= 1 /\ m.to \in m.from - 1..written
                 /\ ~m.ahead => m.to <= sent
    <3> DEFINE m == [type |-> "history", from |-> 1, to |-> 0, ahead |-> FALSE, error |-> TRUE]
    <3>2. m \in Message /\ m.type = "history" /\ m.from = 1 /\ m.to = 0
      BY MessagesTyped
    <3>3. Send(m)
      BY <2>2
    <3> HIDE DEF m
    <3> QED BY <1>2, <3>2, <3>3
  <2> QED BY <2>1, <2>2 DEF RepliesHistory
<1>4. Grown
  BY <1>1, <1>2, GrownByAsking
<1>5. FeedOrder' /\ feed' \in Seq(Message)
  BY <1>1, <1>3, <1>4, FeedOrderSent DEF BaseInv, Shown
<1>6. TypeOK'
  <2>1. faults' \in 0..MaxFaults
    <3>1. faults \in 0..MaxFaults /\ MaxFaults \in Nat
      BY BoundsNat DEF BaseInv, TypeOK
    <3> QED BY <3>1 DEF RepliesHistory, Fault
  <2> QED BY <1>1, <1>5, <2>1, NoRequestOK DEF BaseInv, TypeOK, DeviceIdle, streamVars
<1>7. ReadWell(request)'
  BY <1>1, <1>2, NoRequestOK DEF ReadWell
<1>8. LogOrder'
  BY <1>1, LogOrderStays DEF BaseInv, LogOrder
<1> QED BY <1>1, <1>4, <1>5, <1>6, <1>7, <1>8, RunnerKeepsBase


-----------------------------------------------------------------------------
\* So do the device's.

LEMMA TextTyped ==
  ASSUME TypeOK
  PROVE  /\ NewEntry("text", pending) \in Entry
         /\ NewEntry("text", pending).kind = "text"
         /\ NewEntry("text", pending).items = pending
         /\ Seen(NewEntry("text", pending)) = pending
<1>1. pending \in Seq(Item)
  BY DEF TypeOK
<1> QED BY <1>1 DEF NewEntry, Entry, Seen

LEMMA RollsOK ==
  ASSUME TypeOK, WindowKept
  PROVE  /\ RollOK(Roll) /\ Roll.list = entries
         /\ RollOK(Flushed)
         /\ HasMarker(entries) => HasMarker(Flushed.list)
<1>1. RollOK(Roll) /\ Roll.list = entries
  BY DEF RollOK, Roll, TypeOK, WindowKept
<1>2. CASE pending = <<>>
  BY <1>1, <1>2 DEF Flushed
<1>3. CASE pending # <<>>
  <2>1. Flushed = Added(Roll, NewEntry("text", pending))
    BY <1>3 DEF Flushed
  <2> QED BY <1>1, <2>1, TextTyped, AddedOK
<1> QED BY <1>2, <1>3

LEMMA BecomesOK ==
  ASSUME NEW roll, RollOK(roll), Becomes(roll)
  PROVE  entries' \in Seq(Entry) /\ appended' \in Nat /\ WindowKept'
<1>1. entries' = roll.list /\ appended' = roll.count
  BY DEF Becomes
<1> QED BY <1>1 DEF RollOK, WindowKept, Window, HasMarker

\* Nothing of the runner has changed.
LEMMA StillGrown ==
  ASSUME BaseInv, UNCHANGED runnerVars
  PROVE  Grown /\ LogOrder'
<1>1. UNCHANGED <<log, written, sent, running, asked>>
  BY DEF runnerVars
<1>2. asked \in Nat
  BY RunnerTyped DEF BaseInv
<1> QED BY <1>1, <1>2, GrownByAsking, LogOrderStays DEF BaseInv, LogOrder

LEMMA HandleCuts ==
  ASSUME BaseInv, NEW t, Handle(t)
  PROVE  /\ feed[1] = Head(feed) /\ feed[1].type = t
         /\ feed[1] \in Message /\ MessageOK(feed[1])
         /\ feed \in Seq(Message) /\ feed' \in Seq(Message)
         /\ Len(feed) = Len(feed') + 1
         /\ \A i \in 1..Len(feed') : feed'[i] = feed[i + 1] /\ i + 1 \in 1..Len(feed)
         /\ \A i \in 1..Len(feed') : Precedes(feed[1], feed'[i])
         /\ UNCHANGED runnerVars
         /\ UNCHANGED <<request, outbox, answers, connected, submit, typed, faults, intact>>
         /\ FeedOrder' /\ ReadWell(request)' /\ Grown /\ LogOrder'
<1>1. /\ feed # <<>> /\ Head(feed).type = t /\ feed' = Tail(feed)
      /\ UNCHANGED runnerVars
      /\ UNCHANGED <<request, outbox, answers, connected, submit, typed, faults, intact>>
  BY DEF Handle
<1>2. feed \in Seq(Message)
  BY RunnerTyped DEF BaseInv
<1>3. /\ feed[1] = Head(feed) /\ feed[1] \in Message /\ 1 \in 1..Len(feed)
      /\ feed' \in Seq(Message) /\ Len(feed) = Len(feed') + 1
      /\ \A i \in 1..Len(feed') : feed'[i] = feed[i + 1] /\ i + 1 \in 1..Len(feed)
  BY <1>1, <1>2
<1>4. Grown /\ LogOrder'
  BY <1>1, StillGrown
<1>5. (intact => connected)'
  BY <1>1 DEF BaseInv, FeedOrder
<1>6. FeedOrder'
  <2>1. Len(feed') + 1 <= Len(feed)
    BY <1>2, <1>3
  <2> QED BY <1>3, <1>4, <1>5, <2>1, FeedOrderCut DEF BaseInv
<1>7. MessageOK(feed[1])
  BY <1>3 DEF BaseInv, FeedOrder
<1>8. ASSUME NEW i \in 1..Len(feed') PROVE Precedes(feed[1], feed'[i])
  <2>1. i + 1 \in 1..Len(feed) /\ 1 \in 1..(i + 1) - 1 /\ feed'[i] = feed[i + 1]
    BY <1>3
  <2> QED BY <2>1 DEF BaseInv, FeedOrder
<1> QED BY <1>1, <1>2, <1>3, <1>4, <1>6, <1>7, <1>8, RequestStays

\* Device steps leave what has to do with the runner as it is.
LEMMA DeviceKeepsBase ==
  ASSUME BaseInv, UNCHANGED runnerVars, FeedOrder', feed' \in Seq(Message), ReadWell(request)',
         request' \in [at : {"none", "sent", "read"}, from : Nat, to : Nat],
         outbox' \in 0..MaxTyped, answers' \subseteq 1..asked, connected' \in BOOLEAN,
         shown' \in 0..asked, submit' \in 0..asked, typed' \in 0..MaxTyped,
         faults' \in 0..MaxFaults, {overlaid', intact', masked'} \subseteq BOOLEAN,
         entries' \in Seq(Entry), appended' \in Nat, WindowKept',
         pending' \in Seq(Item), PendingText'
  PROVE  BaseInv'
<1>1. UNCHANGED <<log, written, sent, running, asked, waiting>>
  BY DEF runnerVars
<1>2. TypeOK'
  BY <1>1 DEF BaseInv, TypeOK
<1> QED BY <1>2, StillGrown DEF BaseInv

LEMMA PendingEmpty == pending' = <<>> => PendingText' /\ pending' \in Seq(Item)
BY DEF PendingText

LEMMA PendingStays ==
  ASSUME BaseInv, UNCHANGED runnerVars, pending' = pending
  PROVE  PendingText' /\ pending' \in Seq(Item)
<1>1. log' = log /\ sent' = sent
  BY DEF runnerVars
<1> QED BY <1>1 DEF BaseInv, TypeOK, PendingText

LEMMA HandleTextKeepsBase ==
  ASSUME BaseInv, HandleText
  PROVE  BaseInv'
<1>1. /\ Handle("text") /\ pending' = Append(pending, Head(feed).n)
      /\ UNCHANGED <<entries, shown, appended, overlaid, masked>>
  BY DEF HandleText
<1> DEFINE n == feed[1].n
<1>2. n \in 1..sent /\ log[n].kind = "text" /\ pending' = Append(pending, n)
  BY <1>1, HandleCuts DEF MessageOK, Shown
<1>3. n \in Item
  <2>1. sent <= Len(log) /\ Len(log) <= MaxItems /\ MaxItems \in Nat /\ Len(log) \in Nat
        /\ sent \in Nat
    BY RunnerTyped DEF BaseInv
  <2> QED BY <1>2, <2>1 DEF Item
<1> HIDE DEF n
<1>4. pending \in Seq(Item)
  BY DEF BaseInv, TypeOK
<1>5. /\ pending' \in Seq(Item) /\ Len(pending') = Len(pending) + 1
      /\ pending'[Len(pending) + 1] = n
      /\ \A k \in 1..Len(pending) : pending'[k] = pending[k]
  BY <1>2, <1>3, <1>4
<1>6. sent' = sent /\ log' = log
  BY <1>1, HandleCuts DEF runnerVars
<1>7. PendingText'
  <2> SUFFICES ASSUME NEW k \in 1..Len(pending) + 1
               PROVE  pending'[k] <= sent /\ log[pending'[k]].kind = "text"
    BY <1>5, <1>6 DEF PendingText
  <2>1. CASE k = Len(pending) + 1
    BY <1>2, <1>5, <2>1
  <2>2. CASE k # Len(pending) + 1
    <3>1. k \in 1..Len(pending)
      BY <1>4, <2>2
    <3> QED BY <1>5, <3>1 DEF BaseInv, PendingText
  <2> QED BY <2>1, <2>2
<1>8. WindowKept'
  BY <1>1 DEF BaseInv, WindowKept, Window, HasMarker
<1> QED BY <1>1, <1>5, <1>7, <1>8, HandleCuts, DeviceKeepsBase DEF BaseInv, TypeOK


LEMMA HandleKeepsBase ==
  ASSUME BaseInv, NEW t, Handle(t), entries' \in Seq(Entry), appended' \in Nat, WindowKept',
         pending' \in Seq(Item), PendingText', shown' \in 0..asked,
         {overlaid', masked'} \subseteq BOOLEAN
  PROVE  BaseInv'
BY HandleCuts, DeviceKeepsBase DEF BaseInv, TypeOK

\* An item that a message names is one of the conversation.
LEMMA SentIsItem ==
  ASSUME BaseInv, NEW n \in 1..sent
  PROVE  n \in Item /\ n \in 1..Len(log)
<1>1. sent <= Len(log) /\ Len(log) <= MaxItems /\ MaxItems \in Nat /\ Len(log) \in Nat
      /\ sent \in Nat
  BY RunnerTyped DEF BaseInv
<1> QED BY <1>1 DEF Item

LEMMA EmptyEntries ==
  ASSUME NEW kind \in {"user", "response", "error", "unavailable"}
  PROVE  /\ NewEntry(kind, <<>>) \in Entry
         /\ NewEntry(kind, <<>>).kind = kind
         /\ NewEntry(kind, <<>>).items = <<>>
BY DEF NewEntry, Entry

LEMMA CallEntry ==
  ASSUME NEW n \in Item
  PROVE  /\ NewEntry("call", <<n>>) \in Entry
         /\ NewEntry("call", <<n>>).kind = "call"
         /\ NewEntry("call", <<n>>).items = <<n>>
         /\ NewEntry("call", <<n>>).result = FALSE
BY DEF NewEntry, Entry

LEMMA FlushesOK ==
  ASSUME BaseInv, Flush
  PROVE  /\ entries' \in Seq(Entry) /\ appended' \in Nat /\ WindowKept'
         /\ pending' \in Seq(Item) /\ PendingText'
BY RollsOK, BecomesOK, PendingEmpty DEF Flush, BaseInv

LEMMA FlushesAndAddsOK ==
  ASSUME BaseInv, NEW e \in Entry, e.kind # "marker", FlushAndAdd(e)
  PROVE  /\ entries' \in Seq(Entry) /\ appended' \in Nat /\ WindowKept'
         /\ pending' \in Seq(Item) /\ PendingText'
<1>1. RollOK(Flushed)
  BY RollsOK DEF BaseInv
<1>2. RollOK(Added(Flushed, e))
  BY <1>1, AddedOK
<1> QED BY <1>2, BecomesOK, PendingEmpty DEF FlushAndAdd

LEMMA AddsOK ==
  ASSUME BaseInv, NEW e \in Entry, e.kind # "marker", Becomes(Added(Roll, e))
  PROVE  entries' \in Seq(Entry) /\ appended' \in Nat /\ WindowKept'
<1>1. RollOK(Roll)
  BY RollsOK DEF BaseInv
<1>2. RollOK(Added(Roll, e))
  BY <1>1, AddedOK
<1> QED BY <1>2, BecomesOK

LEMMA HandleCallKeepsBase ==
  ASSUME BaseInv, HandleCall
  PROVE  BaseInv'
<1>1. /\ Handle("call") /\ FlushAndAdd(NewEntry("call", <<Head(feed).n>>))
      /\ UNCHANGED <<shown, overlaid, masked>>
  BY DEF HandleCall
<1> DEFINE n == feed[1].n
<1>2. n \in 1..sent /\ FlushAndAdd(NewEntry("call", <<n>>))
  BY <1>1, HandleCuts DEF MessageOK, Shown
<1> HIDE DEF n
<1>3. NewEntry("call", <<n>>) \in Entry /\ NewEntry("call", <<n>>).kind = "call"
  BY <1>2, SentIsItem, CallEntry
<1>4. /\ entries' \in Seq(Entry) /\ appended' \in Nat /\ WindowKept'
      /\ pending' \in Seq(Item) /\ PendingText'
  BY <1>2, <1>3, FlushesAndAddsOK
<1> QED BY <1>1, <1>4, HandleKeepsBase DEF BaseInv, TypeOK

LEMMA HandleResultKeepsBase ==
  ASSUME BaseInv, HandleResult
  PROVE  BaseInv'
<1>1. /\ Handle("result") /\ entries' = WithResult(entries, Head(feed).n)
      /\ UNCHANGED <<pending, shown, appended, overlaid, masked>>
  BY DEF HandleResult
<1>2. entries \in Seq(Entry) /\ appended \in Nat /\ Window(entries, appended)
  BY DEF BaseInv, TypeOK, WindowKept
<1>3. entries' \in Seq(Entry) /\ Window(entries', appended)
  BY <1>1, <1>2, WithResultOK
<1>4. WindowKept'
  BY <1>1, <1>3 DEF WindowKept, Window, HasMarker
<1>5. pending' \in Seq(Item) /\ PendingText'
  BY <1>1, HandleCuts, PendingStays
<1> QED BY <1>1, <1>2, <1>3, <1>4, <1>5, HandleKeepsBase DEF BaseInv, TypeOK

LEMMA HandlePromptKeepsBase ==
  ASSUME BaseInv, HandlePrompt
  PROVE  BaseInv'
<1>1. /\ Handle("prompt") /\ Flush /\ shown' = Head(feed).n
      /\ masked' = (masked \/ shown \in waiting) /\ UNCHANGED overlaid
  BY DEF HandlePrompt
<1>2. feed[1].n \in 1..asked /\ shown' = feed[1].n
  BY <1>1, HandleCuts DEF MessageOK
<1>3. asked \in Nat
  BY RunnerTyped DEF BaseInv
<1>4. shown' \in 0..asked
  BY <1>2, <1>3
<1>5. {overlaid', masked'} \subseteq BOOLEAN
  BY <1>1 DEF BaseInv, TypeOK
<1> QED BY <1>1, <1>4, <1>5, FlushesOK, HandleKeepsBase

LEMMA HandleEndKeepsBase ==
  ASSUME BaseInv, HandleEnd
  PROVE  BaseInv'
<1>1. \/ Handle("done") /\ Flush
      \/ Handle("error") /\ FlushAndAdd(NewEntry("error", <<>>))
  BY DEF HandleEnd
<1>2. shown' \in 0..asked /\ {overlaid', masked'} \subseteq BOOLEAN
  BY DEF HandleEnd, BaseInv, TypeOK
<1>3. CASE Handle("done") /\ Flush
  BY <1>2, <1>3, FlushesOK, HandleKeepsBase
<1>4. CASE Handle("error") /\ FlushAndAdd(NewEntry("error", <<>>))
  BY <1>2, <1>4, EmptyEntries, FlushesAndAddsOK, HandleKeepsBase
<1> QED BY <1>1, <1>3, <1>4

\* What a history holds is in the conversation.
LEMMA HistoryHolds ==
  ASSUME BaseInv, Handle("history")
  PROVE  /\ feed[1].from \in Nat \ {0} /\ feed[1].to \in feed[1].from - 1..Len(log)
         /\ feed[1].ahead \in BOOLEAN /\ feed[1].error \in BOOLEAN
         /\ ~feed[1].ahead => feed[1].to <= sent
<1>1. feed[1] \in Message /\ feed[1].type = "history" /\ ReadWell(feed[1])
      /\ (~feed[1].ahead => feed[1].to <= sent)
  BY HandleCuts DEF MessageOK
<1>2. /\ feed[1].from \in Nat /\ feed[1].to \in Nat
      /\ feed[1].ahead \in BOOLEAN /\ feed[1].error \in BOOLEAN
  BY <1>1 DEF Message
<1>3. written <= Len(log) /\ Len(log) \in Nat /\ written \in Nat
  BY RunnerTyped DEF BaseInv
<1> QED BY <1>1, <1>2, <1>3 DEF ReadWell

LEMMA HandleHistoryKeepsBase ==
  ASSUME BaseInv, HandleHistory
  PROVE  BaseInv'
<1> DEFINE m == feed[1]
<1>1. /\ Handle("history")
      /\ \/ /\ m.error
            /\ Becomes(Added(Roll, NewEntry("unavailable", <<>>)))
            /\ UNCHANGED overlaid
         \/ /\ ~m.error
            /\ entries = <<>>
            /\ Becomes(Replay(m.from, m.to))
            /\ overlaid' = (overlaid \/ m.ahead \/ pending # <<>>)
         \/ /\ ~m.error
            /\ entries # <<>>
            /\ UNCHANGED <<entries, appended, overlaid>>
      /\ UNCHANGED <<pending, shown, masked>>
  BY HandleCuts DEF HandleHistory
<1>2. /\ m.from \in Nat \ {0} /\ m.to \in m.from - 1..Len(log) /\ m.ahead \in BOOLEAN
  BY <1>1, HistoryHolds
<1> HIDE DEF m
<1>3. pending' \in Seq(Item) /\ PendingText'
  BY <1>1, HandleCuts, PendingStays
<1>4. shown' \in 0..asked /\ {overlaid', masked'} \subseteq BOOLEAN
  BY <1>1, <1>2 DEF BaseInv, TypeOK
<1>5. entries' \in Seq(Entry) /\ appended' \in Nat /\ WindowKept'
  <2>1. CASE Becomes(Added(Roll, NewEntry("unavailable", <<>>)))
    BY <2>1, EmptyEntries, AddsOK
  <2>2. CASE entries = <<>> /\ Becomes(Replay(m.from, m.to))
    <3>1. RollOK(Replay(m.from, m.to))
      BY <1>2, <2>2, ReplayKeeps DEF BaseInv
    <3> QED BY <2>2, <3>1, BecomesOK
  <2>3. CASE UNCHANGED <<entries, appended>>
    BY <2>3 DEF BaseInv, TypeOK, WindowKept, Window, HasMarker
  <2> QED BY <1>1, <2>1, <2>2, <2>3
<1> QED BY <1>1, <1>3, <1>4, <1>5, HandleKeepsBase


LEMMA SelectsKeepsBase ==
  ASSUME BaseInv, Selects
  PROVE  BaseInv'
<1>1. /\ UNCHANGED runnerVars /\ UNCHANGED streamVars
      /\ UNCHANGED <<feed, outbox, answers, connected, submit, faults, overlaid, intact, masked>>
      /\ typed < MaxTyped /\ typed' = typed + 1
      /\ request' = [NoRequest EXCEPT !.at = "sent"]
  BY DEF Selects
<1>2. Grown /\ UNCHANGED <<log, sent, written, asked>>
  BY <1>1, StillGrown DEF runnerVars
<1>3. FeedOrder'
  BY <1>1, <1>2, FeedStays
<1>4. /\ request' \in [at : {"none", "sent", "read"}, from : Nat, to : Nat]
      /\ request'.from = 1 /\ request'.to = 0
  BY <1>1 DEF NoRequest
<1>5. sent \in Nat /\ written \in Nat
  BY RunnerTyped DEF BaseInv
<1>6. ReadWell(request)'
  BY <1>2, <1>4, <1>5 DEF ReadWell
<1>7. typed' \in 0..MaxTyped
  <2>1. typed \in 0..MaxTyped /\ MaxTyped \in Nat
    BY BoundsNat DEF BaseInv, TypeOK
  <2> QED BY <1>1, <2>1
<1>8. UNCHANGED <<entries, appended, pending, shown>>
  BY <1>1 DEF streamVars
<1>9. WindowKept'
  BY <1>8 DEF BaseInv, WindowKept, Window, HasMarker
<1>10. pending' \in Seq(Item) /\ PendingText'
  BY <1>1, <1>8, PendingStays
<1> QED BY <1>1, <1>3, <1>4, <1>6, <1>7, <1>8, <1>9, <1>10, DeviceKeepsBase DEF BaseInv, TypeOK

\* The user's steps change neither the feed nor the request.
LEMMA UserKeepsBase ==
  ASSUME BaseInv, UNCHANGED runnerVars, UNCHANGED <<feed, request, connected, intact, faults>>,
         outbox' \in 0..MaxTyped, answers' \subseteq 1..asked,
         shown' \in 0..asked, submit' \in 0..asked, typed' \in 0..MaxTyped,
         {overlaid', masked'} \subseteq BOOLEAN,
         entries' \in Seq(Entry), appended' \in Nat, WindowKept',
         pending' \in Seq(Item), PendingText'
  PROVE  BaseInv'
<1>1. Grown
  BY StillGrown
<1>2. FeedOrder' /\ ReadWell(request)'
  BY <1>1, FeedStays, RequestStays
<1> QED BY <1>2, DeviceKeepsBase DEF BaseInv, TypeOK

LEMMA TypesKeepsBase ==
  ASSUME BaseInv, OutboxBound, Types
  PROVE  BaseInv'
<1>1. /\ typed < MaxTyped /\ typed' = typed + 1
      /\ FlushAndAdd(NewEntry("user", <<>>))
      /\ outbox' = IF connected THEN outbox + 1 ELSE outbox
      /\ UNCHANGED runnerVars
      /\ UNCHANGED <<shown, request, feed, answers, connected, submit, faults,
                     overlaid, intact, masked>>
  BY DEF Types
<1>2. typed' \in 0..MaxTyped
  <2>1. typed \in 0..MaxTyped /\ MaxTyped \in Nat
    BY BoundsNat DEF BaseInv, TypeOK
  <2> QED BY <1>1, <2>1
<1>3. outbox' \in 0..MaxTyped
  <2>1. outbox \in 0..MaxTyped /\ typed \in 0..MaxTyped /\ MaxTyped \in Nat
    BY BoundsNat DEF BaseInv, TypeOK
  <2> QED BY <1>1, <2>1 DEF OutboxBound
<1>4. /\ entries' \in Seq(Entry) /\ appended' \in Nat /\ WindowKept'
      /\ pending' \in Seq(Item) /\ PendingText'
  BY <1>1, EmptyEntries, FlushesAndAddsOK
<1> QED BY <1>1, <1>2, <1>3, <1>4, UserKeepsBase DEF BaseInv, TypeOK

LEMMA SubmitsKeepsBase ==
  ASSUME BaseInv, Submits
  PROVE  BaseInv'
<1>1. /\ shown # 0 /\ submit' = shown /\ answers' = answers \cup ({shown} \cap waiting)
      /\ UNCHANGED runnerVars /\ UNCHANGED streamVars
      /\ UNCHANGED <<request, feed, outbox, connected, typed, faults, overlaid, intact, masked>>
  BY DEF Submits
<1>2. answers' \subseteq 1..asked /\ submit' \in 0..asked
  <2>1. shown \in 0..asked /\ answers \subseteq 1..asked /\ asked \in Nat
    BY RunnerTyped DEF BaseInv, TypeOK
  <2>2. shown \in 1..asked
    BY <1>1, <2>1
  <2> QED BY <1>1, <2>1, <2>2
<1>3. UNCHANGED <<entries, appended, pending, shown>>
  BY <1>1 DEF streamVars
<1>4. WindowKept'
  BY <1>3 DEF BaseInv, WindowKept, Window, HasMarker
<1>5. pending' \in Seq(Item) /\ PendingText'
  BY <1>1, <1>3, PendingStays
<1> QED BY <1>1, <1>2, <1>3, <1>4, <1>5, UserKeepsBase DEF BaseInv, TypeOK

LEMMA SubmitReturnsKeepsBase ==
  ASSUME BaseInv, SubmitReturns
  PROVE  BaseInv'
<1>1. /\ submit' = 0 /\ shown' = 0
      /\ Becomes(Added(Roll, NewEntry("response", <<>>)))
      /\ masked' = (masked \/ (shown # submit /\ shown \in waiting))
      /\ UNCHANGED runnerVars
      /\ UNCHANGED <<pending, request, feed, outbox, answers, connected, typed, faults,
                     overlaid, intact>>
  BY DEF SubmitReturns
<1>2. entries' \in Seq(Entry) /\ appended' \in Nat /\ WindowKept'
  BY <1>1, EmptyEntries, AddsOK
<1>3. pending' \in Seq(Item) /\ PendingText'
  BY <1>1, PendingStays
<1>4. submit' \in 0..asked /\ shown' \in 0..asked
  BY <1>1, RunnerTyped DEF BaseInv
<1>5. {overlaid', masked'} \subseteq BOOLEAN
  BY <1>1 DEF BaseInv, TypeOK
<1> QED BY <1>1, <1>2, <1>3, <1>4, <1>5, UserKeepsBase DEF BaseInv, TypeOK

LEMMA DisconnectsKeepsBase ==
  ASSUME BaseInv, Disconnects
  PROVE  BaseInv'
<1>1. /\ connected' = FALSE /\ intact' = FALSE /\ feed' = <<>> /\ request' = NoRequest
      /\ outbox' \in 0..outbox /\ answers' \subseteq answers /\ submit' \in {submit, 0}
      /\ faults < MaxFaults /\ faults' = faults + 1
      /\ UNCHANGED runnerVars /\ UNCHANGED streamVars
      /\ UNCHANGED <<typed, overlaid, masked>>
  BY DEF Disconnects, Fault
<1>2. Grown /\ UNCHANGED <<log, sent, written, asked>>
  BY <1>1, StillGrown DEF runnerVars
<1>3. feed' \in Seq(Message) /\ FeedOrder'
  BY <1>1 DEF FeedOrder
<1>4. sent \in Nat /\ written \in Nat /\ asked \in Nat
  BY RunnerTyped DEF BaseInv
<1>5. ReadWell(request)'
  BY <1>1, <1>2, <1>4, NoRequestOK DEF ReadWell
<1>6. /\ outbox' \in 0..MaxTyped /\ faults' \in 0..MaxFaults
      /\ answers' \subseteq 1..asked /\ submit' \in 0..asked
  <2>1. /\ outbox \in 0..MaxTyped /\ faults \in 0..MaxFaults
        /\ answers \subseteq 1..asked /\ submit \in 0..asked
        /\ MaxTyped \in Nat /\ MaxFaults \in Nat
    BY BoundsNat DEF BaseInv, TypeOK
  <2> QED BY <1>1, <1>4, <2>1
<1>7. UNCHANGED <<entries, appended, pending, shown>>
  BY <1>1 DEF streamVars
<1>8. WindowKept'
  BY <1>7 DEF BaseInv, WindowKept, Window, HasMarker
<1>9. pending' \in Seq(Item) /\ PendingText'
  BY <1>1, <1>7, PendingStays
<1> QED BY <1>1, <1>3, <1>5, <1>6, <1>7, <1>8, <1>9, NoRequestOK, DeviceKeepsBase
        DEF BaseInv, TypeOK

LEMMA ConnectsKeepsBase ==
  ASSUME BaseInv, Connects
  PROVE  BaseInv'
<1>1. /\ connected' = TRUE /\ UNCHANGED runnerVars /\ UNCHANGED streamVars
      /\ UNCHANGED <<request, feed, outbox, answers, submit, typed, faults, overlaid,
                     intact, masked>>
  BY DEF Connects
<1>2. Grown
  BY <1>1, StillGrown
<1>3. feed \in Seq(Message)
  BY RunnerTyped DEF BaseInv
<1>4. FeedOrder'
  <2>1. Len(feed') + 0 <= Len(feed) /\ \A i \in 1..Len(feed') : feed'[i] = feed[i + 0]
    BY <1>1, <1>3
  <2> QED BY <1>1, <1>2, <1>3, <2>1, FeedOrderCut DEF BaseInv
<1>5. ReadWell(request)'
  BY <1>1, <1>2, RequestStays
<1>6. UNCHANGED <<entries, appended, pending, shown>>
  BY <1>1 DEF streamVars
<1>7. WindowKept'
  BY <1>6 DEF BaseInv, WindowKept, Window, HasMarker
<1>8. pending' \in Seq(Item) /\ PendingText'
  BY <1>1, <1>6, PendingStays
<1> QED BY <1>1, <1>3, <1>4, <1>5, <1>6, <1>7, <1>8, DeviceKeepsBase DEF BaseInv, TypeOK

LEMMA StillKeepsBase ==
  ASSUME BaseInv, UNCHANGED vars
  PROVE  BaseInv'
<1>1. /\ UNCHANGED runnerVars
      /\ UNCHANGED <<feed, request, outbox, answers, connected, shown, submit, typed, faults,
                     entries, appended, pending, overlaid, intact, masked>>
  BY DEF vars, streamVars
<1>2. WindowKept'
  BY <1>1 DEF BaseInv, WindowKept, Window, HasMarker
<1>3. pending' \in Seq(Item) /\ PendingText'
  BY <1>1, PendingStays
<1> QED BY <1>1, <1>2, <1>3, UserKeepsBase DEF BaseInv, TypeOK

\* Nothing is on its way to the runner that was not typed.
LEMMA OutboxBounded ==
  ASSUME BaseInv, OutboxBound, [Next]_vars
  PROVE  OutboxBound'
<1>1. outbox \in Nat /\ typed \in Nat /\ outbox <= typed
  BY DEF BaseInv, TypeOK, OutboxBound
<1>2. CASE TurnStarts \/ Disconnects
  BY <1>1, <1>2 DEF TurnStarts, Disconnects, DeviceIdle, OutboxBound
<1>3. CASE Types
  BY <1>1, <1>3 DEF Types, OutboxBound
<1>4. CASE Selects
  BY <1>1, <1>4 DEF Selects, OutboxBound
<1>5. CASE Converses \/ Writes \/ Yields \/ Asks \/ TurnEnds
           \/ (\E p \in Prompt : GetsAnswer(p)) \/ ReadsHistory \/ RepliesHistory
  <2>1. UNCHANGED <<outbox, typed>>
    BY <1>5 DEF Converses, Writes, Yields, Asks, TurnEnds, GetsAnswer, ReadsHistory,
                RepliesHistory, DeviceIdle
  <2> QED BY <1>1, <2>1 DEF OutboxBound
<1>6. CASE \/ HandleText \/ HandleCall \/ HandleResult \/ HandlePrompt \/ HandleEnd
           \/ HandleHistory
  <2>1. \E t \in {"text", "call", "result", "prompt", "done", "error", "history"} : Handle(t)
    BY <1>6 DEF HandleText, HandleCall, HandleResult, HandlePrompt, HandleEnd, HandleHistory
  <2>2. UNCHANGED <<outbox, typed>>
    BY <2>1 DEF Handle
  <2> QED BY <1>1, <2>2 DEF OutboxBound
<1>7. CASE Submits \/ SubmitReturns \/ Connects \/ UNCHANGED vars
  <2>1. UNCHANGED <<outbox, typed>>
    BY <1>7 DEF Submits, SubmitReturns, Connects, vars
  <2> QED BY <1>1, <2>1 DEF OutboxBound
<1> QED BY <1>2, <1>3, <1>4, <1>5, <1>6, <1>7 DEF Next

LEMMA BaseStep ==
  ASSUME BaseInv, OutboxBound, [Next]_vars
  PROVE  BaseInv' /\ OutboxBound'
<1> SUFFICES BaseInv'
  BY OutboxBounded
<1>1. CASE TurnStarts \/ Converses \/ Writes \/ Yields
  BY <1>1, TurnStartsKeepsBase, ConversesKeepsBase, WritesKeepsBase, YieldsKeepsBase
<1>2. CASE Asks \/ TurnEnds \/ \E p \in Prompt : GetsAnswer(p)
  BY <1>2, AsksKeepsBase, TurnEndsKeepsBase, GetsAnswerKeepsBase
<1>3. CASE ReadsHistory \/ RepliesHistory
  BY <1>3, ReadsHistoryKeepsBase, RepliesHistoryKeepsBase
<1>4. CASE HandleText \/ HandleCall \/ HandleResult
  BY <1>4, HandleTextKeepsBase, HandleCallKeepsBase, HandleResultKeepsBase
<1>5. CASE HandlePrompt \/ HandleEnd \/ HandleHistory
  BY <1>5, HandlePromptKeepsBase, HandleEndKeepsBase, HandleHistoryKeepsBase
<1>6. CASE Selects \/ Types \/ Submits \/ SubmitReturns
  BY <1>6, SelectsKeepsBase, TypesKeepsBase, SubmitsKeepsBase, SubmitReturnsKeepsBase
<1>7. CASE Disconnects \/ Connects \/ UNCHANGED vars
  BY <1>7, DisconnectsKeepsBase, ConnectsKeepsBase, StillKeepsBase
<1> QED BY <1>1, <1>2, <1>3, <1>4, <1>5, <1>6, <1>7 DEF Next

LEMMA BaseInit == Init => BaseInv /\ OutboxBound
<1> SUFFICES ASSUME Init PROVE BaseInv /\ OutboxBound
  OBVIOUS
<1>1. /\ log = <<>> /\ written = 0 /\ sent = 0 /\ running = FALSE /\ asked = 0
      /\ waiting = {} /\ request = NoRequest /\ feed = <<>> /\ outbox = 0 /\ answers = {}
      /\ connected = TRUE /\ entries = <<>> /\ pending = <<>> /\ shown = 0 /\ submit = 0
      /\ typed = 0 /\ faults = 0 /\ appended = 0 /\ overlaid = FALSE /\ intact = TRUE
      /\ masked = FALSE
  BY DEF Init
<1>2. /\ MaxItems \in Nat /\ MaxPrompts \in Nat /\ MaxTyped \in Nat /\ MaxFaults \in Nat
      /\ MaxEntries \in Nat
  BY BoundsNat, MaxEntriesPos
<1>3. TypeOK
  <2>1. /\ log \in Seq(LogItem) /\ feed \in Seq(Message) /\ entries \in Seq(Entry)
        /\ pending \in Seq(Item)
        /\ written \in 0..Len(log) /\ sent \in 0..Len(log) /\ Len(log) <= MaxItems
    BY <1>1, <1>2
  <2>2. /\ asked \in 0..MaxPrompts /\ outbox \in 0..MaxTyped /\ typed \in 0..MaxTyped
        /\ faults \in 0..MaxFaults /\ shown \in 0..asked /\ submit \in 0..asked
        /\ appended \in Nat
    BY <1>1, <1>2
  <2>3. request \in [at : {"none", "sent", "read"}, from : Nat, to : Nat]
    BY <1>1, NoRequestOK
  <2> QED BY <1>1, <2>1, <2>2, <2>3 DEF TypeOK
<1>4. WindowKept
  BY <1>1, <1>2 DEF WindowKept, Window, HasMarker
<1>5. LogOrder /\ ReadWell(request) /\ FeedOrder /\ PendingText
  BY <1>1, NoRequestOK DEF LogOrder, ReadWell, FeedOrder, PendingText
<1>6. OutboxBound
  BY <1>1 DEF OutboxBound
<1> QED BY <1>3, <1>4, <1>5, <1>6 DEF BaseInv

LEMMA BaseHolds == Spec => [](BaseInv /\ OutboxBound)
<1>1. (BaseInv /\ OutboxBound) /\ [Next]_vars => (BaseInv /\ OutboxBound)'
  BY BaseStep
<1> QED BY <1>1, BaseInit, PTL DEF Spec

-----------------------------------------------------------------------------
\* Every variable of the stream keeps its type, whatever runner, hub, connection and
\* user do: a message, an entry and a prompt number are never of another kind, and
\* nothing refers past what was said or asked.
THEOREM StreamTypeCorrect == Spec => []TypeOK
<1>1. BaseInv => TypeOK
  BY DEF BaseInv
<1> QED BY <1>1, BaseHolds, PTL

\* For every cap and every length of the conversation, the entries stay within the
\* window and the one marker counts all that were dropped (appendEntry,
\* recordDropped).
THEOREM WindowIsKept == Spec => []WindowKept
<1>1. BaseInv => WindowKept
  BY DEF BaseInv
<1> QED BY <1>1, BaseHolds, PTL


-----------------------------------------------------------------------------
\* What becomes of the messages that are on their way.

LEMMA SentStays ==
  ASSUME BaseInv, NEW m \in Message, Send(m)
  PROVE  /\ \A t, n : \A i \in 1..Len(feed) :
              InFeed(t, n, i) => i \in 1..Len(feed') /\ InFeed(t, n, i)'
         /\ \A j \in 1..Len(feed') :
              \/ j \in 1..Len(feed) /\ feed'[j] = feed[j]
              \/ j = Len(feed) + 1 /\ feed'[j] = m
         /\ connected => Len(feed) + 1 \in 1..Len(feed') /\ feed'[Len(feed) + 1] = m
<1>1. feed \in Seq(Message)
  BY RunnerTyped DEF BaseInv
<1>2. CASE connected
  <2>1. /\ Len(feed') = Len(feed) + 1 /\ feed'[Len(feed) + 1] = m
        /\ \A i \in 1..Len(feed) : feed'[i] = feed[i]
    BY <1>1, <1>2 DEF Send
  <2> QED BY <1>1, <2>1 DEF InFeed
<1>3. CASE ~connected
  BY <1>1, <1>3 DEF Send, InFeed
<1> QED BY <1>2, <1>3

LEMMA HandledGone ==
  ASSUME BaseInv, NEW t, Handle(t), NEW u, NEW n, NEW i \in 1..Len(feed), InFeed(u, n, i),
         u # t \/ n # feed[1].n
  PROVE  i - 1 \in 1..Len(feed') /\ InFeed(u, n, i - 1)'
<1>1. /\ feed[1].type = t /\ Len(feed) = Len(feed') + 1 /\ feed \in Seq(Message)
      /\ feed' \in Seq(Message)
      /\ \A j \in 1..Len(feed') : feed'[j] = feed[j + 1]
  BY HandleCuts
<1>2. i # 1
  BY <1>1 DEF InFeed
<1>3. i - 1 \in 1..Len(feed') /\ (i - 1) + 1 = i
  BY <1>1, <1>2
<1>4. feed'[i - 1] = feed[i]
  BY <1>1, <1>3
<1> QED BY <1>3, <1>4 DEF InFeed

-----------------------------------------------------------------------------
\* A question that waits is kept.

Coming(p) == \E i \in 1..Len(feed) : InFeed("prompt", p, i)

LEMMA QuestionStays ==
  ASSUME QuestionKept, UNCHANGED <<waiting, answers, shown, submit, masked>>,
         intact' => intact, \A p : Coming(p) => Coming(p)'
  PROVE  QuestionKept'
<1> SUFFICES ASSUME intact'
             PROVE  /\ submit \in waiting => submit \in answers
                    /\ ~masked => \A p \in waiting :
                         Coming(p)' \/ shown = p \/ p \in answers
  BY DEF QuestionKept, Coming
<1>1. /\ submit \in waiting => submit \in answers
      /\ ~masked => \A p \in waiting : Coming(p) \/ shown = p \/ p \in answers
  BY DEF QuestionKept, Coming
<1> QED BY <1>1

LEMMA QuestionSent ==
  ASSUME BaseInv, QuestionKept, NEW m \in Message, Send(m), DeviceIdle,
         UNCHANGED <<waiting, answers, intact>>
  PROVE  QuestionKept'
<1>1. \A p : Coming(p) => Coming(p)'
  BY SentStays DEF Coming
<1>2. UNCHANGED <<shown, submit, masked>>
  BY DEF DeviceIdle, streamVars
<1> QED BY <1>1, <1>2, QuestionStays

LEMMA QuestionHandled ==
  ASSUME BaseInv, QuestionKept, NEW t, t # "prompt", Handle(t), UNCHANGED <<shown, masked>>
  PROVE  QuestionKept'
<1>1. ASSUME NEW p, Coming(p) PROVE Coming(p)'
  <2>1. PICK i \in 1..Len(feed) : InFeed("prompt", p, i)
    BY <1>1 DEF Coming
  <2>2. i - 1 \in 1..Len(feed') /\ InFeed("prompt", p, i - 1)'
    BY <2>1, HandledGone
  <2> QED BY <2>2 DEF Coming
<1>2. UNCHANGED <<waiting, answers, submit, intact>>
  BY DEF Handle, runnerVars
<1> QED BY <1>1, <1>2, QuestionStays

LEMMA AsksKeepsQuestion ==
  ASSUME BaseInv, QuestionKept, Asks
  PROVE  QuestionKept'
<1> DEFINE m == [type |-> "prompt", n |-> asked + 1]
<1>1. /\ waiting' = waiting \cup {asked + 1} /\ Send(m)
      /\ UNCHANGED <<answers, intact, shown, submit, masked>>
  BY DEF Asks, DeviceIdle, streamVars
<1>2. asked \in Nat /\ submit \in 0..asked
  BY RunnerTyped DEF BaseInv, TypeOK
<1>3. m \in Message /\ m.type = "prompt" /\ m.n = asked + 1
  BY <1>2, MessagesTyped
<1> HIDE DEF m
<1> SUFFICES ASSUME intact
             PROVE  /\ submit' \in waiting' => submit' \in answers'
                    /\ ~masked' => \A p \in waiting' :
                         Coming(p)' \/ shown' = p \/ p \in answers'
  BY <1>1 DEF QuestionKept, Coming
<1>4. connected
  BY DEF BaseInv, FeedOrder
<1>5. /\ submit \in waiting => submit \in answers
      /\ ~masked => \A p \in waiting : Coming(p) \/ shown = p \/ p \in answers
  BY DEF QuestionKept, Coming
<1>6. \A p : Coming(p) => Coming(p)'
  BY <1>1, <1>3, SentStays DEF Coming
<1>7. ASSUME NEW p, p = asked + 1 PROVE Coming(p)'
  <2>1. PICK i \in 1..Len(feed') : feed'[i] = m
    BY <1>1, <1>3, <1>4, SentStays
  <2>2. InFeed("prompt", p, i)'
    BY <1>3, <1>7, <2>1 DEF InFeed
  <2> QED BY <2>1, <2>2 DEF Coming
<1> QED BY <1>1, <1>2, <1>5, <1>6, <1>7

LEMMA GetsAnswerKeepsQuestion ==
  ASSUME QuestionKept, NEW p, GetsAnswer(p)
  PROVE  QuestionKept'
BY DEF QuestionKept, GetsAnswer, DeviceIdle, streamVars, InFeed

LEMMA HandlePromptKeepsQuestion ==
  ASSUME BaseInv, QuestionKept, HandlePrompt
  PROVE  QuestionKept'
<1>1. /\ Handle("prompt") /\ shown' = feed[1].n /\ masked' = (masked \/ shown \in waiting)
      /\ UNCHANGED <<waiting, answers, submit, intact>>
  BY HandleCuts DEF HandlePrompt, runnerVars
<1> SUFFICES ASSUME intact
             PROVE  /\ submit \in waiting => submit \in answers
                    /\ ~masked' => \A p \in waiting :
                         Coming(p)' \/ shown' = p \/ p \in answers
  BY <1>1 DEF QuestionKept, Coming
<1>2. /\ submit \in waiting => submit \in answers
      /\ ~masked => \A p \in waiting : Coming(p) \/ shown = p \/ p \in answers
  BY DEF QuestionKept, Coming
<1>3. ASSUME NEW p, Coming(p), shown' # p PROVE Coming(p)'
  <2>1. PICK i \in 1..Len(feed) : InFeed("prompt", p, i)
    BY <1>3 DEF Coming
  <2>2. i - 1 \in 1..Len(feed') /\ InFeed("prompt", p, i - 1)'
    BY <1>1, <1>3, <2>1, HandledGone
  <2> QED BY <2>2 DEF Coming
<1> QED BY <1>1, <1>2, <1>3

LEMMA SubmitsKeepsQuestion ==
  ASSUME QuestionKept, Submits
  PROVE  QuestionKept'
BY DEF QuestionKept, Submits, streamVars, runnerVars, InFeed

LEMMA SubmitReturnsKeepsQuestion ==
  ASSUME BaseInv, QuestionKept, SubmitReturns
  PROVE  QuestionKept'
<1>1. /\ submit' = 0 /\ shown' = 0
      /\ masked' = (masked \/ (shown # submit /\ shown \in waiting))
      /\ UNCHANGED <<waiting, feed, answers, intact>>
  BY DEF SubmitReturns, runnerVars
<1>2. 0 \notin waiting
  BY RunnerTyped DEF BaseInv, TypeOK
<1> SUFFICES ASSUME intact
             PROVE  /\ submit' \in waiting' => submit' \in answers'
                    /\ ~masked' => \A p \in waiting' :
                         Coming(p)' \/ shown' = p \/ p \in answers'
  BY <1>1 DEF QuestionKept, Coming
<1>4. \A p : Coming(p)' <=> Coming(p)
  BY <1>1 DEF Coming, InFeed
<1>3. /\ submit \in waiting => submit \in answers
      /\ ~masked => \A p \in waiting : Coming(p) \/ shown = p \/ p \in answers
  BY DEF QuestionKept, Coming
<1> QED BY <1>1, <1>2, <1>3, <1>4

LEMMA QuestionStep ==
  ASSUME BaseInv, QuestionKept, [Next]_vars
  PROVE  QuestionKept'
<1>1. CASE \/ TurnStarts \/ Converses \/ Writes \/ ReadsHistory \/ Selects \/ Types
           \/ Connects \/ UNCHANGED vars
  <2>1. UNCHANGED <<feed, waiting, answers, shown, submit, masked, intact>>
    BY <1>1 DEF TurnStarts, Converses, Writes, ReadsHistory, Selects, Types, Connects, vars,
                DeviceIdle, streamVars, runnerVars
  <2> QED BY <2>1, QuestionStays DEF Coming, InFeed
<1>2. CASE Yields
  <2> DEFINE item == log[sent + 1]
             m == [type |-> item.kind, n |-> item.of]
  <2>1. Send(m) /\ UNCHANGED <<waiting, answers, intact>> /\ DeviceIdle
    BY <1>2 DEF Yields
  <2>2. m \in Message
    BY <1>2, NextItem DEF Yields
  <2> HIDE DEF m
  <2> QED BY <2>1, <2>2, QuestionSent
<1>3. CASE TurnEnds
  <2>1. PICK t \in {"done", "error"} : Send([type |-> t, n |-> 0])
    BY <1>3 DEF TurnEnds
  <2>2. [type |-> t, n |-> 0] \in Message
    BY MessagesTyped
  <2> QED BY <1>3, <2>1, <2>2, QuestionSent DEF TurnEnds
<1>4. CASE RepliesHistory
  <2>1. PICK m \in Message : Send(m)
    <3>1. request.from \in Nat /\ request.to \in Nat /\ (request.to > sent) \in BOOLEAN
      BY DEF BaseInv, TypeOK
    <3> QED BY <1>4, <3>1, MessagesTyped DEF RepliesHistory
  <2> QED BY <1>4, <2>1, QuestionSent DEF RepliesHistory, runnerVars
<1>5. CASE HandleText \/ HandleCall \/ HandleResult \/ HandleEnd \/ HandleHistory
  <2>1. \E t \in {"text", "call", "result", "done", "error", "history"} : Handle(t)
    BY <1>5 DEF HandleText, HandleCall, HandleResult, HandleEnd, HandleHistory
  <2>2. UNCHANGED <<shown, masked>>
    BY <1>5 DEF HandleText, HandleCall, HandleResult, HandleEnd, HandleHistory
  <2>3. PICK t \in {"text", "call", "result", "done", "error", "history"} : Handle(t)
    BY <2>1
  <2> QED BY <2>2, <2>3, QuestionHandled
<1>6. CASE Disconnects
  <2>1. ~intact'
    BY <1>6 DEF Disconnects
  <2> QED BY <2>1 DEF QuestionKept
<1>7. CASE Asks \/ HandlePrompt \/ Submits \/ SubmitReturns \/ \E p \in Prompt : GetsAnswer(p)
  BY <1>7, AsksKeepsQuestion, HandlePromptKeepsQuestion, SubmitsKeepsQuestion,
     SubmitReturnsKeepsQuestion, GetsAnswerKeepsQuestion
<1> QED BY <1>1, <1>2, <1>3, <1>4, <1>5, <1>6, <1>7 DEF Next

LEMMA QuestionIsShown == QuestionKept => QuestionShown
<1> SUFFICES ASSUME QuestionKept, intact, ~masked, Drained, NEW p \in waiting \ answers
             PROVE  shown \in waiting
  BY DEF QuestionShown
<1>1. ~Coming(p)
  BY DEF Drained, Coming
<1> QED BY <1>1 DEF QuestionKept, Coming

LEMMA QuestionHolds == Spec => []QuestionKept
<1>1. Init => QuestionKept
  BY DEF Init, QuestionKept
<1>2. BaseInv /\ QuestionKept /\ [Next]_vars => QuestionKept'
  BY QuestionStep
<1> QED BY <1>1, <1>2, BaseHolds, PTL DEF Spec

\* A device that was connected all along shows a question for as long as a tool waits
\* for an answer, however prompts, answers and submits interleave: what takes it off
\* the screen is another question or the end of the submit that answered another one
\* (setPendingPrompt, clearPendingPrompt), and nothing else.
THEOREM QuestionIsKept == Spec => []QuestionShown
BY QuestionHolds, QuestionIsShown, PTL


-----------------------------------------------------------------------------
\* The screen follows the conversation: N are the items that a step adds to the live
\* part of the screen.

\* They were next in the feed, and what is in it later is above them; what is new in it
\* was not sent before.
FeedOn(N) ==
  /\ \A m \in N : m <= sent /\ \E j \in 1..Len(feed) : feed[j].type \in Shown /\ feed[j].n = m
  /\ \A j \in 1..Len(feed') : feed'[j].type \in Shown =>
       /\ \A m \in N : m < feed'[j].n
       /\ (\E i \in 1..Len(feed) : feed[i] = feed'[j]) \/ feed'[j].n > sent

\* Nothing was sent but a prompt, which is not yielded.
Quiet == \A n \in 1..sent' : n \in 1..sent \/ log'[n].kind = "user"

\* Nothing else leaves the feed.
FeedKept(N) ==
  \A n \in 1..sent' : log'[n].kind \in Shown =>
    \/ \E i \in 1..Len(feed') : InFeed(log[n].kind, n, i)'
    \/ n \in N
    \/ n <= sent /\ ~\E i \in 1..Len(feed) : InFeed(log[n].kind, n, i)

ScreenMoves(N) ==
  \A b \in 0..Len(entries) : Follows(b) =>
    \E b2 \in 0..Len(entries') : Moves(SeenFrom(Screen, b) \cup N, b, Screen', b2)

LEMMA ScreenTyped ==
  ASSUME BaseInv
  PROVE  /\ Screen \in Seq(Entry) /\ Len(Screen) = Len(entries) + 1
         /\ entries \in Seq(Entry) /\ pending \in Seq(Item)
         /\ HasMarker(Screen) <=> HasMarker(entries)
<1>1. entries \in Seq(Entry) /\ pending \in Seq(Item)
  BY DEF BaseInv, TypeOK
<1>2. NewEntry("text", pending) \in Entry /\ NewEntry("text", pending).kind # "marker"
  BY TextTyped DEF BaseInv
<1> QED BY <1>1, <1>2, MarkerAppended DEF Screen

LEMMA ShownTyped ==
  ASSUME BaseInv
  PROVE  /\ sent \in Nat
         /\ \A j \in 1..Len(feed) : feed[j].type \in Shown =>
              feed[j].n \in 1..sent /\ feed[j].n \in Nat /\ log[feed[j].n].kind = feed[j].type
<1>1. sent \in Nat
  BY RunnerTyped DEF BaseInv
<1> QED BY <1>1 DEF BaseInv, FeedOrder, MessageOK

LEMMA FollowsOn ==
  ASSUME BaseInv, BaseInv', Grown, NEW b \in Nat, Follows(b), NEW N \in SUBSET Item, FeedOn(N),
         NEW b2 \in Nat, Moves(SeenFrom(Screen, b) \cup N, b, Screen', b2)
  PROVE  Follows(b2)'
<1>1. Ascends(Screen', b2) /\ SeenFrom(Screen', b2) \subseteq SeenFrom(Screen, b) \cup N
  BY DEF Moves
<1>2. sent \in Nat /\ sent' \in Nat /\ sent' >= sent
  BY RunnerTyped DEF BaseInv, Grown
<1>3. ASSUME NEW n \in SeenFrom(Screen', b2)
      PROVE  /\ n <= sent'
             /\ \A j \in 1..Len(feed') : feed'[j].type \in Shown => n < feed'[j].n
  <2>1. n \in Item /\ n \in Nat
    BY SeenWhere DEF Item
  <2>2. CASE n \in N
    BY <1>2, <2>1, <2>2 DEF FeedOn
  <2>3. CASE n \in SeenFrom(Screen, b)
    <3>1. n <= sent /\ \A j \in 1..Len(feed) : feed[j].type \in Shown => n < feed[j].n
      BY <2>3 DEF Follows
    <3>2. ASSUME NEW j \in 1..Len(feed'), feed'[j].type \in Shown
          PROVE  n < feed'[j].n
      <4>1. CASE \E i \in 1..Len(feed) : feed[i] = feed'[j]
        BY <3>1, <3>2, <4>1
      <4>2. CASE feed'[j].n > sent
        <5>1. feed'[j].n \in Nat
          <6>1. MessageOK(feed[j])'
            BY DEF BaseInv, FeedOrder
          <6>2. feed'[j].n \in 1..sent'
            BY <3>2, <6>1 DEF MessageOK
          <6> QED BY <6>2
        <5> QED BY <1>2, <2>1, <3>1, <4>2, <5>1
      <4> QED BY <3>2, <4>1, <4>2 DEF FeedOn
    <3> QED BY <1>2, <2>1, <3>1, <3>2
  <2> QED BY <1>1, <2>2, <2>3
<1> QED BY <1>1, <1>3 DEF Follows


LEMMA AccountedOn ==
  ASSUME BaseInv, BaseInv', Grown, NEW b \in Nat, Follows(b), Accounted(b),
         NEW N \in SUBSET Item, FeedOn(N), FeedKept(N), HasMarker(entries) => HasMarker(entries'),
         NEW b2 \in Nat, Moves(SeenFrom(Screen, b) \cup N, b, Screen', b2)
  PROVE  Accounted(b2)'
<1> DEFINE S == SeenFrom(Screen, b)
           S2 == SeenFrom(Screen', b2)
<1>1. /\ b = 0 => b2 = 0
      /\ S2 \subseteq S \cup N
      /\ \A n \in S \cup N :
           \/ n \in S2
           \/ HasMarker(Screen') /\ b2 = 0 /\ \A m \in S2 : m > n
  BY DEF Moves
<1> HIDE DEF S2
<1>2. sent \in Nat /\ sent' \in Nat /\ sent' >= sent
  BY RunnerTyped DEF BaseInv, Grown
<1>3. HasMarker(Screen') <=> HasMarker(entries')
  <2>1. /\ entries' \in Seq(Entry)
        /\ Screen' = Append(entries', NewEntry("text", pending'))
        /\ pending' \in Seq(Item)
    BY DEF BaseInv, TypeOK, Screen
  <2>2. NewEntry("text", pending') \in Entry /\ NewEntry("text", pending').kind # "marker"
    BY <2>1, EntriesTyped
  <2> QED BY <2>1, <2>2, MarkerAppended
\* What is to come is above what was below all that was to come.
<1>4. ASSUME NEW n \in 1..sent, \A j \in 1..Len(feed) : feed[j].type \in Shown => feed[j].n > n,
             NEW j \in 1..Len(feed'), feed'[j].type \in Shown
      PROVE  feed'[j].n > n
  <2>1. CASE \E i \in 1..Len(feed) : feed[i] = feed'[j]
    BY <1>4, <2>1
  <2>2. CASE feed'[j].n > sent
    <3>1. MessageOK(feed[j])'
      BY DEF BaseInv, FeedOrder
    <3>2. feed'[j].n \in 1..sent'
      BY <1>4, <3>1 DEF MessageOK
    <3> QED BY <1>2, <2>2, <3>2
  <2> QED BY <1>4, <2>1, <2>2 DEF FeedOn
<1> SUFFICES ASSUME NEW n \in 1..sent', log'[n].kind \in Shown
             PROVE  \/ \E i \in 1..Len(feed') : InFeed(log[n].kind, n, i)'
                    \/ n \in S2
                    \/ Evicted(n, b2)'
  BY DEF Accounted, S2
<1>5. CASE \E i \in 1..Len(feed') : InFeed(log[n].kind, n, i)'
  BY <1>5
<1>6. CASE n \in N
  <2>1. \A j \in 1..Len(feed') : feed'[j].type \in Shown => feed'[j].n > n
    <3> SUFFICES ASSUME NEW j \in 1..Len(feed'), feed'[j].type \in Shown PROVE feed'[j].n > n
      OBVIOUS
    <3>1. n < feed'[j].n
      BY <1>6 DEF FeedOn
    <3> QED BY <3>1
  <2> QED BY <1>1, <1>3, <1>6, <2>1 DEF Evicted, S2
<1>7. CASE n <= sent /\ ~\E i \in 1..Len(feed) : InFeed(log[n].kind, n, i)
  <2>1. n \in 1..sent /\ n \in 1..Len(log)
    BY <1>2, <1>7, SentIsItem
  <2>2. log[n].kind \in Shown
    BY <2>1 DEF Grown
  <2>3. CASE n \in S
    <3>1. \A j \in 1..Len(feed) : feed[j].type \in Shown => n < feed[j].n
      BY <2>3 DEF Follows
    <3>2. \A j \in 1..Len(feed) : feed[j].type \in Shown => feed[j].n > n
      BY <3>1
    <3>3. \A j \in 1..Len(feed') : feed'[j].type \in Shown => feed'[j].n > n
      BY <1>4, <2>1, <3>2
    <3> QED BY <1>1, <1>3, <2>3, <3>3 DEF Evicted, S2
  <2>4. CASE Evicted(n, b)
    <3>1. /\ HasMarker(entries') /\ b2 = 0
          /\ \A m \in S : m > n
          /\ \A j \in 1..Len(feed) : feed[j].type \in Shown => feed[j].n > n
      BY <1>1, <2>4 DEF Evicted
    <3>2. \A j \in 1..Len(feed') : feed'[j].type \in Shown => feed'[j].n > n
      BY <1>4, <2>1, <3>1
    <3>3. ASSUME NEW m \in N PROVE m > n
      BY <3>1 DEF FeedOn
    <3>4. \A m \in S2 : m > n
      BY <1>1, <3>1, <3>3
    <3> QED BY <3>1, <3>2, <3>4 DEF Evicted, S2
  <2> QED BY <1>7, <2>1, <2>2, <2>3, <2>4 DEF Accounted
<1> QED BY <1>5, <1>6, <1>7 DEF FeedKept

LEMMA ScreenOn ==
  ASSUME BaseInv, BaseInv', Grown, ScreenInv, overlaid => overlaid', intact' => intact,
         NEW N \in SUBSET Item, FeedOn(N), intact' => FeedKept(N),
         HasMarker(entries) => HasMarker(entries'), ScreenMoves(N)
  PROVE  ScreenInv'
<1>1. entries' \in Seq(Entry) /\ entries \in Seq(Entry)
  BY DEF BaseInv, TypeOK
<1>2. (~overlaid => Follows(0))'
  <2> SUFFICES ASSUME ~overlaid' PROVE Follows(0)'
    OBVIOUS
  <2>1. Follows(0) /\ 0 \in 0..Len(entries)
    BY <1>1 DEF ScreenInv
  <2>2. PICK b2 \in 0..Len(entries') : Moves(SeenFrom(Screen, 0) \cup N, 0, Screen', b2)
    BY <2>1 DEF ScreenMoves
  <2>3. b2 = 0
    BY <2>2 DEF Moves
  <2> QED BY <2>1, <2>2, <2>3, FollowsOn
<1>3. PICK b \in 0..Len(entries) : Follows(b) /\ (intact => Accounted(b))
  BY DEF ScreenInv
<1>4. PICK b2 \in 0..Len(entries') : Moves(SeenFrom(Screen, b) \cup N, b, Screen', b2)
  BY <1>3 DEF ScreenMoves
<1>5. b \in Nat /\ b2 \in Nat
  BY <1>1
<1>6. Follows(b2)'
  BY <1>3, <1>4, <1>5, FollowsOn
<1>7. intact' => Accounted(b2)'
  BY <1>3, <1>4, <1>5, AccountedOn
<1> QED BY <1>2, <1>4, <1>6, <1>7 DEF ScreenInv


-----------------------------------------------------------------------------
\* What each step does to the screen.

LEMMA FeedSame ==
  ASSUME BaseInv, feed' = feed, Grown, Quiet
  PROVE  FeedOn({}) /\ FeedKept({})
<1>1. FeedOn({})
  BY DEF FeedOn
<1>2. FeedKept({})
  <2> SUFFICES ASSUME NEW n \in 1..sent, ~\E i \in 1..Len(feed) : InFeed(log[n].kind, n, i)'
               PROVE  ~\E i \in 1..Len(feed) : InFeed(log[n].kind, n, i)
    BY RunnerTyped DEF FeedKept, Quiet, Shown, BaseInv
  <2>1. log'[n] = log[n]
    BY SentIsItem DEF Grown
  <2> QED BY <2>1 DEF InFeed
<1> QED BY <1>1, <1>2

\* A message without an item, or with the next one.
LEMMA FeedSent ==
  ASSUME BaseInv, Grown, NEW m \in Message, Send(m),
         m.type \in Shown => m.n > sent
  PROVE  /\ FeedOn({})
         /\ Quiet => FeedKept({})
<1>1. FeedOn({})
  BY SentStays DEF FeedOn
<1>2. ASSUME Quiet PROVE FeedKept({})
  <2> SUFFICES ASSUME NEW n \in 1..sent, NEW i \in 1..Len(feed), InFeed(log[n].kind, n, i)
               PROVE  \E j \in 1..Len(feed') : InFeed(log[n].kind, n, j)'
    BY <1>2 DEF FeedKept, Quiet, Shown
  <2>1. log'[n] = log[n]
    BY SentIsItem DEF Grown
  <2>2. i \in 1..Len(feed') /\ InFeed(log[n].kind, n, i)'
    BY <2>1, SentStays DEF InFeed
  <2> QED BY <2>2
<1> QED BY <1>1, <1>2

LEMMA FeedHandled ==
  ASSUME BaseInv, NEW t, Handle(t), NEW N, N = IF t \in Shown THEN {feed[1].n} ELSE {}
  PROVE  FeedOn(N) /\ FeedKept(N)
<1>1. /\ feed[1].type = t /\ feed \in Seq(Message) /\ Len(feed) = Len(feed') + 1
      /\ \A i \in 1..Len(feed') : feed'[i] = feed[i + 1] /\ i + 1 \in 1..Len(feed)
      /\ \A i \in 1..Len(feed') : Precedes(feed[1], feed'[i])
      /\ UNCHANGED runnerVars
  BY HandleCuts
<1>2. 1 \in 1..Len(feed) /\ log' = log /\ sent' = sent
  BY <1>1, HandleCuts DEF runnerVars
<1>3. FeedOn(N)
  <2>1. ASSUME NEW m \in N
        PROVE  m <= sent /\ \E j \in 1..Len(feed) : feed[j].type \in Shown /\ feed[j].n = m
    <3>1. m = feed[1].n /\ feed[1].type \in Shown
      BY <1>1
    <3>2. m \in 1..sent
      BY <1>2, <3>1, ShownTyped
    <3> QED BY <1>2, <3>1, <3>2
  <2>2. ASSUME NEW j \in 1..Len(feed'), feed'[j].type \in Shown
        PROVE  /\ \A m \in N : m < feed'[j].n
               /\ \E i \in 1..Len(feed) : feed[i] = feed'[j]
    <3>1. feed'[j] = feed[j + 1] /\ j + 1 \in 1..Len(feed) /\ Precedes(feed[1], feed'[j])
      BY <1>1
    <3> QED BY <1>1, <2>2, <3>1 DEF Precedes
  <2> QED BY <2>1, <2>2 DEF FeedOn
<1>4. FeedKept(N)
  <2> SUFFICES ASSUME NEW n \in 1..sent, log[n].kind \in Shown, n \notin N,
                      NEW i \in 1..Len(feed), InFeed(log[n].kind, n, i)
               PROVE  \E j \in 1..Len(feed') : InFeed(log[n].kind, n, j)'
    BY <1>2 DEF FeedKept
  <2>1. log[n].kind # t \/ n # feed[1].n
    OBVIOUS
  <2>2. i - 1 \in 1..Len(feed') /\ InFeed(log[n].kind, n, i - 1)'
    BY <1>2, <2>1, HandledGone DEF InFeed
  <2> QED BY <2>2
<1> QED BY <1>3, <1>4

\* The screen as it is.
LEMMA ScreenStays ==
  ASSUME BaseInv, UNCHANGED <<entries, pending>>
  PROVE  ScreenMoves({}) /\ (HasMarker(entries) <=> HasMarker(entries'))
<1>1. Screen' = Screen /\ (HasMarker(entries) <=> HasMarker(entries'))
  BY DEF Screen, HasMarker
<1>2. ASSUME NEW b \in 0..Len(entries), Follows(b)
      PROVE  \E b2 \in 0..Len(entries') : Moves(SeenFrom(Screen, b) \cup {}, b, Screen', b2)
  <2>1. Moves(SeenFrom(Screen, b) \cup {}, b, Screen', b)
    BY <1>1, <1>2 DEF Moves, Follows
  <2> QED BY <2>1
<1> QED BY <1>1, <1>2 DEF ScreenMoves

\* The screen in its parts.
LEMMA ScreenParts ==
  ASSUME BaseInv, NEW b \in 0..Len(entries), Follows(b)
  PROVE  LET t == NewEntry("text", pending) IN
         /\ t \in Entry /\ t.kind = "text" /\ Seen(t) = pending
         /\ SeenFrom(Screen, b) = SeenFrom(entries, b) \cup ItemsOf(t)
         /\ Ascends(entries, b) /\ Rising(pending)
         /\ \A m \in SeenFrom(entries, b), n \in ItemsOf(t) : m < n
<1> DEFINE t == NewEntry("text", pending)
<1>1. entries \in Seq(Entry)
  BY ScreenTyped
<1>2. t \in Entry /\ t.kind = "text" /\ Seen(t) = pending
  BY TextTyped DEF BaseInv
<1>3. Screen = Append(entries, t) /\ Ascends(Screen, b)
  BY DEF Screen, Follows
<1> HIDE DEF t
<1>4. SeenFrom(Screen, b) = SeenFrom(entries, b) \cup ItemsOf(t)
  BY <1>1, <1>2, <1>3, SeenAppended
<1>5. /\ Ascends(entries, b) /\ Rising(Seen(t))
      /\ \A m \in SeenFrom(entries, b), n \in ItemsOf(t) : m < n
  BY <1>1, <1>2, <1>3, AscendsAppended
<1> QED BY <1>2, <1>4, <1>5 DEF t

LEMMA NoText ==
  /\ NewEntry("text", <<>>) \in Entry /\ NewEntry("text", <<>>).kind # "marker"
  /\ ItemsOf(NewEntry("text", <<>>)) = {} /\ Rising(Seen(NewEntry("text", <<>>)))
BY DEF NewEntry, Entry, ItemsOf, ShownBy, Seen, Rising

LEMMA FlushedMoves ==
  ASSUME BaseInv, NEW b \in 0..Len(entries), Follows(b)
  PROVE  \E b2 \in 0..Len(Flushed.list) : Moves(SeenFrom(Screen, b), b, Flushed.list, b2)
<1> DEFINE t == NewEntry("text", pending)
<1>1. /\ t \in Entry /\ t.kind = "text" /\ Seen(t) = pending
      /\ SeenFrom(Screen, b) = SeenFrom(entries, b) \cup ItemsOf(t)
      /\ Ascends(entries, b) /\ Rising(pending)
      /\ \A m \in SeenFrom(entries, b), n \in ItemsOf(t) : m < n
  BY ScreenParts
<1>2. entries \in Seq(Entry) /\ appended \in Nat /\ Window(entries, appended)
  BY DEF BaseInv, TypeOK, WindowKept
<1>3. Roll.list = entries
  BY DEF Roll
<1> HIDE DEF t
<1>4. CASE pending = <<>>
  <2>1. Flushed.list = entries
    BY <1>3, <1>4 DEF Flushed
  <2>2. ItemsOf(t) = {}
    BY <1>1, <1>4 DEF ItemsOf, ShownBy
  <2>3. Moves(SeenFrom(Screen, b), b, entries, b)
    BY <1>1, <2>2 DEF Moves
  <2> QED BY <2>1, <2>3
<1>5. CASE pending # <<>>
  <2>1. Flushed.list = AppendEntry(entries, t)
    BY <1>3, <1>5 DEF Flushed, Added, t
  <2>2. \E b2 \in 0..Len(AppendEntry(entries, t)) :
          Moves(SeenFrom(entries, b) \cup ItemsOf(t), b, AppendEntry(entries, t), b2)
    BY <1>1, <1>2, AddedMoves
  <2> QED BY <1>1, <2>1, <2>2
<1> QED BY <1>4, <1>5

LEMMA FlushMoves ==
  ASSUME BaseInv, Flush
  PROVE  ScreenMoves({}) /\ (HasMarker(entries) => HasMarker(entries'))
<1>1. entries' = Flushed.list /\ pending' = <<>>
  BY DEF Flush, Becomes
<1>2. RollOK(Flushed) /\ (HasMarker(entries) => HasMarker(Flushed.list))
  BY RollsOK DEF BaseInv
<1>3. Flushed.list \in Seq(Entry)
  BY <1>2 DEF RollOK
<1>4. Screen' = Append(Flushed.list, NewEntry("text", <<>>))
  BY <1>1 DEF Screen
<1>5. ASSUME NEW b \in 0..Len(entries), Follows(b)
      PROVE  \E b2 \in 0..Len(entries') : Moves(SeenFrom(Screen, b) \cup {}, b, Screen', b2)
  <2>1. PICK b2 \in 0..Len(Flushed.list) : Moves(SeenFrom(Screen, b), b, Flushed.list, b2)
    BY <1>5, FlushedMoves
  <2> DEFINE S == SeenFrom(Screen, b)
             r == Flushed.list
             e == NewEntry("text", <<>>)
  <2>2. S \in SUBSET Item /\ b \in Nat
    BY ScreenTyped DEF SeenFrom
  <2>3. Moves(S, b, r, b2) /\ r \in Seq(Entry) /\ b2 \in 0..Len(r)
    BY <1>3, <2>1
  <2>4. e \in Entry /\ e.kind # "marker" /\ ItemsOf(e) = {} /\ Rising(Seen(e))
    BY NoText
  <2> HIDE DEF S, r, e
  <2>5. Moves(S \cup ItemsOf(e), b, Append(r, e), b2)
    BY <2>2, <2>3, <2>4, MovesWithText
  <2> QED BY <1>1, <1>4, <2>3, <2>4, <2>5 DEF S, r, e
<1> QED BY <1>1, <1>2, <1>5 DEF ScreenMoves


\* An entry after the text that was pending.
LEMMA FlushAndAddMoves ==
  ASSUME BaseInv, NEW e \in Entry, e.kind # "marker", FlushAndAdd(e), Rising(Seen(e)),
         \A n \in ItemsOf(e) : \E j \in 1..Len(feed) : feed[j].type \in Shown /\ feed[j].n = n
  PROVE  ScreenMoves(ItemsOf(e)) /\ (HasMarker(entries) => HasMarker(entries'))
<1> DEFINE r == Flushed.list
           c == Flushed.count
           q == AppendEntry(r, e)
           N == ItemsOf(e)
           t == NewEntry("text", <<>>)
<1>1. RollOK(Flushed) /\ (HasMarker(entries) => HasMarker(r))
  BY RollsOK DEF BaseInv
<1>2. r \in Seq(Entry) /\ c \in Nat /\ Window(r, c)
  BY <1>1 DEF RollOK
<1>3. entries' = q /\ pending' = <<>>
  BY DEF FlushAndAdd, Becomes, Added
<1>4. t \in Entry /\ t.kind # "marker" /\ ItemsOf(t) = {} /\ Rising(Seen(t))
  BY NoText
<1>5. Screen' = Append(q, t)
  BY <1>3 DEF Screen
<1>6. N \in SUBSET Item
  BY DEF ItemsOf
<1>7. Flushed.list = r
  OBVIOUS
<1> HIDE DEF r, c, t
<1>8. q \in Seq(Entry) /\ (HasMarker(r) => HasMarker(q))
  BY <1>2, AppendEntryIs, AppendEntrySlides
<1> HIDE DEF q
<1>9. ASSUME NEW b \in 0..Len(entries), Follows(b)
      PROVE  \E b2 \in 0..Len(entries') : Moves(SeenFrom(Screen, b) \cup N, b, Screen', b2)
  <2> DEFINE S == SeenFrom(Screen, b)
  <2>1. PICK b1 \in 0..Len(r) : Moves(S, b, r, b1)
    BY <1>7, <1>9, FlushedMoves
  <2>2. S \in SUBSET Item /\ b \in Nat
    BY ScreenTyped DEF SeenFrom
  <2>3. ASSUME NEW m \in S, NEW n \in N PROVE m < n
    BY <1>9 DEF Follows
  <2> HIDE DEF S
  <2>4. Ascends(r, b1) /\ SeenFrom(r, b1) \subseteq S
    BY <2>1 DEF Moves
  <2>5. \A m \in SeenFrom(r, b1), n \in N : m < n
    BY <2>3, <2>4
  <2>6. PICK b2 \in 0..Len(q) : Moves(SeenFrom(r, b1) \cup N, b1, q, b2)
    BY <1>2, <2>4, <2>5, AddedMoves DEF q
  <2> HIDE DEF N
  <2>7. Moves(S \cup N, b, q, b2)
    BY <1>2, <1>6, <1>8, <2>1, <2>2, <2>3, <2>6, MovesTwice
  <2>8. Moves((S \cup N) \cup ItemsOf(t), b, Append(q, t), b2)
    BY <1>4, <1>6, <1>8, <2>2, <2>7, MovesWithText
  <2> QED BY <1>3, <1>4, <1>5, <2>8 DEF S
<1> QED BY <1>1, <1>3, <1>8, <1>9 DEF ScreenMoves

\* An entry without items, above the text that is pending.
LEMMA AddMoves ==
  ASSUME BaseInv, NEW e \in Entry, e.kind # "marker", Becomes(Added(Roll, e)),
         ItemsOf(e) = {}, Rising(Seen(e)), pending' = pending
  PROVE  ScreenMoves({}) /\ (HasMarker(entries) => HasMarker(entries'))
<1> DEFINE q == AppendEntry(entries, e)
           t == NewEntry("text", pending)
<1>1. entries \in Seq(Entry) /\ appended \in Nat /\ Window(entries, appended)
  BY DEF BaseInv, TypeOK, WindowKept
<1>2. entries' = q
  BY DEF Becomes, Added, Roll
<1>3. Screen' = Append(q, t)
  BY <1>2 DEF Screen
<1>4. q \in Seq(Entry) /\ (HasMarker(entries) => HasMarker(q))
  BY <1>1, AppendEntryIs, AppendEntrySlides
<1>5. ASSUME NEW b \in 0..Len(entries), Follows(b)
      PROVE  \E b2 \in 0..Len(entries') : Moves(SeenFrom(Screen, b) \cup {}, b, Screen', b2)
  <2> DEFINE S == SeenFrom(entries, b)
  <2>1. /\ t \in Entry /\ t.kind = "text" /\ Seen(t) = pending
        /\ SeenFrom(Screen, b) = S \cup ItemsOf(t)
        /\ Ascends(entries, b) /\ Rising(pending)
        /\ \A m \in S, n \in ItemsOf(t) : m < n
    BY <1>5, ScreenParts
  <2>2. S \in SUBSET Item /\ b \in Nat
    BY <1>1 DEF SeenFrom
  <2> HIDE DEF t, q
  <2>3. PICK b2 \in 0..Len(q) : Moves(S \cup ItemsOf(e), b, q, b2)
    BY <1>1, <2>1, AddedMoves DEF q
  <2> HIDE DEF S
  <2>4. S \cup ItemsOf(e) = S
    OBVIOUS
  <2>5. Moves(S, b, q, b2)
    BY <2>3, <2>4
  <2>6. Moves(S \cup ItemsOf(t), b, Append(q, t), b2)
    BY <1>4, <2>1, <2>2, <2>5, MovesWithText
  <2> QED BY <1>2, <1>3, <2>1, <2>6
<1> QED BY <1>2, <1>4, <1>5 DEF ScreenMoves

\* Results change nothing that the screen shows of the items.
LEMMA ResultMoves ==
  ASSUME BaseInv, NEW n, entries' = WithResult(entries, n), pending' = pending
  PROVE  ScreenMoves({}) /\ (HasMarker(entries) => HasMarker(entries'))
<1> DEFINE t == NewEntry("text", pending)
           r == WithResult(entries, n)
<1>1. entries \in Seq(Entry) /\ appended \in Nat /\ Window(entries, appended)
  BY DEF BaseInv, TypeOK, WindowKept
<1>2. r \in Seq(Entry) /\ Alike(entries, r)
  BY <1>1, WithResultOK
<1>3. t \in Entry
  BY TextTyped DEF BaseInv
<1>4. Screen = Append(entries, t) /\ Screen' = Append(r, t) /\ entries' = r
  BY DEF Screen
<1> HIDE DEF t, r
<1>5. Len(r) = Len(entries) /\ Screen' \in Seq(Entry) /\ Screen \in Seq(Entry)
  BY <1>1, <1>2, <1>3, <1>4 DEF Alike
<1>6. Alike(Screen, Screen')
  <2>1. Len(Screen) = Len(entries) + 1 /\ Len(Screen') = Len(entries) + 1
        /\ Screen[Len(entries) + 1] = t /\ (Screen')[Len(entries) + 1] = t
    BY <1>1, <1>2, <1>3, <1>4, <1>5
  <2>2. \A i \in 1..Len(entries) : Screen[i] = entries[i] /\ (Screen')[i] = r[i]
    BY <1>1, <1>2, <1>3, <1>4, <1>5
  <2>3. \A i \in 1..Len(Screen) : i = Len(entries) + 1 \/ i \in 1..Len(entries)
    BY <1>1, <2>1
  <2> QED BY <1>2, <2>1, <2>2, <2>3 DEF Alike
<1>7. HasMarker(r) <=> HasMarker(entries)
  BY <1>1, <1>2, AlikeShows
<1>8. ASSUME NEW b \in 0..Len(entries), Follows(b)
      PROVE  \E b2 \in 0..Len(entries') : Moves(SeenFrom(Screen, b) \cup {}, b, Screen', b2)
  <2>1. b \in Nat /\ Ascends(Screen, b)
    BY <1>1, <1>8 DEF Follows
  <2>2. SeenFrom(Screen', b) = SeenFrom(Screen, b) /\ Ascends(Screen', b)
    BY <1>5, <1>6, <2>1, AlikeShows
  <2>3. Moves(SeenFrom(Screen, b) \cup {}, b, Screen', b)
    BY <2>2 DEF Moves
  <2> QED BY <1>4, <1>5, <2>3
<1> QED BY <1>4, <1>7, <1>8 DEF ScreenMoves

\* A text is pending below the others.
LEMMA TextMoves ==
  ASSUME BaseInv, HandleText
  PROVE  ScreenMoves({feed[1].n}) /\ UNCHANGED entries
<1> DEFINE n == feed[1].n
           t == NewEntry("text", pending)
           t2 == NewEntry("text", pending')
<1>1. /\ Handle("text") /\ feed[1] = Head(feed) /\ UNCHANGED entries
      /\ pending' = Append(pending, n)
  BY HandleCuts DEF HandleText
<1>2. 1 \in 1..Len(feed) /\ feed[1].type \in Shown
  <2>1. feed[1].type = "text" /\ Len(feed) = Len(feed') + 1 /\ feed' \in Seq(Message)
    BY <1>1, HandleCuts
  <2> QED BY <2>1 DEF Shown
<1>3. n \in Item
  BY <1>2, ShownTyped, SentIsItem
<1>4. entries \in Seq(Entry) /\ pending \in Seq(Item)
  BY DEF BaseInv, TypeOK
<1> HIDE DEF n
<1>5. /\ pending' \in Seq(Item) /\ Len(pending') = Len(pending) + 1
      /\ pending'[Len(pending) + 1] = n
      /\ \A k \in 1..Len(pending) : pending'[k] = pending[k]
      /\ \A k \in 1..Len(pending') : k = Len(pending) + 1 \/ k \in 1..Len(pending)
  BY <1>1, <1>3, <1>4
<1>6. t2 \in Entry /\ Seen(t2) = pending' /\ t \in Entry /\ Seen(t) = pending
  BY <1>4, <1>5 DEF NewEntry, Entry, Seen
<1>7. Screen' = Append(entries, t2)
  BY <1>1 DEF Screen
<1> HIDE DEF t2
<1>8. ItemsOf(t2) = ItemsOf(t) \cup {n}
  <2> HIDE DEF t
  <2>1. ASSUME NEW m \in Item
        PROVE  (\E k \in 1..Len(pending') : pending'[k] = m)
                 <=> m = n \/ \E k \in 1..Len(pending) : pending[k] = m
    <3>1. ASSUME NEW k \in 1..Len(pending'), pending'[k] = m
          PROVE  m = n \/ \E l \in 1..Len(pending) : pending[l] = m
      BY <1>5, <3>1
    <3>2. ASSUME NEW k \in 1..Len(pending), pending[k] = m
          PROVE  \E l \in 1..Len(pending') : pending'[l] = m
      <4>1. k \in 1..Len(pending') /\ pending'[k] = m
        BY <1>4, <1>5, <3>2
      <4> QED BY <4>1
    <3>3. Len(pending) + 1 \in 1..Len(pending') /\ pending'[Len(pending) + 1] = n
      BY <1>4, <1>5
    <3> QED BY <3>1, <3>2, <3>3
  <2>2. ItemsOf(t) = {m \in Item : \E k \in 1..Len(pending) : pending[k] = m}
    BY <1>6 DEF ItemsOf, ShownBy
  <2>3. ItemsOf(t2) = {m \in Item : \E k \in 1..Len(pending') : pending'[k] = m}
    BY <1>6 DEF ItemsOf, ShownBy
  <2> QED BY <1>3, <2>1, <2>2, <2>3
<1>9. ASSUME NEW b \in 0..Len(entries), Follows(b)
      PROVE  \E b2 \in 0..Len(entries') : Moves(SeenFrom(Screen, b) \cup {n}, b, Screen', b2)
  <2>1. /\ SeenFrom(Screen, b) = SeenFrom(entries, b) \cup ItemsOf(t)
        /\ Ascends(entries, b) /\ Rising(pending)
        /\ \A m \in SeenFrom(entries, b), l \in ItemsOf(t) : m < l
    BY <1>9, ScreenParts
  <2> HIDE DEF t
  <2>2. \A m \in SeenFrom(Screen, b) : m < n
    BY <1>2, <1>9 DEF Follows, n
  <2>3. Rising(pending')
    <3> SUFFICES ASSUME NEW k \in 1..Len(pending'), NEW l \in 1..Len(pending'), k < l
                 PROVE  pending'[k] < pending'[l]
      BY DEF Rising
    <3>1. k \in 1..Len(pending) /\ pending'[k] = pending[k]
      BY <1>4, <1>5
    <3>2. CASE l = Len(pending) + 1
      <4>1. k \in 1..Len(Seen(t)) /\ Seen(t)[k] = pending[k]
        BY <1>6, <3>1
      <4>2. pending[k] \in ItemsOf(t)
        BY <1>6, <4>1, ItemsAt
      <4> QED BY <1>5, <2>1, <2>2, <3>1, <3>2, <4>2
    <3>3. CASE l \in 1..Len(pending)
      BY <1>5, <2>1, <3>1, <3>3 DEF Rising
    <3> QED BY <1>5, <3>2, <3>3
  <2>4. \A m \in SeenFrom(entries, b), l \in ItemsOf(t2) : m < l
    BY <1>8, <2>1, <2>2
  <2>5. Ascends(Screen', b)
    BY <1>4, <1>6, <1>7, <2>1, <2>3, <2>4, AscendsAppended
  <2>6. SeenFrom(Screen', b) = SeenFrom(Screen, b) \cup {n}
    <3>1. SeenFrom(Screen', b) = SeenFrom(entries, b) \cup ItemsOf(t2)
      BY <1>4, <1>6, <1>7, SeenAppended
    <3> QED BY <1>8, <2>1, <3>1
  <2>7. Moves(SeenFrom(Screen, b) \cup {n}, b, Screen', b)
    BY <2>5, <2>6 DEF Moves
  <2> QED BY <1>1, <2>7
<1> QED BY <1>1, <1>9 DEF ScreenMoves, n


\* A replay is loaded above the text that is pending: that alone is live from now on.
LEMMA ReplayKeepsScreen ==
  ASSUME BaseInv, BaseInv', ScreenInv, Handle("history"), entries = <<>>,
         Becomes(Replay(feed[1].from, feed[1].to)), pending' = pending,
         overlaid' = (overlaid \/ feed[1].ahead \/ pending # <<>>)
  PROVE  ScreenInv'
<1> DEFINE t == NewEntry("text", pending)
           from == feed[1].from
           to == feed[1].to
           L == Replay(from, to).list
<1>1. /\ from \in Nat \ {0} /\ to \in from - 1..Len(log)
      /\ ~feed[1].ahead => to <= sent
  BY HistoryHolds
<1>2. /\ feed[1].type = "history" /\ feed \in Seq(Message)
      /\ Len(feed) = Len(feed') + 1
      /\ \A i \in 1..Len(feed') : feed'[i] = feed[i + 1] /\ i + 1 \in 1..Len(feed)
      /\ \A i \in 1..Len(feed') : Precedes(feed[1], feed'[i])
      /\ UNCHANGED runnerVars /\ UNCHANGED intact
  BY HandleCuts
<1>3. log' = log /\ sent' = sent
  BY <1>2 DEF runnerVars
<1>4. RollOK(Replay(from, to)) /\ Ascends(L, 0) /\ \A m \in SeenFrom(L, 0) : m <= to
  BY <1>1, ReplayKeeps DEF BaseInv
<1>5. entries' = L /\ Screen' = Append(L, t) /\ L \in Seq(Entry)
  BY <1>4 DEF Becomes, Screen, RollOK
<1> HIDE DEF L, from
<1>6. Follows(0) /\ (intact => Accounted(0)) /\ 0 \in 0..Len(entries)
  <2>1. PICK b \in 0..Len(entries) : Follows(b) /\ (intact => Accounted(b))
    BY DEF ScreenInv
  <2>2. b = 0 /\ 0 \in 0..Len(entries)
    BY <2>1
  <2> QED BY <2>1, <2>2
<1>7. /\ t \in Entry /\ t.kind = "text" /\ Seen(t) = pending
      /\ SeenFrom(Screen, 0) = SeenFrom(entries, 0) \cup ItemsOf(t)
      /\ Rising(pending)
  BY <1>6, ScreenParts
<1> HIDE DEF t
<1>8. SeenFrom(Screen, 0) = ItemsOf(t)
  <2>1. SeenFrom(entries, 0) = {}
    BY DEF SeenFrom
  <2> QED BY <1>7, <2>1
<1>9. PICK w \in Nat : w = Len(L) /\ w \in 0..Len(entries') /\ w \in 0..Len(L)
  BY <1>5
<1>10. SeenFrom(L, w) = {} /\ Ascends(L, w)
  BY <1>9 DEF SeenFrom, Ascends
<1>11. Ascends(Screen', w) /\ SeenFrom(Screen', w) = ItemsOf(t)
  <2>1. SeenFrom(Append(L, t), w) = SeenFrom(L, w) \cup ItemsOf(t)
    BY <1>5, <1>7, <1>9, SeenAppended
  <2>2. Rising(Seen(t))
    BY <1>7
  <2>3. Ascends(Append(L, t), w)
    BY <1>5, <1>7, <1>9, <1>10, <2>2, AscendsAppended
  <2> QED BY <1>5, <1>10, <2>1, <2>3
<1>12. Follows(w)'
  <2>1. ASSUME NEW n \in ItemsOf(t)
        PROVE  /\ n <= sent
               /\ \A j \in 1..Len(feed') : feed'[j].type \in Shown => n < feed'[j].n
    <3>1. n <= sent /\ \A j \in 1..Len(feed) : feed[j].type \in Shown => n < feed[j].n
      BY <1>6, <1>8, <2>1 DEF Follows
    <3> QED BY <1>2, <3>1
  <2> QED BY <1>3, <1>11, <2>1 DEF Follows
<1>13. intact' => Accounted(w)'
  <2> SUFFICES ASSUME intact', NEW n \in 1..sent, log[n].kind \in Shown
               PROVE  \/ \E i \in 1..Len(feed') : InFeed(log[n].kind, n, i)'
                      \/ n \in SeenFrom(Screen', w)
    BY <1>3 DEF Accounted
  <2>1. Accounted(0)
    BY <1>2, <1>6
  <2>2. CASE \E i \in 1..Len(feed) : InFeed(log[n].kind, n, i)
    <3>1. PICK i \in 1..Len(feed) : InFeed(log[n].kind, n, i)
      BY <2>2
    <3>2. log[n].kind # "history"
      BY DEF Shown
    <3>3. i - 1 \in 1..Len(feed') /\ InFeed(log[n].kind, n, i - 1)'
      BY <1>3, <3>1, <3>2, HandledGone DEF InFeed
    <3> QED BY <3>3
  <2>3. ~HasMarker(entries)
    BY DEF HasMarker
  <2> QED BY <1>8, <1>11, <2>1, <2>2, <2>3 DEF Accounted, Evicted
<1>14. (~overlaid => Follows(0))'
  <2> SUFFICES ASSUME ~overlaid' PROVE Follows(0)'
    OBVIOUS
  <2>1. ~feed[1].ahead /\ pending = <<>>
    OBVIOUS
  <2>2. ItemsOf(t) = {} /\ Rising(Seen(t))
    BY <1>7, <2>1 DEF ItemsOf, ShownBy
  <2>3. Ascends(Screen', 0) /\ SeenFrom(Screen', 0) = SeenFrom(L, 0)
    <3>1. 0 \in 0..Len(L)
      BY <1>5
    <3>2. SeenFrom(Append(L, t), 0) = SeenFrom(L, 0) \cup ItemsOf(t)
      BY <1>5, <1>7, <3>1, SeenAppended
    <3>3. Ascends(Append(L, t), 0)
      BY <1>4, <1>5, <1>7, <2>2, <3>1, AscendsAppended
    <3> QED BY <1>5, <2>2, <3>2, <3>3
  <2>4. ASSUME NEW n \in SeenFrom(L, 0)
        PROVE  /\ n <= sent
               /\ \A j \in 1..Len(feed') : feed'[j].type \in Shown => n < feed'[j].n
    <3>1. n <= to /\ to <= sent /\ n \in Nat /\ to \in Nat /\ sent \in Nat
      BY <1>1, <1>4, <2>1, <2>4, SeenWhere, ShownTyped DEF Item
    <3>2. ASSUME NEW j \in 1..Len(feed'), feed'[j].type \in Shown PROVE n < feed'[j].n
      <4>1. to < feed'[j].n
        BY <1>2, <2>1, <3>2 DEF Precedes
      <4>2. feed'[j].n \in Nat
        <5>1. feed'[j] = feed[j + 1] /\ j + 1 \in 1..Len(feed)
          BY <1>2
        <5> QED BY <3>2, <5>1, ShownTyped
      <4> QED BY <3>1, <4>1, <4>2
    <3> QED BY <3>1, <3>2
  <2> QED BY <1>3, <2>3, <2>4 DEF Follows
<1> QED BY <1>9, <1>12, <1>13, <1>14 DEF ScreenInv

\* A message that shows no item is handled.
LEMMA HandledScreen ==
  ASSUME BaseInv, BaseInv', ScreenInv, NEW t, t \notin Shown, Handle(t),
         UNCHANGED overlaid, ScreenMoves({}), HasMarker(entries) => HasMarker(entries')
  PROVE  ScreenInv'
<1>1. FeedOn({}) /\ FeedKept({})
  BY FeedHandled
<1>2. Grown /\ UNCHANGED intact
  BY HandleCuts
<1> QED BY <1>1, <1>2, ScreenOn

LEMMA HandleHistoryKeepsScreen ==
  ASSUME BaseInv, BaseInv', ScreenInv, HandleHistory
  PROVE  ScreenInv'
<1> DEFINE m == feed[1]
<1>1. /\ Handle("history") /\ pending' = pending
      /\ \/ /\ Becomes(Added(Roll, NewEntry("unavailable", <<>>)))
            /\ UNCHANGED overlaid
         \/ /\ entries = <<>>
            /\ Becomes(Replay(m.from, m.to))
            /\ overlaid' = (overlaid \/ m.ahead \/ pending # <<>>)
         \/ UNCHANGED <<entries, appended, overlaid>>
  BY HandleCuts DEF HandleHistory
<1>2. "history" \notin Shown
  BY DEF Shown
<1>3. CASE Becomes(Added(Roll, NewEntry("unavailable", <<>>))) /\ UNCHANGED overlaid
  <2> DEFINE e == NewEntry("unavailable", <<>>)
  <2>1. e \in Entry /\ e.kind # "marker" /\ e.items = <<>>
    BY EmptyEntries
  <2>2. Becomes(Added(Roll, e))
    BY <1>3
  <2> HIDE DEF e
  <2>3. Seen(e) = <<>>
    BY <2>1 DEF Seen
  <2>4. ItemsOf(e) = {} /\ Rising(Seen(e))
    BY <2>3 DEF ItemsOf, ShownBy, Rising
  <2>5. ScreenMoves({}) /\ (HasMarker(entries) => HasMarker(entries'))
    BY <1>1, <2>1, <2>2, <2>4, AddMoves
  <2> QED BY <1>1, <1>2, <1>3, <2>5, HandledScreen
<1>4. CASE /\ entries = <<>>
           /\ Becomes(Replay(m.from, m.to))
           /\ overlaid' = (overlaid \/ m.ahead \/ pending # <<>>)
  BY <1>1, <1>4, ReplayKeepsScreen
<1>5. CASE UNCHANGED <<entries, appended, overlaid>>
  BY <1>1, <1>2, <1>5, ScreenStays, HandledScreen
<1> QED BY <1>1, <1>3, <1>4, <1>5

LEMMA HandleTextKeepsScreen ==
  ASSUME BaseInv, BaseInv', ScreenInv, HandleText
  PROVE  ScreenInv'
<1> DEFINE N == {feed[1].n}
<1>1. Handle("text") /\ UNCHANGED overlaid
  BY DEF HandleText
<1>2. Grown /\ UNCHANGED intact
  BY <1>1, HandleCuts
<1>3. FeedOn(N) /\ FeedKept(N)
  BY <1>1, FeedHandled DEF Shown
<1>4. ScreenMoves(N) /\ UNCHANGED entries
  BY TextMoves
<1>5. N \in SUBSET Item
  BY <1>1, HandleCuts, SentIsItem DEF MessageOK, Shown
<1>6. HasMarker(entries) => HasMarker(entries')
  BY <1>4
<1> HIDE DEF N
<1> QED BY <1>1, <1>2, <1>3, <1>4, <1>5, <1>6, ScreenOn

LEMMA HandleCallKeepsScreen ==
  ASSUME BaseInv, BaseInv', ScreenInv, HandleCall
  PROVE  ScreenInv'
<1> DEFINE n == feed[1].n
           e == NewEntry("call", <<n>>)
<1>1. Handle("call") /\ UNCHANGED overlaid /\ FlushAndAdd(e)
  BY HandleCuts DEF HandleCall
<1>2. Grown /\ UNCHANGED intact /\ feed[1].type = "call" /\ 1 \in 1..Len(feed)
  BY <1>1, HandleCuts
<1>3. FeedOn({n}) /\ FeedKept({n})
  BY <1>1, FeedHandled DEF Shown
<1>4. n \in Item
  BY <1>1, HandleCuts, SentIsItem DEF MessageOK, Shown
<1>5. e \in Entry /\ e.kind = "call" /\ e.items = <<n>>
  BY <1>4, CallEntry
<1> HIDE DEF e
<1>6. ItemsOf(e) = {n} /\ Rising(Seen(e))
  BY <1>4, <1>5, OneItemSeen
<1>7. \A k \in ItemsOf(e) : \E j \in 1..Len(feed) : feed[j].type \in Shown /\ feed[j].n = k
  BY <1>2, <1>6 DEF Shown
<1>8. ScreenMoves(ItemsOf(e)) /\ (HasMarker(entries) => HasMarker(entries'))
  BY <1>1, <1>5, <1>6, <1>7, FlushAndAddMoves
<1> HIDE DEF n
<1> QED BY <1>1, <1>2, <1>3, <1>4, <1>6, <1>8, ScreenOn

LEMMA HandleResultKeepsScreen ==
  ASSUME BaseInv, BaseInv', ScreenInv, HandleResult
  PROVE  ScreenInv'
<1>1. /\ Handle("result") /\ UNCHANGED overlaid /\ pending' = pending
      /\ entries' = WithResult(entries, Head(feed).n)
  BY DEF HandleResult
<1>2. "result" \notin Shown
  BY DEF Shown
<1> QED BY <1>1, <1>2, ResultMoves, HandledScreen

\* Entries without items after the text that was pending.
LEMMA FlushAndAddNothing ==
  ASSUME BaseInv, NEW kind \in {"user", "error"}, FlushAndAdd(NewEntry(kind, <<>>))
  PROVE  ScreenMoves({}) /\ (HasMarker(entries) => HasMarker(entries'))
<1> DEFINE e == NewEntry(kind, <<>>)
<1>1. e \in Entry /\ e.kind # "marker" /\ e.items = <<>> /\ FlushAndAdd(e)
  BY EmptyEntries
<1> HIDE DEF e
<1>2. Seen(e) = <<>>
  BY <1>1 DEF Seen
<1>3. ItemsOf(e) = {} /\ Rising(Seen(e))
  BY <1>2 DEF ItemsOf, ShownBy, Rising
<1>4. ScreenMoves(ItemsOf(e)) /\ (HasMarker(entries) => HasMarker(entries'))
  BY <1>1, <1>3, FlushAndAddMoves
<1> QED BY <1>3, <1>4

LEMMA HandlePromptKeepsScreen ==
  ASSUME BaseInv, BaseInv', ScreenInv, HandlePrompt
  PROVE  ScreenInv'
<1>1. Handle("prompt") /\ UNCHANGED overlaid /\ Flush
  BY DEF HandlePrompt
<1>2. "prompt" \notin Shown
  BY DEF Shown
<1> QED BY <1>1, <1>2, FlushMoves, HandledScreen

LEMMA HandleEndKeepsScreen ==
  ASSUME BaseInv, BaseInv', ScreenInv, HandleEnd
  PROVE  ScreenInv'
<1>1. "done" \notin Shown /\ "error" \notin Shown /\ UNCHANGED overlaid
  BY DEF Shown, HandleEnd
<1>2. CASE Handle("done") /\ Flush
  BY <1>1, <1>2, FlushMoves, HandledScreen
<1>3. CASE Handle("error") /\ FlushAndAdd(NewEntry("error", <<>>))
  BY <1>1, <1>3, FlushAndAddNothing, HandledScreen
<1> QED BY <1>2, <1>3 DEF HandleEnd


\* What the runner yields, with the message of it.
YieldsItem(m) ==
  /\ sent + 1 \in 1..Len(log) /\ sent' = sent + 1 /\ log' = log
  /\ m.type = log[sent + 1].kind /\ m.n = log[sent + 1].of
  /\ m.type \in {"text", "call", "result"} /\ m \in Message /\ Send(m)

LEMMA YieldsIs ==
  ASSUME BaseInv, Yields
  PROVE  /\ \E m : YieldsItem(m)
         /\ UNCHANGED <<running, asked, waiting, answers, connected, intact>> /\ DeviceIdle
         /\ Grown
<1> DEFINE item == log[sent + 1]
           m == [type |-> item.kind, n |-> item.of]
<1>1. /\ sent < Len(log) /\ sent' = sent + 1
      /\ Send(m)
      /\ UNCHANGED <<log, running, asked, waiting, answers, connected, intact>>
      /\ DeviceIdle
  BY DEF Yields
<1>2. /\ sent + 1 \in 1..Len(log) /\ item.kind \in {"text", "call", "result"}
      /\ m \in Message
  BY <1>1, NextItem
<1>3. m.type = item.kind /\ m.n = item.of
  OBVIOUS
<1> HIDE DEF m, item
<1>4. YieldsItem(m)
  BY <1>1, <1>2, <1>3 DEF YieldsItem, item
<1> QED BY <1>1, <1>4, YieldsKeepsBase

LEMMA YieldsKeepsScreen ==
  ASSUME BaseInv, BaseInv', ScreenInv, Yields
  PROVE  ScreenInv'
<1>1. /\ UNCHANGED <<connected, intact>> /\ DeviceIdle /\ Grown
  BY YieldsIs
<1>2. PICK m : YieldsItem(m)
  BY YieldsIs
<1>3. UNCHANGED <<entries, pending, overlaid>>
  BY <1>1 DEF DeviceIdle, streamVars
<1>4. /\ sent \in Nat /\ sent' = sent + 1 /\ log' = log
      /\ sent + 1 \in 1..Len(log)
  BY <1>2, RunnerTyped DEF YieldsItem, BaseInv
<1>5. m.type \in Shown => m.n = sent + 1
  BY <1>2, <1>4 DEF YieldsItem, Shown, BaseInv, LogOrder
<1>6. FeedOn({}) /\ (intact => FeedKept({}))
  <2>1. m \in Message /\ Send(m)
    BY <1>2 DEF YieldsItem
  <2>2. m.type \in Shown => m.n > sent
    BY <1>4, <1>5
  <2>3. FeedOn({})
    BY <1>1, <2>1, <2>2, FeedSent
  <2>4. ASSUME intact, NEW n \in 1..sent', log'[n].kind \in Shown
        PROVE  \/ \E j \in 1..Len(feed') : InFeed(log[n].kind, n, j)'
               \/ n <= sent /\ ~\E i \in 1..Len(feed) : InFeed(log[n].kind, n, i)
    <3>1. CASE n = sent + 1
      <4>1. connected
        BY <2>4 DEF BaseInv, FeedOrder
      <4>2. PICK j \in 1..Len(feed') : feed'[j] = m
        BY <2>1, <4>1, SentStays
      <4>3. m.type = log'[n].kind /\ m.n = n
        BY <1>2, <1>4, <1>5, <2>4, <3>1 DEF YieldsItem
      <4>4. InFeed(log[n].kind, n, j)'
        BY <4>2, <4>3 DEF InFeed
      <4> QED BY <4>4
    <3>2. CASE n # sent + 1
      <4>1. n <= sent
        BY <1>4, <3>2
      <4>2. ASSUME NEW i \in 1..Len(feed), InFeed(log[n].kind, n, i)
            PROVE  \E j \in 1..Len(feed') : InFeed(log[n].kind, n, j)'
        <5>1. i \in 1..Len(feed') /\ InFeed(log[n].kind, n, i)'
          BY <1>4, <2>1, <4>2, SentStays DEF InFeed
        <5> QED BY <5>1
      <4> QED BY <4>1, <4>2
    <3> QED BY <3>1, <3>2
  <2> QED BY <2>3, <2>4 DEF FeedKept
<1> QED BY <1>1, <1>3, <1>6, ScreenStays, ScreenOn

\* The screen stays and the feed gets at most a message that shows no item.
LEMMA IdleKeepsScreen ==
  ASSUME BaseInv, BaseInv', ScreenInv, Grown, Quiet,
         UNCHANGED <<entries, pending>>, overlaid' = overlaid, intact' = intact,
         feed' = feed \/ \E m \in Message : Send(m) /\ m.type \notin Shown
  PROVE  ScreenInv'
<1>1. CASE feed' = feed
  BY <1>1, FeedSame, ScreenStays, ScreenOn
<1>2. CASE \E m \in Message : Send(m) /\ m.type \notin Shown
  BY <1>2, FeedSent, ScreenStays, ScreenOn
<1> QED BY <1>1, <1>2

\* The user's steps leave the feed.
LEMMA UserKeepsScreen ==
  ASSUME BaseInv, BaseInv', ScreenInv, UNCHANGED runnerVars, UNCHANGED <<feed, overlaid, intact>>,
         ScreenMoves({}), HasMarker(entries) => HasMarker(entries')
  PROVE  ScreenInv'
<1>1. Grown /\ sent' = sent
  BY StillGrown DEF runnerVars
<1>2. FeedOn({}) /\ FeedKept({})
  BY <1>1, FeedSame DEF Quiet
<1> QED BY <1>1, <1>2, ScreenOn

LEMMA SubmitReturnsKeepsScreen ==
  ASSUME BaseInv, BaseInv', ScreenInv, SubmitReturns
  PROVE  ScreenInv'
<1> DEFINE e == NewEntry("response", <<>>)
<1>1. /\ Becomes(Added(Roll, e)) /\ UNCHANGED runnerVars
      /\ UNCHANGED <<pending, feed, overlaid, intact>>
  BY DEF SubmitReturns
<1>2. e \in Entry /\ e.kind # "marker" /\ e.items = <<>>
  BY EmptyEntries
<1> HIDE DEF e
<1>3. Seen(e) = <<>>
  BY <1>2 DEF Seen
<1>4. ItemsOf(e) = {} /\ Rising(Seen(e))
  BY <1>3 DEF ItemsOf, ShownBy, Rising
<1> QED BY <1>1, <1>2, <1>4, AddMoves, UserKeepsScreen

LEMMA TypesKeepsScreen ==
  ASSUME BaseInv, BaseInv', ScreenInv, Types
  PROVE  ScreenInv'
<1>1. /\ FlushAndAdd(NewEntry("user", <<>>)) /\ UNCHANGED runnerVars
      /\ UNCHANGED <<feed, overlaid, intact>>
  BY DEF Types
<1> QED BY <1>1, FlushAndAddNothing, UserKeepsScreen

LEMMA DisconnectsKeepsScreen ==
  ASSUME BaseInv, BaseInv', ScreenInv, Disconnects
  PROVE  ScreenInv'
<1>1. /\ feed' = <<>> /\ ~intact' /\ UNCHANGED runnerVars
      /\ UNCHANGED <<entries, pending, overlaid>>
  BY DEF Disconnects, streamVars
<1>2. Grown
  BY <1>1, StillGrown
<1>3. FeedOn({})
  BY <1>1 DEF FeedOn
<1> QED BY <1>1, <1>2, <1>3, ScreenStays, ScreenOn

\* The steps that change neither list nor text, of the runner, the user and the
\* connection: at most they send a message without an item.
Aside ==
  \/ TurnStarts \/ Converses \/ Writes \/ Asks \/ TurnEnds \/ ReadsHistory \/ RepliesHistory
  \/ (\E p \in Prompt : GetsAnswer(p))
  \/ Selects \/ Submits \/ Connects \/ UNCHANGED vars

LEMMA AsideLeaves ==
  ASSUME BaseInv, BaseInv', Aside
  PROVE  /\ UNCHANGED <<entries, pending, overlaid, intact>> /\ Grown /\ Quiet
         /\ \/ feed' = feed
            \/ \E m \in Message : Send(m) /\ m.type \in {"prompt", "done", "error", "history"}
<1>1. UNCHANGED <<entries, pending, overlaid, intact>>
  BY DEF Aside, TurnStarts, Converses, Writes, Asks, TurnEnds, ReadsHistory, RepliesHistory,
         GetsAnswer, Selects, Submits, Connects, vars, DeviceIdle, streamVars, runnerVars
<1>2. CASE TurnStarts \/ Converses
  <2>1. UNCHANGED <<written, asked, feed>> /\ sent' \in {sent, sent + 1}
    BY <1>2 DEF TurnStarts, Converses
  <2>2. log \in Seq(LogItem) /\ sent \in Nat /\ written \in Nat /\ asked \in Nat
    BY RunnerTyped DEF BaseInv, TypeOK
  <2>3. Grown
    <3>1. PICK item : log' = Append(log, item)
      BY <1>2 DEF TurnStarts, Converses
    <3>2. log' \in Seq(LogItem)
      BY DEF BaseInv, TypeOK
    <3>3. Len(log') >= Len(log) /\ \A i \in 1..Len(log) : log'[i] = log[i]
      BY <2>2, <3>1, <3>2
    <3> QED BY <2>1, <2>2, <3>3 DEF Grown
  <2>4. Quiet
    <3>1. CASE TurnStarts
      <4>1. /\ sent' = sent + 1 /\ sent = Len(log)
            /\ log' = Append(log, [kind |-> "user", of |-> Len(log) + 1])
        BY <3>1 DEF TurnStarts, BaseInv, LogOrder
      <4>2. log'[sent + 1].kind = "user"
        BY <2>2, <4>1
      <4> QED BY <2>2, <4>1, <4>2 DEF Quiet
    <3>2. CASE Converses
      BY <3>2 DEF Converses, Quiet
    <3> QED BY <1>2, <3>1, <3>2
  <2> QED BY <1>1, <2>1, <2>3, <2>4
<1>3. CASE Writes
  <2>1. UNCHANGED <<log, sent, asked, feed>> /\ written' = written + 1
    BY <1>3 DEF Writes
  <2>2. sent \in Nat /\ written \in Nat /\ asked \in Nat /\ Len(log) \in Nat
    BY RunnerTyped DEF BaseInv
  <2>3. Grown
    BY <2>1, <2>2 DEF Grown
  <2> QED BY <1>1, <2>1, <2>3 DEF Quiet
<1>4. CASE Asks \/ TurnEnds \/ RepliesHistory
  <2>1. UNCHANGED <<log, sent, written>> /\ asked' \in Nat /\ asked' >= asked
    <3>1. asked \in Nat
      BY RunnerTyped DEF BaseInv
    <3> QED BY <1>4, <3>1 DEF Asks, TurnEnds, RepliesHistory, runnerVars
  <2>2. Grown /\ Quiet
    BY <2>1, GrownByAsking DEF Quiet
  <2>3. CASE Asks
    <3> DEFINE m == [type |-> "prompt", n |-> asked + 1]
    <3>1. m \in Message /\ m.type = "prompt"
      <4>1. asked + 1 \in Nat
        BY RunnerTyped DEF BaseInv
      <4> QED BY <4>1, MessagesTyped
    <3>2. Send(m)
      BY <2>3 DEF Asks
    <3> HIDE DEF m
    <3> QED BY <1>1, <2>2, <3>1, <3>2
  <2>4. CASE TurnEnds
    <3>1. PICK t \in {"done", "error"} : Send([type |-> t, n |-> 0])
      BY <2>4 DEF TurnEnds
    <3> DEFINE m == [type |-> t, n |-> 0]
    <3>2. m \in Message /\ m.type \in {"done", "error"} /\ Send(m)
      BY <3>1, MessagesTyped
    <3> HIDE DEF m
    <3> QED BY <1>1, <2>2, <3>2
  <2>5. CASE RepliesHistory
    <3>1. PICK from \in Nat, to \in Nat, ahead \in BOOLEAN, error \in BOOLEAN :
            Send([type |-> "history", from |-> from, to |-> to, ahead |-> ahead,
                  error |-> error])
      <4>1. request.from \in Nat /\ request.to \in Nat /\ (request.to > sent) \in BOOLEAN
        BY DEF BaseInv, TypeOK
      <4>2. CASE Send([type |-> "history", from |-> request.from, to |-> request.to,
                       ahead |-> request.to > sent, error |-> FALSE])
        BY <4>1, <4>2
      <4>3. CASE Send([type |-> "history", from |-> 1, to |-> 0, ahead |-> FALSE,
                       error |-> TRUE])
        BY <4>3
      <4> QED BY <2>5, <4>2, <4>3 DEF RepliesHistory
    <3> DEFINE m == [type |-> "history", from |-> from, to |-> to, ahead |-> ahead,
                     error |-> error]
    <3>2. m \in Message /\ m.type = "history" /\ Send(m)
      BY <3>1, MessagesTyped
    <3> HIDE DEF m
    <3> QED BY <1>1, <2>2, <3>2
  <2> QED BY <1>4, <2>3, <2>4, <2>5
<1>5. CASE ReadsHistory \/ \E p \in Prompt : GetsAnswer(p)
  <2>1. UNCHANGED <<log, sent, written, asked, feed>>
    BY <1>5 DEF ReadsHistory, GetsAnswer, runnerVars
  <2>2. Grown /\ Quiet
    BY <2>1, GrownByAsking, RunnerTyped DEF BaseInv, Quiet
  <2> QED BY <1>1, <2>1, <2>2
<1>6. CASE Selects \/ Submits \/ Connects \/ UNCHANGED vars
  <2>1. UNCHANGED runnerVars /\ UNCHANGED feed
    BY <1>6 DEF Selects, Submits, Connects, vars
  <2>2. Quiet
    BY <2>1 DEF Quiet, runnerVars
  <2> QED BY <1>1, <2>1, <2>2, StillGrown
<1> QED BY <1>2, <1>3, <1>4, <1>5, <1>6 DEF Aside

LEMMA AsideKeepsScreen ==
  ASSUME BaseInv, BaseInv', ScreenInv, Aside
  PROVE  ScreenInv'
<1>1. /\ UNCHANGED <<entries, pending, overlaid, intact>> /\ Grown /\ Quiet
      /\ \/ feed' = feed
         \/ \E m \in Message : Send(m) /\ m.type \in {"prompt", "done", "error", "history"}
  BY AsideLeaves
<1>2. feed' = feed \/ \E m \in Message : Send(m) /\ m.type \notin Shown
  BY <1>1 DEF Shown
<1> QED BY <1>1, <1>2, IdleKeepsScreen

LEMMA ScreenStep ==
  ASSUME BaseInv, BaseInv', ScreenInv, [Next]_vars
  PROVE  ScreenInv'
<1>1. CASE Yields \/ Types \/ SubmitReturns \/ Disconnects
  BY <1>1, YieldsKeepsScreen, TypesKeepsScreen, SubmitReturnsKeepsScreen,
     DisconnectsKeepsScreen
<1>2. CASE \/ HandleText \/ HandleCall \/ HandleResult \/ HandlePrompt \/ HandleEnd
           \/ HandleHistory
  BY <1>2, HandleTextKeepsScreen, HandleCallKeepsScreen, HandleResultKeepsScreen,
     HandlePromptKeepsScreen, HandleEndKeepsScreen, HandleHistoryKeepsScreen
<1> QED BY <1>1, <1>2, AsideKeepsScreen DEF Next, Aside

LEMMA ScreenInit == Init => ScreenInv
<1> SUFFICES ASSUME Init PROVE ScreenInv
  OBVIOUS
<1>1. entries = <<>> /\ pending = <<>> /\ feed = <<>> /\ sent = 0
  BY DEF Init
<1>2. BaseInv
  BY BaseInit
<1>3. Screen = <<NewEntry("text", <<>>)>>
  BY <1>1 DEF Screen
<1>4. Seen(Screen[1]) = <<>> /\ Len(Screen) = 1
  BY <1>3 DEF NewEntry, Seen
<1>5. Ascends(Screen, 0) /\ SeenFrom(Screen, 0) = {}
  BY <1>4 DEF Ascends, SeenFrom, ShownBy
<1>6. Follows(0)
  BY <1>5 DEF Follows
<1>7. Accounted(0)
  BY <1>1 DEF Accounted
<1>8. 0 \in 0..Len(entries)
  BY <1>1
<1> QED BY <1>6, <1>7, <1>8 DEF ScreenInv

LEMMA ScreenHolds == Spec => [](BaseInv /\ ScreenInv)
<1>1. Init => ScreenInv
  BY ScreenInit
<1>2. BaseInv /\ BaseInv' /\ ScreenInv /\ [Next]_vars => ScreenInv'
  BY ScreenStep
<1> QED BY <1>1, <1>2, BaseHolds, PTL DEF Spec

\* For every conversation, however its text, calls and results interleave with
\* prompts, lost connections and the reply of a history: no item is shown twice and
\* none above an earlier one, unless the replay was loaded over text that was not
\* flushed, or the transcript had an item that the runner had not yielded when the
\* reply left (loadHistory).  A turn that runs while the history is read does not
\* matter by itself.
THEOREM ConversationIsFollowed == Spec => []FollowsConversation
<1>1. BaseInv /\ ScreenInv => FollowsConversation
  BY DEF ScreenInv, Follows, FollowsConversation
<1> QED BY <1>1, ScreenHolds, PTL


-----------------------------------------------------------------------------
\* The result of a call comes after it, and is not lost.

HasResult(c) == \E i \in 1..Len(feed) : InFeed("result", c, i)

Resulted(es, c) == \A i \in 1..Len(es) : LastCall(es, i, c) => es[i].result

LEMMA ResultKeptIs ==
  ResultKept <=>
    (intact => \A r \in 1..sent : log[r].kind = "result" =>
                 HasResult(log[r].of) \/ Resulted(entries, log[r].of))
BY DEF ResultKept, HasResult, Resulted

LEMMA ResultedAdded ==
  ASSUME NEW es \in Seq(Entry), NEW k \in Nat, Window(es, k),
         NEW e \in Entry, e.kind # "marker", NEW c, ~IsCall(e, c), Resulted(es, c)
  PROVE  Resulted(AppendEntry(es, e), c)
<1> SUFFICES ASSUME NEW i \in 1..Len(AppendEntry(es, e)), LastCall(AppendEntry(es, e), i, c)
             PROVE  AppendEntry(es, e)[i].result
  BY DEF Resulted
<1>1. PICK j \in 1..Len(es) : LastCall(es, j, c) /\ AppendEntry(es, e)[i] = es[j]
  BY AddedCalls
<1> QED BY <1>1 DEF Resulted

\* Nothing but a call of that number is asked for its result.
LEMMA NotACall ==
  ASSUME NEW e \in Entry, e.kind \notin {"call", "orphan"}, NEW c
  PROVE  ~IsCall(e, c)
BY DEF IsCall

LEMMA FlushedResults ==
  ASSUME BaseInv, NEW c, Resulted(entries, c)
  PROVE  Resulted(Flushed.list, c)
<1> DEFINE t == NewEntry("text", pending)
<1>1. entries \in Seq(Entry) /\ appended \in Nat /\ Window(entries, appended)
  BY DEF BaseInv, TypeOK, WindowKept
<1>2. t \in Entry /\ t.kind = "text"
  BY TextTyped DEF BaseInv
<1>3. Flushed.list = IF pending = <<>> THEN entries ELSE AppendEntry(entries, t)
  BY DEF Flushed, Roll, Added
<1> HIDE DEF t
<1>4. ~IsCall(t, c)
  BY <1>2, NotACall
<1>5. Resulted(AppendEntry(entries, t), c)
  BY <1>1, <1>2, <1>4, ResultedAdded
<1> QED BY <1>3, <1>5

LEMMA FlushAndAddResults ==
  ASSUME BaseInv, NEW e \in Entry, e.kind # "marker", FlushAndAdd(e), NEW c, ~IsCall(e, c),
         Resulted(entries, c)
  PROVE  Resulted(entries', c)
<1> DEFINE r == Flushed.list
           k == Flushed.count
<1>1. RollOK(Flushed)
  BY RollsOK DEF BaseInv
<1>2. r \in Seq(Entry) /\ k \in Nat /\ Window(r, k)
  BY <1>1 DEF RollOK
<1>3. entries' = AppendEntry(r, e)
  BY DEF FlushAndAdd, Becomes, Added
<1>4. Resulted(r, c)
  BY FlushedResults
<1> HIDE DEF r, k
<1>5. Resulted(AppendEntry(r, e), c)
  BY <1>2, <1>4, ResultedAdded
<1> QED BY <1>3, <1>5

LEMMA AddResults ==
  ASSUME BaseInv, NEW kind \in {"user", "response", "error", "unavailable"},
         Becomes(Added(Roll, NewEntry(kind, <<>>))), NEW c, Resulted(entries, c)
  PROVE  Resulted(entries', c)
<1> DEFINE e == NewEntry(kind, <<>>)
<1>1. e \in Entry /\ e.kind \notin {"call", "orphan", "marker"}
  BY EmptyEntries
<1>2. entries \in Seq(Entry) /\ appended \in Nat /\ Window(entries, appended)
  BY DEF BaseInv, TypeOK, WindowKept
<1>3. entries' = AppendEntry(entries, e)
  BY DEF Becomes, Added, Roll
<1> HIDE DEF e
<1>4. ~IsCall(e, c)
  BY <1>1, NotACall
<1>5. Resulted(AppendEntry(entries, e), c)
  BY <1>1, <1>2, <1>4, ResultedAdded
<1> QED BY <1>3, <1>5

\* A step that sends nothing new, loses no result and shows no new call.
LEMMA ResultStays ==
  ASSUME BaseInv, ResultKept, Grown, Quiet, intact' => intact,
         \A c : HasResult(c) => HasResult(c)',
         \A c : Resulted(entries, c) => Resulted(entries', c)
  PROVE  ResultKept'
<1> SUFFICES ASSUME intact', NEW r \in 1..sent, log'[r].kind = "result"
             PROVE  HasResult(log[r].of)' \/ Resulted(entries', log'[r].of)
  BY DEF ResultKept, HasResult, Resulted, Quiet
<1>1. log'[r] = log[r]
  BY SentIsItem DEF Grown
<1> DEFINE c == log[r].of
<1>2. HasResult(c) \/ Resulted(entries, c)
  BY <1>1, ResultKeptIs
<1>3. PICK d : d = log[r].of /\ d = log'[r].of
  BY <1>1
<1>4. HasResult(d)' \/ Resulted(entries', d)
  BY <1>2, <1>3
<1> QED BY <1>3, <1>4 DEF HasResult, InFeed

\* What the device handles, unless it is a call, a result or a replay.
LEMMA ResultsStillCome ==
  ASSUME BaseInv, NEW t, Handle(t), NEW c, HasResult(c), t # "result" \/ feed[1].n # c
  PROVE  HasResult(c)'
<1>1. PICK i \in 1..Len(feed) : InFeed("result", c, i)
  BY DEF HasResult
<1>2. i - 1 \in 1..Len(feed') /\ InFeed("result", c, i - 1)'
  BY <1>1, HandledGone
<1> QED BY <1>2 DEF HasResult

LEMMA HandledResult ==
  ASSUME BaseInv, ResultKept, NEW t, t # "result", Handle(t),
         \A c : Resulted(entries, c) => Resulted(entries', c)
  PROVE  ResultKept'
<1>1. Grown /\ UNCHANGED intact /\ sent' = sent
  BY HandleCuts DEF runnerVars
<1>2. \A c : HasResult(c) => HasResult(c)'
  BY ResultsStillCome
<1>3. Quiet
  BY <1>1 DEF Quiet
<1> QED BY <1>1, <1>2, <1>3, ResultStays

LEMMA HandleCallKeepsResult ==
  ASSUME BaseInv, ResultKept, ResultAfterCall, HandleCall
  PROVE  ResultKept'
<1> DEFINE n == feed[1].n
           e == NewEntry("call", <<n>>)
<1>1. Handle("call") /\ FlushAndAdd(e)
  BY HandleCuts DEF HandleCall
<1>2. /\ feed[1].type = "call" /\ Len(feed) = Len(feed') + 1 /\ feed' \in Seq(Message)
      /\ log' = log /\ sent' = sent /\ UNCHANGED intact
  BY <1>1, HandleCuts DEF runnerVars
<1>3. n \in Item
  BY <1>1, HandleCuts, SentIsItem DEF MessageOK, Shown
<1>4. e \in Entry /\ e.kind = "call" /\ e.items = <<n>>
  BY <1>3, CallEntry
<1> HIDE DEF n, e
<1> SUFFICES ASSUME intact, NEW r \in 1..sent, log[r].kind = "result"
             PROVE  HasResult(log[r].of)' \/ Resulted(entries', log'[r].of)
  BY <1>2 DEF ResultKept, HasResult, Resulted
<1>5. PICK c : c = log[r].of /\ c = log'[r].of
  BY <1>2
<1>6. CASE c = n
  <2>1. 1 \in 1..Len(feed) /\ InFeed("call", log[r].of, 1)
    BY <1>2, <1>5, <1>6 DEF InFeed, n
  <2>2. PICK j \in 1 + 1..Len(feed) : InFeed("result", log[r].of, j)
    BY <2>1 DEF ResultAfterCall
  <2>3. j \in 1..Len(feed) /\ InFeed("result", c, j)
    BY <1>5, <2>2
  <2>4. HasResult(c)'
    BY <1>1, <2>3, ResultsStillCome DEF HasResult
  <2> QED BY <1>5, <2>4 DEF HasResult, InFeed
<1>7. CASE c # n
  <2>1. HasResult(c) \/ Resulted(entries, c)
    BY <1>5, ResultKeptIs
  <2>2. CASE HasResult(c)
    <3>1. HasResult(c)'
      BY <1>1, <2>2, ResultsStillCome
    <3> QED BY <1>5, <3>1 DEF HasResult, InFeed
  <2>3. CASE Resulted(entries, c)
    <3>1. ~IsCall(e, c)
      BY <1>4, <1>7 DEF IsCall
    <3>2. Resulted(entries', c)
      BY <1>1, <1>4, <2>3, <3>1, FlushAndAddResults
    <3> QED BY <1>5, <3>2
  <2> QED BY <2>1, <2>2, <2>3
<1> QED BY <1>6, <1>7

LEMMA HandleResultKeepsResult ==
  ASSUME BaseInv, ResultKept, HandleResult
  PROVE  ResultKept'
<1> DEFINE n == feed[1].n
           q == WithResult(entries, n)
<1>1. Handle("result") /\ entries' = q
  BY HandleCuts DEF HandleResult
<1>2. log' = log /\ sent' = sent /\ UNCHANGED intact
  BY <1>1, HandleCuts DEF runnerVars
<1>3. entries \in Seq(Entry) /\ appended \in Nat /\ Window(entries, appended)
  BY DEF BaseInv, TypeOK, WindowKept
<1> HIDE DEF n
<1>4. /\ q \in Seq(Entry) /\ Len(q) = Len(entries) /\ Alike(entries, q)
      /\ \A i \in 1..Len(entries) :
           q[i].result = (entries[i].result \/ LastCall(entries, i, n))
  BY <1>3, WithResultIs, WithResultOK
<1> HIDE DEF q
<1>5. \A i \in 1..Len(entries) : \A c : LastCall(q, i, c) <=> LastCall(entries, i, c)
  BY <1>3, <1>4, AlikeShows
<1>6. Resulted(q, n)
  BY <1>4, <1>5 DEF Resulted
<1>7. \A c : Resulted(entries, c) => Resulted(q, c)
  BY <1>4, <1>5 DEF Resulted
<1> SUFFICES ASSUME intact, NEW r \in 1..sent, log[r].kind = "result"
             PROVE  HasResult(log[r].of)' \/ Resulted(entries', log'[r].of)
  BY <1>2 DEF ResultKept, HasResult, Resulted
<1>8. PICK c : c = log[r].of /\ c = log'[r].of
  BY <1>2
<1>9. HasResult(c) \/ Resulted(entries, c)
  BY <1>8, ResultKeptIs
<1>10. CASE c = n
  BY <1>1, <1>6, <1>8, <1>10
<1>11. CASE c # n /\ HasResult(c)
  <2>1. HasResult(c)'
    BY <1>1, <1>11, ResultsStillCome DEF n
  <2> QED BY <1>8, <2>1 DEF HasResult, InFeed
<1>12. CASE Resulted(entries, c)
  BY <1>1, <1>7, <1>8, <1>12
<1> QED BY <1>9, <1>10, <1>11, <1>12

\* Before a replay no call has been handled, so that its result is still to come.
LEMMA ReplayKeepsResult ==
  ASSUME BaseInv, ScreenInv, ResultKept, ResultAfterCall, Handle("history"), entries = <<>>
  PROVE  ResultKept'
<1>1. log' = log /\ sent' = sent /\ UNCHANGED intact
  BY HandleCuts DEF runnerVars
<1> SUFFICES ASSUME intact, NEW r \in 1..sent, log[r].kind = "result"
             PROVE  HasResult(log[r].of)'
  BY <1>1 DEF ResultKept, HasResult, InFeed
<1>2. PICK b \in 0..Len(entries) : Follows(b) /\ Accounted(b)
  BY DEF ScreenInv
<1>3. PICK c : c = log[r].of
  OBVIOUS
<1>4. c \in 1..sent /\ log[c].kind = "call"
  <2>1. r \in 1..Len(log) /\ sent \in Nat
    BY SentIsItem, RunnerTyped DEF BaseInv
  <2>2. c \in 1..r - 1 /\ log[c].kind = "call"
    BY <1>3, <2>1 DEF BaseInv, LogOrder
  <2> QED BY <2>1, <2>2
<1>5. c \notin SeenFrom(Screen, b)
  <2> SUFFICES ASSUME c \in SeenFrom(Screen, b) PROVE FALSE
    OBVIOUS
  <2> DEFINE t == NewEntry("text", pending)
  <2>1. SeenFrom(Screen, b) = SeenFrom(entries, b) \cup ItemsOf(t) /\ Seen(t) = pending
    BY <1>2, ScreenParts
  <2>2. SeenFrom(entries, b) = {}
    BY <1>2 DEF SeenFrom
  <2> HIDE DEF t
  <2>3. PICK k \in 1..Len(pending) : pending[k] = c
    BY <2>1, <2>2 DEF ItemsOf, ShownBy
  <2>4. log[c].kind = "text"
    BY <2>3 DEF BaseInv, PendingText
  <2> QED BY <1>4, <2>4
<1>6. ~Evicted(c, b)
  BY DEF Evicted, HasMarker
<1>7. PICK i \in 1..Len(feed) : InFeed("call", c, i)
  BY <1>2, <1>4, <1>5, <1>6 DEF Accounted, Shown
<1>8. HasResult(c)
  <2>1. PICK j \in i + 1..Len(feed) : InFeed("result", c, j)
    BY <1>3, <1>7 DEF ResultAfterCall
  <2>2. j \in 1..Len(feed)
    BY <2>1
  <2> QED BY <2>1, <2>2 DEF HasResult
<1>9. HasResult(c)'
  BY <1>8, ResultsStillCome
<1> QED BY <1>1, <1>3, <1>9 DEF HasResult, InFeed


LEMMA HandleHistoryKeepsResult ==
  ASSUME BaseInv, ScreenInv, ResultKept, ResultAfterCall, HandleHistory
  PROVE  ResultKept'
<1>1. /\ Handle("history")
      /\ \/ Becomes(Added(Roll, NewEntry("unavailable", <<>>)))
         \/ entries = <<>>
         \/ UNCHANGED entries
  BY DEF HandleHistory
<1>2. CASE Becomes(Added(Roll, NewEntry("unavailable", <<>>)))
  <2>1. \A c : Resulted(entries, c) => Resulted(entries', c)
    BY <1>2, AddResults
  <2> QED BY <1>1, <2>1, HandledResult
<1>3. CASE entries = <<>>
  BY <1>1, <1>3, ReplayKeepsResult
<1>4. CASE UNCHANGED entries
  <2>1. \A c : Resulted(entries, c) => Resulted(entries', c)
    BY <1>4 DEF Resulted, LastCall, IsCall
  <2> QED BY <1>1, <2>1, HandledResult
<1> QED BY <1>1, <1>2, <1>3, <1>4

\* A result that is yielded is the last of the feed.
LEMMA YieldsKeepsResult ==
  ASSUME BaseInv, ResultKept, ResultAfterCall, Yields
  PROVE  ResultKept' /\ ResultAfterCall'
<1>1. UNCHANGED <<connected, intact, entries>>
  BY YieldsIs DEF DeviceIdle, streamVars
<1>2. PICK m : YieldsItem(m)
  BY YieldsIs
<1>3. /\ sent \in Nat /\ sent' = sent + 1 /\ log' = log /\ feed \in Seq(Message)
      /\ sent + 1 \in 1..Len(log) /\ m.type = log[sent + 1].kind /\ m.n = log[sent + 1].of
  BY <1>2, RunnerTyped DEF YieldsItem, BaseInv
<1> SUFFICES ASSUME intact PROVE ResultKept' /\ ResultAfterCall'
  BY <1>1 DEF ResultKept, ResultAfterCall
<1>4. connected
  BY DEF BaseInv, FeedOrder
<1>5. /\ \A t, c : \A i \in 1..Len(feed) :
           InFeed(t, c, i) => i \in 1..Len(feed') /\ InFeed(t, c, i)'
      /\ \A j \in 1..Len(feed') :
           \/ j \in 1..Len(feed) /\ feed'[j] = feed[j]
           \/ j = Len(feed) + 1 /\ feed'[j] = m
      /\ m.type = "result" => Len(feed) + 1 \in 1..Len(feed') /\ feed'[Len(feed) + 1] = m
  BY <1>2, <1>4, SentStays DEF YieldsItem
<1>6. ASSUME NEW r \in 1..sent', log[r].kind = "result", r # sent + 1
      PROVE  r \in 1..sent
  BY <1>3, <1>6
<1>7. ResultKept'
  <2> SUFFICES ASSUME NEW r \in 1..sent', log[r].kind = "result"
               PROVE  HasResult(log[r].of)' \/ Resulted(entries', log'[r].of)
    BY <1>3 DEF ResultKept, HasResult, Resulted
  <2>1. PICK c : c = log[r].of /\ c = log'[r].of
    BY <1>3
  <2>2. CASE r = sent + 1
    <3>1. PICK j \in 1..Len(feed') : feed'[j] = m
      BY <1>3, <1>5, <2>2
    <3>2. InFeed("result", c, j)'
      BY <1>3, <2>1, <2>2, <3>1 DEF InFeed
    <3> QED BY <2>1, <3>2 DEF HasResult, InFeed
  <2>3. CASE r # sent + 1
    <3>1. r \in 1..sent
      BY <1>6, <2>3
    <3>2. HasResult(c) \/ Resulted(entries, c)
      BY <2>1, <3>1, ResultKeptIs
    <3>3. CASE HasResult(c)
      <4>1. PICK i \in 1..Len(feed) : InFeed("result", c, i)
        BY <3>3 DEF HasResult
      <4>2. i \in 1..Len(feed') /\ InFeed("result", c, i)'
        BY <1>5, <4>1
      <4> QED BY <2>1, <4>2 DEF HasResult, InFeed
    <3>4. CASE Resulted(entries, c)
      BY <1>1, <2>1, <3>4
    <3> QED BY <3>2, <3>3, <3>4
  <2> QED BY <2>2, <2>3
<1>8. ResultAfterCall'
  <2> SUFFICES ASSUME NEW r \in 1..sent', log[r].kind = "result",
                      NEW i \in 1..Len(feed'), InFeed("call", log[r].of, i)'
               PROVE  \E j \in i + 1..Len(feed') : InFeed("result", log[r].of, j)'
    BY <1>3 DEF ResultAfterCall
  <2>1. PICK c : c = log[r].of /\ c = log'[r].of
    BY <1>3
  <2>2. InFeed("call", c, i)'
    BY <2>1 DEF InFeed
  <2>3. r \in 1..Len(log) /\ c \in 1..r - 1
    <3>1. r \in 1..Len(log)
      BY <1>3
    <3> QED BY <2>1, <3>1 DEF BaseInv, LogOrder
  <2>4. CASE i \in 1..Len(feed) /\ feed'[i] = feed[i]
    <3>1. InFeed("call", c, i)
      BY <2>2, <2>4 DEF InFeed
    <3>2. CASE r = sent + 1
      <4>1. Len(feed) + 1 \in 1..Len(feed') /\ feed'[Len(feed) + 1] = m
        BY <1>3, <1>5, <3>2
      <4>2. PICK j \in i + 1..Len(feed') : feed'[j] = m
        BY <1>3, <2>4, <4>1
      <4>3. InFeed("result", c, j)'
        BY <1>3, <2>1, <3>2, <4>2 DEF InFeed
      <4> QED BY <2>1, <4>3 DEF InFeed
    <3>3. CASE r # sent + 1
      <4>1. r \in 1..sent
        BY <1>6, <3>3
      <4>2. PICK j \in i + 1..Len(feed) : InFeed("result", c, j)
        BY <2>1, <2>4, <3>1, <4>1 DEF ResultAfterCall
      <4>3. j \in 1..Len(feed)
        BY <2>4, <4>2
      <4>4. j \in i + 1..Len(feed') /\ InFeed("result", c, j)'
        BY <1>5, <4>2, <4>3
      <4> QED BY <2>1, <4>4 DEF InFeed
    <3> QED BY <3>2, <3>3
  <2>5. CASE i = Len(feed) + 1 /\ feed'[i] = m
    <3>1. m.type = "call" /\ m.n = c
      BY <2>2, <2>5 DEF InFeed
    <3>2. c = sent + 1
      BY <1>3, <3>1 DEF BaseInv, LogOrder
    <3> QED BY <1>3, <2>3, <3>2
  <2> QED BY <1>5, <2>4, <2>5
<1> QED BY <1>7, <1>8

\* A step that yields nothing: what it sends is no call, what it handles was next.
LEMMA OrderStays ==
  ASSUME BaseInv, ResultAfterCall, Grown, Quiet, intact' => intact,
         \/ feed' = feed
         \/ \E m \in Message : Send(m) /\ m.type # "call"
         \/ \E t : Handle(t)
  PROVE  ResultAfterCall'
<1> SUFFICES ASSUME intact', NEW r \in 1..sent, log'[r].kind = "result",
                    NEW i \in 1..Len(feed'), InFeed("call", log[r].of, i)'
             PROVE  \E j \in i + 1..Len(feed') : InFeed("result", log[r].of, j)'
  BY DEF ResultAfterCall, Quiet
<1>1. log'[r] = log[r] /\ feed \in Seq(Message)
  BY SentIsItem, RunnerTyped DEF Grown, BaseInv
<1>2. PICK c : c = log[r].of /\ c = log'[r].of
  BY <1>1
<1>3. InFeed("call", c, i)'
  BY <1>2 DEF InFeed
<1>4. ASSUME NEW k \in 1..Len(feed), InFeed("call", c, k)
      PROVE  \E j \in k + 1..Len(feed) : j \in 1..Len(feed) /\ InFeed("result", c, j)
  <2>1. PICK j \in k + 1..Len(feed) : InFeed("result", c, j)
    BY <1>1, <1>2, <1>4 DEF ResultAfterCall
  <2>2. j \in 1..Len(feed)
    BY <1>1, <2>1
  <2> QED BY <2>1, <2>2
<1>5. \E j \in i + 1..Len(feed') : InFeed("result", c, j)'
  <2>1. CASE feed' = feed
    <3>1. InFeed("call", c, i) /\ i \in 1..Len(feed)
      BY <1>3, <2>1 DEF InFeed
    <3>2. PICK j \in i + 1..Len(feed) : InFeed("result", c, j)
      BY <1>4, <3>1
    <3>3. j \in i + 1..Len(feed') /\ InFeed("result", c, j)'
      BY <2>1, <3>2 DEF InFeed
    <3> QED BY <3>3
  <2>2. CASE \E m \in Message : Send(m) /\ m.type # "call"
    <3>1. PICK m \in Message : Send(m) /\ m.type # "call"
      BY <2>2
    <3>2. i \in 1..Len(feed) /\ feed'[i] = feed[i]
      BY <1>3, <3>1, SentStays DEF InFeed
    <3>3. InFeed("call", c, i)
      BY <1>3, <3>2 DEF InFeed
    <3>4. PICK j \in i + 1..Len(feed) : j \in 1..Len(feed) /\ InFeed("result", c, j)
      BY <1>4, <3>2, <3>3
    <3>5. j \in 1..Len(feed') /\ InFeed("result", c, j)'
      BY <3>1, <3>4, SentStays
    <3>6. j \in i + 1..Len(feed')
      BY <1>1, <3>4, <3>5
    <3> QED BY <3>5, <3>6
  <2>3. CASE \E t : Handle(t)
    <3>1. PICK t : Handle(t)
      BY <2>3
    <3>2. /\ feed' \in Seq(Message) /\ Len(feed) = Len(feed') + 1
          /\ \A k \in 1..Len(feed') : feed'[k] = feed[k + 1] /\ k + 1 \in 1..Len(feed)
      BY <3>1, HandleCuts
    <3>3. i + 1 \in 1..Len(feed) /\ InFeed("call", c, i + 1)
      BY <1>3, <3>2 DEF InFeed
    <3>4. PICK j \in (i + 1) + 1..Len(feed) : j \in 1..Len(feed) /\ InFeed("result", c, j)
      BY <1>4, <3>3
    <3>5. j - 1 \in i + 1..Len(feed') /\ j - 1 \in 1..Len(feed') /\ (j - 1) + 1 = j
      BY <3>2, <3>4
    <3>6. feed'[j - 1] = feed[j]
      BY <3>2, <3>5
    <3>7. InFeed("result", c, j - 1)'
      BY <3>4, <3>6 DEF InFeed
    <3> QED BY <3>5, <3>7
  <2> QED BY <2>1, <2>2, <2>3
<1> QED BY <1>2, <1>5 DEF InFeed

-----------------------------------------------------------------------------
\* All of it is kept by every step.

LEMMA ResultStep ==
  ASSUME BaseInv, BaseInv', ScreenInv, ResultKept, ResultAfterCall, [Next]_vars
  PROVE  ResultKept' /\ ResultAfterCall'
<1>1. CASE Yields
  BY <1>1, YieldsKeepsResult
<1>2. CASE Disconnects
  <2>1. ~intact'
    BY <1>2 DEF Disconnects
  <2> QED BY <2>1 DEF ResultKept, ResultAfterCall
<1>3. CASE Aside
  <2>1. /\ UNCHANGED <<entries, intact>> /\ Grown /\ Quiet
        /\ \/ feed' = feed
           \/ \E m \in Message : Send(m) /\ m.type \in {"prompt", "done", "error", "history"}
    BY <1>3, AsideLeaves
  <2>2. feed' = feed \/ \E m \in Message : Send(m) /\ m.type # "call"
    BY <2>1
  <2>3. ASSUME NEW c, HasResult(c) PROVE HasResult(c)'
    <3>1. PICK i \in 1..Len(feed) : InFeed("result", c, i)
      BY <2>3 DEF HasResult
    <3>2. i \in 1..Len(feed') /\ InFeed("result", c, i)'
      BY <2>2, <3>1, SentStays DEF InFeed
    <3> QED BY <3>2 DEF HasResult
  <2>4. \A c : Resulted(entries, c) => Resulted(entries', c)
    BY <2>1
  <2> QED BY <2>1, <2>2, <2>3, <2>4, ResultStays, OrderStays
<1>4. CASE Types \/ SubmitReturns
  <2>1. UNCHANGED runnerVars /\ UNCHANGED <<feed, intact>>
    BY <1>4 DEF Types, SubmitReturns
  <2>2. Grown /\ Quiet
    BY <2>1, StillGrown DEF runnerVars, Quiet
  <2>3. ASSUME NEW c, Resulted(entries, c) PROVE Resulted(entries', c)
    <3>1. CASE Types
      <4> DEFINE e == NewEntry("user", <<>>)
      <4>1. e \in Entry /\ e.kind = "user" /\ FlushAndAdd(e)
        BY <3>1, EmptyEntries DEF Types
      <4> HIDE DEF e
      <4> QED BY <2>3, <4>1, NotACall, FlushAndAddResults
    <3>2. CASE SubmitReturns
      BY <2>3, <3>2, AddResults DEF SubmitReturns
    <3> QED BY <1>4, <3>1, <3>2
  <2>4. \A c : HasResult(c) => HasResult(c)'
    BY <2>1 DEF HasResult, InFeed
  <2> QED BY <2>1, <2>2, <2>3, <2>4, ResultStays, OrderStays
<1>5. CASE \/ HandleText \/ HandleCall \/ HandleResult \/ HandlePrompt \/ HandleEnd
           \/ HandleHistory
  <2>1. PICK t : Handle(t)
    BY <1>5 DEF HandleText, HandleCall, HandleResult, HandlePrompt, HandleEnd, HandleHistory
  <2>2. ResultAfterCall'
    <3>1. Grown /\ Quiet /\ intact' = intact
      BY <2>1, HandleCuts DEF runnerVars, Quiet
    <3> QED BY <2>1, <3>1, OrderStays
  <2>3. CASE HandleText
    BY <2>2, <2>3, HandledResult DEF HandleText
  <2>4. CASE HandlePrompt \/ (Handle("done") /\ Flush)
    <3>1. (Handle("prompt") \/ Handle("done")) /\ Flush
      BY <2>4 DEF HandlePrompt
    <3>2. \A c : Resulted(entries, c) => Resulted(entries', c)
      BY <3>1, FlushedResults DEF Flush, Becomes
    <3> QED BY <2>2, <3>1, <3>2, HandledResult
  <2>5. CASE Handle("error") /\ FlushAndAdd(NewEntry("error", <<>>))
    <3> DEFINE e == NewEntry("error", <<>>)
    <3>1. e \in Entry /\ e.kind = "error" /\ FlushAndAdd(e)
      BY <2>5, EmptyEntries
    <3> HIDE DEF e
    <3>2. ASSUME NEW c, Resulted(entries, c) PROVE Resulted(entries', c)
      BY <3>1, <3>2, NotACall, FlushAndAddResults
    <3> QED BY <2>2, <2>5, <3>2, HandledResult
  <2>6. CASE HandleCall \/ HandleResult \/ HandleHistory
    BY <2>2, <2>6, HandleCallKeepsResult, HandleResultKeepsResult, HandleHistoryKeepsResult
  <2> QED BY <1>5, <2>2, <2>3, <2>4, <2>5, <2>6 DEF HandleEnd
<1> QED BY <1>1, <1>2, <1>3, <1>4, <1>5 DEF Next, Aside

LEMMA ResultInit == Init => ResultKept /\ ResultAfterCall
BY DEF Init, ResultKept, ResultAfterCall

\* What a device has once it has handled all that it was sent.
LEMMA AllIsThere ==
  ASSUME BaseInv, ScreenInv, ResultKept
  PROVE  Complete
<1> SUFFICES ASSUME intact, Drained
             PROVE  /\ \A n \in 1..Len(log) : log[n].kind \in {"text", "call"} =>
                         Shows(n) \/ (HasMarker(entries) /\ \A m \in 1..(n - 1) : ~Shows(m))
                    /\ \A r \in 1..Len(log) : log[r].kind = "result" =>
                         Resulted(entries, log[r].of)
  BY DEF Complete, Resulted
<1>1. feed = <<>> /\ sent = Len(log)
  BY DEF Drained
<1>2. PICK b \in 0..Len(entries) : Follows(b) /\ Accounted(b)
  BY DEF ScreenInv
<1>3. ASSUME NEW n \in 1..Len(log), log[n].kind \in {"text", "call"}
      PROVE  Shows(n) \/ (HasMarker(entries) /\ \A m \in 1..(n - 1) : ~Shows(m))
  <2>1. n \in SeenFrom(Screen, b) \/ Evicted(n, b)
    BY <1>1, <1>2, <1>3 DEF Accounted, Shown
  <2>2. CASE n \in SeenFrom(Screen, b)
    <3>1. PICK i \in b + 1..Len(Screen) : ShownBy(Screen[i], n)
      BY <2>2 DEF SeenFrom
    <3>2. i \in 1..Len(Screen)
      BY <1>2, <3>1, ScreenTyped
    <3> QED BY <3>1, <3>2 DEF Shows
  <2>3. CASE Evicted(n, b)
    <3>1. HasMarker(entries) /\ b = 0 /\ \A m \in SeenFrom(Screen, 0) : m > n
      BY <2>3 DEF Evicted
    <3>2. ASSUME NEW m \in 1..(n - 1), Shows(m) PROVE FALSE
      <4>1. m \in 1..Len(log) /\ Len(log) \in Nat
        BY RunnerTyped DEF BaseInv
      <4>2. m \in Item
        BY <1>1, <4>1, SentIsItem
      <4>3. m \in SeenFrom(Screen, 0)
        BY <3>2, <4>2 DEF Shows, SeenFrom
      <4>4. m > n
        BY <3>1, <4>3
      <4> QED BY <4>1, <4>4
    <3> QED BY <3>1, <3>2
  <2> QED BY <2>1, <2>2, <2>3
<1>4. ASSUME NEW r \in 1..Len(log), log[r].kind = "result"
      PROVE  Resulted(entries, log[r].of)
  BY <1>1, <1>4, ResultKeptIs DEF HasResult
<1> QED BY <1>3, <1>4

LEMMA StreamHolds == Spec => []StreamInv
<1>1. Init => ResultKept /\ ResultAfterCall
  BY ResultInit
<1>2. /\ BaseInv /\ BaseInv' /\ ScreenInv /\ ResultKept /\ ResultAfterCall /\ [Next]_vars
      => ResultKept' /\ ResultAfterCall'
  BY ResultStep
<1>3. Spec => [](ResultKept /\ ResultAfterCall)
  BY <1>1, <1>2, ScreenHolds, PTL DEF Spec
<1>4. /\ BaseInv /\ OutboxBound /\ QuestionKept /\ ScreenInv /\ ResultKept /\ ResultAfterCall
      => StreamInv
  BY DEF StreamInv
<1> QED BY <1>3, <1>4, BaseHolds, QuestionHolds, ScreenHolds, PTL

\* A device that was connected all along has, once it has handled what it was sent, every
\* text and call of the conversation on its screen, or evicted before all that are; and
\* every call that it shows has its result if there is one.  A replay of the history
\* takes nothing away, however late it comes (appendEntry, addToolResult, loadHistory).
THEOREM NothingIsMissed == Spec => []Complete
<1>1. StreamInv => Complete
  BY AllIsThere DEF StreamInv
<1> QED BY <1>1, StreamHolds, PTL

=============================================================================
