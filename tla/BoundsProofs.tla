---------------------------- MODULE BoundsProofs ----------------------------
(***************************************************************************)
(* Theorems about the three stores of MCBounds, for every capacity, limit  *)
(* and clock.  They share nothing, so each has an invariant of its own.    *)
(***************************************************************************)
EXTENDS MCBounds, FiniteSetTheorems, TLAPS

-----------------------------------------------------------------------------
(***************************************************************************)
(* The rate limiter keeps its rate and implements the abstract bucket.     *)
(* The products of the definitions are handled by three lemmas; all else   *)
(* is linear.                                                              *)
(***************************************************************************)


\* A bucket holds at least one token.
LEMMA FullHasToken == Full \in Nat /\ Token \in Nat \ {0} /\ Token <= Full
BY LimiterNumbers DEF Full

\* Time brings no less than nothing.
LEMMA RefillsNat ==
  ASSUME NEW a \in Nat
  PROVE  a * Refill \in Nat
BY LimiterNumbers

\* A difference of times is a time.
LEMMA LaterNat ==
  ASSUME NEW a \in Int, NEW b \in Int, b >= a
  PROVE  b - a \in Nat
OBVIOUS

\* What flows in over two stretches of time is the sum of both.
LEMMA RefillsAdd ==
  ASSUME NEW a \in Int, NEW b \in Int, NEW c \in Int
  PROVE  (a - c) * Refill = (b - c) * Refill + (a - b) * Refill
BY LimiterNumbers

\* What has flowed into a bucket is a number.
LEMMA ElapsedNat ==
  ASSUME LimiterTypeOK, NEW k \in DOMAIN buckets
  PROVE  Elapsed(buckets[k]) \in Nat
<1>1. now - buckets[k].lastRefill \in Nat
  BY DEF LimiterTypeOK, Bucket
<1> QED BY <1>1, RefillsNat DEF Elapsed

\* A level is between empty and full.
LEMMA LevelInRange ==
  ASSUME LimiterTypeOK, NEW k \in Key
  PROVE  Level(k) \in 0..Full
<1>1. CASE k \in DOMAIN buckets
  <2>1. buckets[k].tokens \in 0..Full
    BY <1>1 DEF LimiterTypeOK, Bucket
  <2> QED BY <1>1, <2>1, ElapsedNat, FullHasToken DEF Level, Refilled, Least
<1>2. CASE k \notin DOMAIN buckets
  BY <1>2, FullHasToken DEF Level
<1> QED BY <1>1, <1>2

\* To write a bucket changes one level, to what is written.
LEMMA LevelAfterSet ==
  ASSUME LimiterTypeOK, NEW k \in Key, NEW n \in 0..Full, Set(k, n), now' = now
  PROVE  /\ Level(k)' = n
         /\ \A j \in Key \ {k} : Level(j)' = Level(j)
<1>1. /\ DOMAIN buckets' = DOMAIN buckets \cup {k}
      /\ buckets'[k] = [tokens |-> n, lastRefill |-> now]
      /\ \A j \in DOMAIN buckets \ {k} : buckets'[j] = buckets[j]
  BY DEF Set
<1>2. now \in Nat
  BY MaxTimeNat DEF LimiterTypeOK
<1>3. (now - now) * Refill = 0
  BY <1>2, LimiterNumbers
<1>4. Level(k)' = n
  BY <1>1, <1>3, FullHasToken DEF Level, Refilled, Elapsed, Least
<1>5. ASSUME NEW j \in Key \ {k} PROVE Level(j)' = Level(j)
  BY <1>1 DEF Level, Refilled, Elapsed, Least
<1> QED BY <1>4, <1>5

\* tryConsume takes a token from the level, or finds too little and leaves it.
LEMMA LevelAfterTryConsume ==
  ASSUME LimiterTypeOK, NEW k \in Key, TryConsume(k)
  PROVE  /\ \/ Level(k) >= Token /\ Level(k)' = Level(k) - Token /\ Grants(k)
            \/ Level(k) < Token /\ Level(k)' = Level(k) /\ Denies(k)
         /\ \A j \in Key \ {k} : Level(j)' = Level(j)
         /\ \E n \in 0..Full : Set(k, n)
<1> USE FullHasToken
<1>1. Level(k) \in 0..Full
  BY LevelInRange
<1>2. CASE k \notin DOMAIN buckets /\ Set(k, Full - Token) /\ Grants(k)
  <2>1. Full - Token \in 0..Full /\ now' = now
    BY <1>2 DEF Grants
  <2>2. Level(k) = Full
    BY <1>2 DEF Level
  <2> QED BY <1>2, <2>1, <2>2, LevelAfterSet
<1>3. CASE /\ k \in DOMAIN buckets
           /\ Refilled(buckets[k]) < Token
           /\ Set(k, Refilled(buckets[k]))
           /\ Denies(k)
  <2>1. Level(k) = Refilled(buckets[k]) /\ now' = now
    BY <1>3 DEF Level, Denies
  <2> QED BY <1>1, <1>3, <2>1, LevelAfterSet
<1>4. CASE /\ k \in DOMAIN buckets
           /\ Refilled(buckets[k]) >= Token
           /\ Set(k, Refilled(buckets[k]) - Token)
           /\ Grants(k)
  <2>1. Level(k) = Refilled(buckets[k]) /\ now' = now
    BY <1>4 DEF Level, Grants
  <2>2. Refilled(buckets[k]) - Token \in 0..Full
    BY <1>1, <1>4, <2>1
  <2> QED BY <1>1, <1>4, <2>1, <2>2, LevelAfterSet
<1> QED BY <1>2, <1>3, <1>4 DEF TryConsume

\* A sweep changes no level: what it drops is full.
LEMMA LevelAfterSweep ==
  ASSUME LimiterTypeOK, Sweep, NEW k \in Key
  PROVE  Level(k)' = Level(k)
<1>1. /\ now' = now
      /\ DOMAIN buckets' = {j \in DOMAIN buckets : Elapsed(buckets[j]) < Full}
      /\ \A j \in DOMAIN buckets' : buckets'[j] = buckets[j]
  BY DEF Sweep, Keep
<1>2. CASE k \in DOMAIN buckets'
  BY <1>1, <1>2 DEF Level, Refilled, Elapsed, Least
<1>3. CASE k \notin DOMAIN buckets
  BY <1>1, <1>3 DEF Level
<1>4. CASE k \in DOMAIN buckets /\ k \notin DOMAIN buckets'
  <2>1. buckets[k].tokens \in 0..Full
    BY <1>4 DEF LimiterTypeOK, Bucket
  <2>2. Elapsed(buckets[k]) \in Nat
    BY <1>4, ElapsedNat
  <2>3. ~(Elapsed(buckets[k]) < Full)
    BY <1>1, <1>4
  <2>4. Level(k) = Full
    BY <1>4, <2>1, <2>2, <2>3, FullHasToken DEF Level, Refilled, Least
  <2> QED BY <1>4, <2>4 DEF Level
<1> QED BY <1>2, <1>3, <1>4

\* Time raises every level at the same pace, up to full.
LEMMA LevelAfterTick ==
  ASSUME LimiterTypeOK, Tick, NEW k \in Key
  PROVE  /\ (now' - now) * Refill \in Nat
         /\ Level(k)' = Least(Full, Level(k) + (now' - now) * Refill)
<1> USE FullHasToken
<1>0. now \in Nat /\ now' \in (now + 1)..MaxTime /\ buckets' = buckets
  BY MaxTimeNat DEF LimiterTypeOK, Tick
<1>1. now' \in Nat /\ now' - now \in Nat
  <2>1. now \in Int /\ now' \in Nat /\ now' \in Int /\ now' >= now
    BY <1>0, MaxTimeNat
  <2> QED BY <2>1, LaterNat, Zenon
<1>2. (now' - now) * Refill \in Nat
  BY <1>1, RefillsNat
<1>3. CASE k \notin DOMAIN buckets
  BY <1>0, <1>2, <1>3 DEF Level, Least
<1>4. CASE k \in DOMAIN buckets
  <2> DEFINE b == buckets[k]
  <2>1. b.tokens \in 0..Full /\ b.lastRefill \in Int
    BY <1>4 DEF LimiterTypeOK, Bucket
  <2>2. (now' - b.lastRefill) * Refill = (now - b.lastRefill) * Refill + (now' - now) * Refill
    <3> HIDE DEF b
    <3>1. now \in Int /\ now' \in Int
      BY <1>0, <1>1
    <3> QED BY <2>1, <3>1, RefillsAdd, Zenon
  <2>3. Elapsed(b) \in Nat
    BY <1>4, ElapsedNat
  <2>4. Level(k) = Least(Full, b.tokens + Elapsed(b))
    BY <1>4 DEF Level, Refilled
  <2>5. Level(k)' = Least(Full, b.tokens + (Elapsed(b) + (now' - now) * Refill))
    BY <1>0, <1>4, <2>2 DEF Level, Refilled, Elapsed, Least
  <2> QED BY <1>2, <2>1, <2>3, <2>4, <2>5 DEF Least
<1> QED BY <1>2, <1>3, <1>4

-----------------------------------------------------------------------------
(* Types.                                                                  *)

LEMMA LimiterTypeInit == LimiterInit => LimiterTypeOK
BY MaxTimeNat DEF LimiterInit, LimiterTypeOK

LEMMA LimiterTypeNext == LimiterTypeOK /\ [LimiterNext]_limiterVars => LimiterTypeOK'
<1> SUFFICES ASSUME LimiterTypeOK, [LimiterNext]_limiterVars
             PROVE  LimiterTypeOK'
  OBVIOUS
<1> USE MaxTimeNat
<1>1. ASSUME NEW k \in Key, TryConsume(k)
      PROVE  LimiterTypeOK'
  <2>1. PICK n \in 0..Full : Set(k, n)
    BY <1>1, LevelAfterTryConsume
  <2>2. Grants(k) \/ Denies(k)
    BY <1>1, LevelAfterTryConsume
  <2>3. now' = now /\ mark' = mark
    BY <2>2 DEF Grants, Denies
  <2>4. answer' \in Key \X BOOLEAN
    <3>1. <<k, TRUE>> \in Key \X BOOLEAN /\ <<k, FALSE>> \in Key \X BOOLEAN
      OBVIOUS
    <3> QED BY <2>2, <3>1 DEF Grants, Denies
  <2>a. spent' \in [Key -> Nat]
    <3>1. spent \in [Key -> Nat]
      BY DEF LimiterTypeOK
    <3>2. CASE Denies(k)
      BY <3>1, <3>2 DEF Denies
    <3>3. CASE Grants(k)
      BY <3>1, <3>3 DEF Grants
    <3> QED BY <2>2, <3>2, <3>3
  <2>5. DOMAIN buckets' = DOMAIN buckets \cup {k}
    BY <2>1 DEF Set
  <2>6. ASSUME NEW j \in DOMAIN buckets'
        PROVE  buckets'[j] \in Bucket /\ buckets'[j].lastRefill <= now
    BY <2>1, <2>5 DEF Set, LimiterTypeOK, Bucket
  <2> QED BY <2>3, <2>4, <2>a, <2>5, <2>6 DEF LimiterTypeOK
<1>2. CASE Sweep
  BY <1>2 DEF Sweep, Keep, LimiterTypeOK
<1>3. CASE Tick
  BY <1>3 DEF Tick, LimiterTypeOK, Bucket
<1>4. CASE UNCHANGED limiterVars
  BY <1>4 DEF limiterVars, LimiterTypeOK
<1> QED BY <1>1, <1>2, <1>3, <1>4 DEF LimiterNext

\* The limiter's variables keep their types: a bucket never overflows or goes
\* below zero (tryConsume).
THEOREM LimiterTypeCorrect == LimiterSpec => []LimiterTypeOK
BY LimiterTypeInit, LimiterTypeNext, PTL DEF LimiterSpec

-----------------------------------------------------------------------------
(* The rate.  What was granted since the mark and what is left is within   *)
(* what there can have been: this is inductive, and implies RateKept.      *)

Balance ==
  IF now < mark
    THEN \A k \in Key : spent[k] = 0
    ELSE \A k \in Key : spent[k] * Token + Level(k) <= Full + (now - mark) * Refill

LEMMA BalanceInit == LimiterInit => Balance
<1> SUFFICES ASSUME LimiterInit, now >= mark, NEW k \in Key
             PROVE  spent[k] * Token + Level(k) <= Full + (now - mark) * Refill
  BY MaxTimeNat DEF LimiterInit, Balance
<1>1. now - mark = 0 /\ spent[k] = 0 /\ Level(k) = Full
  BY MaxTimeNat DEF LimiterInit, Level
<1>2. (now - mark) * Refill = 0 /\ spent[k] * Token = 0
  BY <1>1, LimiterNumbers
<1> QED BY <1>1, <1>2, FullHasToken

LEMMA BalanceNext == LimiterTypeOK /\ Balance /\ [LimiterNext]_limiterVars => Balance'
<1> SUFFICES ASSUME LimiterTypeOK, Balance, [LimiterNext]_limiterVars
             PROVE  Balance'
  OBVIOUS
<1> USE FullHasToken
<1>0. now \in Nat /\ mark \in Nat /\ spent \in [Key -> Nat]
  BY MaxTimeNat DEF LimiterTypeOK
<1>a. \A k \in Key : Level(k) \in 0..Full /\ spent[k] * Token \in Nat
  <2> TAKE k \in Key
  <2>1. spent[k] \in Nat
    BY <1>0
  <2> QED BY <2>1, LevelInRange, LimiterNumbers
<1>1. ASSUME NEW k \in Key, TryConsume(k)
      PROVE  Balance'
  <2>1. now' = now /\ mark' = mark
    BY <1>1, LevelAfterTryConsume DEF Grants, Denies
  <2>2. CASE now < mark
    <3>1. spent' = spent
      <4>1. CASE Denies(k)
        BY <4>1 DEF Denies
      <4>2. CASE Grants(k)
        BY <1>0, <2>2, <4>2 DEF Grants
      <4> QED BY <1>1, <4>1, <4>2, LevelAfterTryConsume
    <3> QED BY <2>1, <2>2, <3>1 DEF Balance
  <2>3. CASE now >= mark
    <3> DEFINE most == Full + (now - mark) * Refill
    <3>1. \A j \in Key : spent[j] * Token + Level(j) <= most
      BY <1>0, <2>3 DEF Balance
    <3>2. ASSUME NEW j \in Key PROVE spent'[j] * Token + Level(j)' <= most
      <4>1. CASE j # k
        <5>1. spent'[j] = spent[j]
          BY <1>0, <1>1, <4>1, LevelAfterTryConsume DEF Grants, Denies
        <5>2. Level(j)' = Level(j)
          BY <1>1, <4>1, LevelAfterTryConsume
        <5> QED BY <3>1, <5>1, <5>2
      <4>2. CASE j = k /\ Grants(k) /\ Level(k)' = Level(k) - Token
        <5>1. spent'[k] = spent[k] + 1 /\ spent[k] \in Nat
          BY <1>0, <2>3, <4>2 DEF Grants
        <5>2. spent'[k] * Token = spent[k] * Token + Token
          BY <5>1, LimiterNumbers
        <5>3. spent[k] * Token + Level(k) <= most /\ most \in Int
          <6>1. now - mark \in Nat
            BY <1>0, <2>3
          <6> QED BY <3>1, <6>1, RefillsNat
        <5> QED BY <1>a, <4>2, <5>2, <5>3
      <4>3. CASE j = k /\ Denies(k) /\ Level(k)' = Level(k)
        BY <3>1, <4>3 DEF Denies
      <4> QED BY <1>1, <4>1, <4>2, <4>3, LevelAfterTryConsume
    <3> QED BY <1>0, <2>1, <2>3, <3>2 DEF Balance
  <2> QED BY <1>0, <2>2, <2>3
<1>2. CASE Sweep
  <2>1. now' = now /\ mark' = mark /\ spent' = spent
    BY <1>2 DEF Sweep
  <2>2. \A k \in Key : Level(k)' = Level(k)
    BY <1>2, LevelAfterSweep
  <2> QED BY <2>1, <2>2 DEF Balance
<1>3. CASE Tick
  <2>1. /\ mark' = mark /\ spent' = spent
        /\ now' \in Nat /\ now' > now
    BY <1>0, <1>3, MaxTimeNat DEF Tick
  <2>2. CASE now' < mark
    BY <1>0, <2>1, <2>2 DEF Balance
  <2>3. CASE now < mark /\ now' >= mark
    <3>1. now' - mark \in Nat
      <4>1. now' \in Int /\ mark \in Int /\ now' >= mark
        BY <1>0, <2>1, <2>3
      <4> QED BY <4>1, LaterNat, Zenon
    <3>2. (now' - mark) * Refill \in Nat
      BY <3>1, RefillsNat
    <3>3. ASSUME NEW k \in Key
          PROVE  spent'[k] * Token + Level(k)' <= Full + (now' - mark) * Refill
      <4>1. spent'[k] = 0
        BY <1>0, <2>1, <2>3 DEF Balance
      <4>2. spent'[k] * Token = 0
        BY <4>1, LimiterNumbers
      <4>3. Level(k)' \in Int /\ Level(k)' <= Full
        BY <1>3, <1>a, LevelAfterTick DEF Least
      <4> QED BY <3>2, <4>2, <4>3
    <3> QED BY <1>0, <2>1, <2>3, <3>3 DEF Balance
  <2>4. CASE now >= mark
    <3>1. now - mark \in Nat /\ now' - now \in Nat
      <4>1. {now, now', mark} \subseteq Int /\ now >= mark /\ now' >= now
        BY <1>0, <2>1, <2>4
      <4> QED BY <4>1, LaterNat, Zenon
    <3>2. (now - mark) * Refill \in Nat /\ (now' - now) * Refill \in Nat
      BY <3>1, RefillsNat
    <3>3. (now' - mark) * Refill = (now - mark) * Refill + (now' - now) * Refill
      BY <1>0, <2>1, RefillsAdd
    <3>4. ASSUME NEW k \in Key
          PROVE  spent'[k] * Token + Level(k)' <= Full + (now' - mark) * Refill
      <4>1. spent[k] * Token + Level(k) <= Full + (now - mark) * Refill
        BY <1>0, <2>4 DEF Balance
      <4>2. Level(k)' <= Level(k) + (now' - now) * Refill /\ Level(k)' \in Int
        BY <1>3, <1>a, <3>2, LevelAfterTick DEF Least
      <4>3. Level(k) \in Int /\ spent[k] * Token \in Int /\ spent' = spent
        BY <1>a, <2>1
      <4> QED BY <3>2, <3>3, <4>1, <4>2, <4>3
    <3> QED BY <1>0, <2>1, <2>4, <3>4 DEF Balance
  <2> QED BY <1>0, <2>1, <2>2, <2>3, <2>4
<1>4. CASE UNCHANGED limiterVars
  BY <1>4 DEF limiterVars, Balance, Level, Refilled, Elapsed, Least
<1> QED BY <1>1, <1>2, <1>3, <1>4 DEF LimiterNext

LEMMA BalanceBoundsRate == LimiterTypeOK /\ Balance => RateKept
<1> SUFFICES ASSUME LimiterTypeOK, Balance, now >= mark, NEW k \in Key
             PROVE  spent[k] * Token <= Full + (now - mark) * Refill
  BY DEF RateKept
<1>1. now - mark \in Nat /\ spent[k] \in Nat
  BY MaxTimeNat DEF LimiterTypeOK
<1>2. (now - mark) * Refill \in Nat /\ spent[k] * Token \in Nat
  BY <1>1, RefillsNat, LimiterNumbers
<1>3. spent[k] * Token + Level(k) <= Full + (now - mark) * Refill
  BY <1>1, MaxTimeNat DEF Balance, LimiterTypeOK
<1> QED BY <1>2, <1>3, LevelInRange, FullHasToken

\* No key is granted more than a full bucket and what flows in, whenever the time
\* that is looked at begins and whenever the sweep comes (tryConsume, sweep).
THEOREM LimiterKeepsRate == LimiterSpec => []RateKept
<1>1. LimiterInit => LimiterTypeOK /\ Balance
  BY LimiterTypeInit, BalanceInit
<1>2. LimiterTypeOK /\ Balance /\ [LimiterNext]_limiterVars => (LimiterTypeOK /\ Balance)'
  BY LimiterTypeNext, BalanceNext
<1> QED BY <1>1, <1>2, BalanceBoundsRate, PTL DEF LimiterSpec

-----------------------------------------------------------------------------
(* The refinement.                                                         *)

levels == [k \in Key |-> Level(k)]

LEMMA PromiseInit == LimiterInit => Promise!Init
BY DEF LimiterInit, Promise!Init, Promise!Full, Full, Level

LEMMA PromiseNext ==
  LimiterTypeOK /\ [LimiterNext]_limiterVars => [Promise!Next]_<<now, levels, answer>>
<1> SUFFICES ASSUME LimiterTypeOK, [LimiterNext]_limiterVars
             PROVE  [Promise!Next]_<<now, levels, answer>>
  OBVIOUS
<1>1. ASSUME NEW k \in Key, TryConsume(k)
      PROVE  Promise!Next
  <2>1. CASE Level(k) >= Token /\ Level(k)' = Level(k) - Token /\ Grants(k)
    <3>1. levels' = [levels EXCEPT ![k] = @ - Token]
      BY <1>1, <2>1, LevelAfterTryConsume DEF levels
    <3> QED BY <2>1, <3>1 DEF Promise!Next, Promise!Takes, Grants, levels
  <2>2. CASE Level(k) < Token /\ Level(k)' = Level(k) /\ Denies(k)
    <3>1. levels' = levels
      BY <1>1, <2>2, LevelAfterTryConsume DEF levels
    <3> QED BY <2>2, <3>1 DEF Promise!Next, Promise!Refuses, Denies, levels
  <2> QED BY <1>1, <2>1, <2>2, LevelAfterTryConsume
<1>2. CASE Sweep
  <2>1. levels' = levels
    BY <1>2, LevelAfterSweep DEF levels
  <2> QED BY <1>2, <2>1 DEF Sweep
<1>3. CASE Tick
  <2>1. levels' = [k \in Key |-> Least(Full, levels[k] + (now' - now) * Refill)]
    BY <1>3, LevelAfterTick DEF levels
  <2> QED BY <1>3, <2>1 DEF Promise!Next, Promise!Rises, Promise!Full, Promise!Least,
                             Least, Full, Tick, levels
<1>4. CASE UNCHANGED limiterVars
  <2>1. levels' = levels
    BY <1>4 DEF limiterVars, levels, Level, Refilled, Elapsed, Least
  <2> QED BY <1>4, <2>1 DEF limiterVars
<1> QED BY <1>1, <1>2, <1>3, <1>4 DEF LimiterNext

\* Buckets that are filled late and swept answer as ones that fill continuously and
\* are never dropped (tryConsume, sweep).
THEOREM LimiterRefines == LimiterSpec => LimiterKeepsPromise
<1>1. LimiterInit => Promise!Init
  BY PromiseInit
<1>2. LimiterTypeOK /\ [LimiterNext]_limiterVars => [Promise!Next]_<<now, levels, answer>>
  BY PromiseNext
<1> QED BY <1>1, <1>2, LimiterTypeCorrect, PTL
        DEF LimiterSpec, LimiterKeepsPromise, Promise!Spec, levels

-----------------------------------------------------------------------------
(***************************************************************************)
(* What a full resume map loses.                                           *)
(***************************************************************************)

Ordered ==
  \A i, j \in 1..Len(resumable) : i <= j => inserted[resumable[i]] <= inserted[resumable[j]]

ResumeInv == ResumeTypeOK /\ Ordered

LEMMA ResumeInvInit == ResumeInit => ResumeInv
BY MaxResumablePos, MaxClockNat DEF ResumeInit, ResumeInv, ResumeTypeOK, Ordered

-----------------------------------------------------------------------------
(* A save.                                                                 *)

\* What is left of the keys before the new one comes, and in their order.
LEMMA EvictedKeys ==
  ASSUME ResumeInv
  PROVE  /\ Evicted \in Seq(Chat)
         /\ Len(Evicted) < MaxResumable
         /\ \A i, j \in 1..Len(Evicted) :
              i <= j => inserted[Evicted[i]] <= inserted[Evicted[j]]
<1>1. resumable \in Seq(Chat) /\ Len(resumable) \in Nat /\ Len(resumable) <= MaxResumable
  BY DEF ResumeInv, ResumeTypeOK
<1>2. CASE Len(resumable) < MaxResumable
  <2>1. Evicted = resumable
    BY <1>1, <1>2, MaxResumablePos DEF Evicted
  <2> QED BY <1>1, <1>2, <2>1 DEF ResumeInv, Ordered
<1>3. CASE Len(resumable) >= MaxResumable
  <2>1. resumable # <<>> /\ Evicted = Tail(resumable)
    BY <1>1, <1>3, MaxResumablePos DEF Evicted
  <2>2. /\ Evicted \in Seq(Chat) /\ Len(Evicted) = Len(resumable) - 1
        /\ \A i \in 1..Len(Evicted) : Evicted[i] = resumable[i + 1]
    BY <1>1, <2>1
  <2>3. ASSUME NEW i \in 1..Len(Evicted), NEW j \in 1..Len(Evicted), i <= j
        PROVE  inserted[Evicted[i]] <= inserted[Evicted[j]]
    <3>1. i + 1 \in 1..Len(resumable) /\ j + 1 \in 1..Len(resumable) /\ i + 1 <= j + 1
      BY <1>1, <2>2, <2>3
    <3> QED BY <2>2, <3>1 DEF ResumeInv, Ordered
  <2> QED BY <1>1, <2>2, <2>3, MaxResumablePos
<1> QED BY <1>1, <1>2, <1>3, MaxResumablePos

LEMMA SaveKeeps ==
  ASSUME ResumeInv, NEW s \in Chat, Save(s)
  PROVE  ResumeInv'
<1>1. /\ Evicted \in Seq(Chat) /\ Len(Evicted) \in Nat
      /\ Len(Evicted) < MaxResumable
      /\ \A i, j \in 1..Len(Evicted) :
           i <= j => inserted[Evicted[i]] <= inserted[Evicted[j]]
  BY EvictedKeys
<1>2. /\ inserted \in [Chat -> 0..clock] /\ clock \in Nat /\ clock' = clock
      /\ row' = row /\ activity' = activity
  BY MaxClockNat DEF ResumeInv, ResumeTypeOK, Save
<1>3. CASE Contains(Evicted, s)
  <2>1. resumable' = Evicted /\ inserted' = inserted
    BY <1>3 DEF Save, SetKey
  <2>2. Ordered'
    BY <1>1, <2>1 DEF Ordered
  <2> QED BY <1>1, <1>2, <2>1, <2>2, MaxResumablePos DEF ResumeInv, ResumeTypeOK
<1>4. CASE ~Contains(Evicted, s)
  <2>1. resumable' = Append(Evicted, s) /\ inserted' = [inserted EXCEPT ![s] = clock]
    BY <1>4 DEF Save, SetKey
  <2>2. /\ resumable' \in Seq(Chat) /\ Len(resumable') = Len(Evicted) + 1
        /\ \A i \in 1..Len(Evicted) : resumable'[i] = Evicted[i]
        /\ resumable'[Len(Evicted) + 1] = s
    BY <1>1, <2>1
  <2>3. inserted' \in [Chat -> 0..clock] /\ inserted'[s] = clock
        /\ \A t \in Chat \ {s} : inserted'[t] = inserted[t]
    BY <1>2, <2>1
  <2>4. \A i \in 1..Len(Evicted) : Evicted[i] \in Chat /\ Evicted[i] # s
    BY <1>1, <1>4 DEF Contains
  <2>5. ASSUME NEW i \in 1..Len(resumable'), NEW j \in 1..Len(resumable'), i <= j
        PROVE  inserted'[resumable'[i]] <= inserted'[resumable'[j]]
    <3>1. CASE j = Len(Evicted) + 1
      <4>1. inserted'[resumable'[j]] = clock
        BY <2>2, <2>3, <3>1
      <4>2. inserted'[resumable'[i]] \in 0..clock
        BY <2>2, <2>3
      <4> QED BY <1>2, <4>1, <4>2
    <3>2. CASE j # Len(Evicted) + 1
      <4>1. i \in 1..Len(Evicted) /\ j \in 1..Len(Evicted)
        BY <1>1, <2>2, <2>5, <3>2
      <4> QED BY <1>1, <2>2, <2>3, <2>4, <2>5, <4>1
    <3> QED BY <3>1, <3>2
  <2>6. Ordered'
    BY <2>5 DEF Ordered
  <2>7. Len(resumable') <= MaxResumable
    BY <1>1, <2>2, MaxResumablePos
  <2> QED BY <1>2, <2>2, <2>3, <2>6, <2>7 DEF ResumeInv, ResumeTypeOK
<1> QED BY <1>3, <1>4

-----------------------------------------------------------------------------
(* A resync.                                                               *)

\* The hub's listing is finite and sorted; reversed it is in the order of activity.
LEMMA AppliedKeys ==
  ASSUME ResumeTypeOK, NEW q \in Listings
  PROVE  /\ Applied(q) \in Seq(Chat)
         /\ Len(Applied(q)) <= MaxResumable
         /\ \A i, j \in 1..Len(Applied(q)) :
              i <= j => activity[Applied(q)[i]] <= activity[Applied(q)[j]]
<1> DEFINE K == {s \in Chat : row[s] = "named"}
           m == IF Len(q) < MaxResumable THEN Len(q) ELSE MaxResumable
<1>1. Cardinality(K) \in Nat
  BY ChatFinite, FS_Subset, FS_CardinalityType
<1>2. /\ q \in [1..Cardinality(K) -> K]
      /\ \A i, j \in DOMAIN q : i < j => activity[q[i]] >= activity[q[j]]
  BY DEF Listings, SetToSeqs
<1>3. q \in Seq(Chat) /\ Len(q) = Cardinality(K) /\ DOMAIN q = 1..Len(q)
  <2>1. q \in [1..Cardinality(K) -> Chat]
    BY <1>2
  <2> HIDE DEF K
  <2> QED BY <1>1, <2>1
<1> HIDE DEF K
<1>4. m \in Nat /\ m <= Len(q) /\ m <= MaxResumable
  BY <1>1, <1>3, MaxResumablePos
<1>5. /\ Capped(q) \in Seq(Chat) /\ Len(Capped(q)) = m
      /\ \A i \in 1..m : Capped(q)[i] = q[i]
  BY <1>3, <1>4 DEF Capped
<1> HIDE DEF m
<1>6. /\ Applied(q) = [i \in 1..m |-> Capped(q)[(m - i) + 1]]
  BY <1>5 DEF Applied, Reverse
<1>7. \A i \in 1..m : (m - i) + 1 \in 1..m /\ Applied(q)[i] = q[(m - i) + 1]
  BY <1>4, <1>5, <1>6
<1>8. Applied(q) \in Seq(Chat) /\ Len(Applied(q)) = m
  <2>1. Applied(q) \in [1..m -> Chat]
    <3>1. \A i \in 1..m : q[(m - i) + 1] \in Chat
      BY <1>3, <1>4, <1>7
    <3> QED BY <1>6, <1>7, <3>1
  <2> QED BY <1>4, <1>6, <2>1
<1>9. ASSUME NEW i \in 1..m, NEW j \in 1..m, i <= j
      PROVE  activity[Applied(q)[i]] <= activity[Applied(q)[j]]
  <2>1. CASE i = j
    <3>1. Applied(q)[i] \in Chat
      BY <1>8
    <3>2. activity[Applied(q)[i]] \in 0..clock
      BY <3>1 DEF ResumeTypeOK
    <3> QED BY <2>1, <3>2
  <2>2. CASE i < j
    <3>1. (m - j) + 1 \in DOMAIN q /\ (m - i) + 1 \in DOMAIN q /\ (m - j) + 1 < (m - i) + 1
      BY <1>3, <1>4, <2>2
    <3>2. activity[q[(m - j) + 1]] >= activity[q[(m - i) + 1]]
      BY <1>2, <3>1
    <3>3. q[(m - j) + 1] \in Chat /\ q[(m - i) + 1] \in Chat
      BY <1>3, <3>1
    <3>4. activity[q[(m - j) + 1]] \in 0..clock /\ activity[q[(m - i) + 1]] \in 0..clock
      BY <3>3 DEF ResumeTypeOK
    <3> QED BY <1>7, <3>2, <3>4
  <2> QED BY <1>4, <1>9, <2>1, <2>2
<1> QED BY <1>4, <1>8, <1>9

\* The listing has every conversation on record, so that what is not applied comes
\* after what is.
LEMMA AppliedMostRecent ==
  ASSUME ResumeTypeOK, NEW q \in Listings,
         NEW s \in Chat \ ToSet(Applied(q)), row[s] = "named"
  PROVE  /\ Len(Applied(q)) = MaxResumable
         /\ \A t \in ToSet(Applied(q)) : activity[s] <= activity[t]
<1> DEFINE K == {c \in Chat : row[c] = "named"}
           D == 1..Cardinality(K)
           m == IF Len(q) < MaxResumable THEN Len(q) ELSE MaxResumable
<1>1. IsFiniteSet(K) /\ Cardinality(K) \in Nat
  BY ChatFinite, FS_Subset, FS_CardinalityType
<1>2. /\ q \in [D -> K]
      /\ \A i, j \in D : i # j => q[i] # q[j]
      /\ \A i, j \in DOMAIN q : i < j => activity[q[i]] >= activity[q[j]]
  BY DEF Listings, SetToSeqs
<1>3. s \in K
  OBVIOUS
<1>4. \A c \in K : activity[c] \in Nat
  BY DEF ResumeTypeOK
<1> HIDE DEF K
<1>5. q \in Surjection(D, K)
  <2>1. q \in Injection(D, K)
    BY <1>2 DEF Injection, IsInjective
  <2>2. IsFiniteSet(D) /\ Cardinality(D) = Cardinality(K)
    BY <1>1, FS_Interval
  <2> QED BY <1>1, <2>1, <2>2, FS_Injection
<1>6. PICK k \in D : q[k] = s
  BY <1>3, <1>5 DEF Surjection
<1>7. Len(q) = Cardinality(K) /\ DOMAIN q = 1..Len(q) /\ q \in Seq(K)
  BY <1>1, <1>2
<1>8. m \in Nat /\ m <= Len(q) /\ m <= MaxResumable
  BY <1>1, <1>7, MaxResumablePos
<1>9. Len(Capped(q)) = m /\ \A i \in 1..m : Capped(q)[i] = q[i]
  BY <1>7, <1>8 DEF Capped
<1>10. Applied(q) = [i \in 1..m |-> Capped(q)[(m - i) + 1]]
  BY <1>9 DEF Applied, Reverse
<1> HIDE DEF D
<1>11. \A i \in 1..m : (m - i) + 1 \in 1..m /\ (m - ((m - i) + 1)) + 1 = i
  BY <1>8
<1> HIDE DEF m
<1>12. ToSet(Applied(q)) = {q[i] : i \in 1..m}
  <2>1. ToSet(Applied(q)) = {Applied(q)[i] : i \in 1..m}
    BY <1>10 DEF ToSet
  <2>2. \A i \in 1..m : Applied(q)[i] = q[(m - i) + 1]
    BY <1>9, <1>10, <1>11
  <2> QED BY <1>11, <2>1, <2>2
<1>13. k \in 1..Len(q) /\ k \notin 1..m
  BY <1>6, <1>7, <1>12 DEF D
<1>14. m < k /\ m = MaxResumable
  BY <1>8, <1>13, MaxResumablePos DEF m
<1>15. Len(Applied(q)) = m
  BY <1>8, <1>10
<1>16. ASSUME NEW t \in ToSet(Applied(q)) PROVE activity[s] <= activity[t]
  <2>1. PICK i \in 1..m : t = q[i]
    BY <1>12
  <2>2. i \in DOMAIN q /\ k \in DOMAIN q /\ i < k
    BY <1>7, <1>8, <1>13, <1>14
  <2>3. activity[q[i]] >= activity[q[k]] /\ q[i] \in K
    BY <1>2, <1>7, <2>2
  <2> QED BY <1>3, <1>4, <1>6, <2>1, <2>3
<1> QED BY <1>14, <1>15, <1>16

LEMMA ResumeInvNext == ResumeInv /\ [ResumeNext]_resumeVars => ResumeInv'
<1> SUFFICES ASSUME ResumeInv, [ResumeNext]_resumeVars
             PROVE  ResumeInv'
  OBVIOUS
<1>0. clock \in Nat /\ clock \in 0..MaxClock
  BY MaxClockNat DEF ResumeInv, ResumeTypeOK
<1>1. ASSUME NEW s \in Chat, Save(s)
      PROVE  ResumeInv'
  BY <1>1, SaveKeeps
<1>2. ASSUME NEW s \in Chat, Reports(s)
      PROVE  ResumeInv'
  <2>1. row' \in [Chat -> {"unnamed", "named", "archived"}]
    BY <1>2 DEF Reports, ResumeInv, ResumeTypeOK
  <2>2. activity' \in [Chat -> 0..clock]
    BY <1>0, <1>2 DEF Reports, ResumeInv, ResumeTypeOK
  <2> QED BY <1>2, <2>1, <2>2 DEF Reports, ResumeInv, ResumeTypeOK, Ordered
<1>3. ASSUME NEW s \in Chat, Archives(s)
      PROVE  ResumeInv'
  BY <1>3 DEF Archives, ResumeInv, ResumeTypeOK, Ordered
<1>4. ASSUME NEW K \in SUBSET Chat, Demotes(K)
      PROVE  ResumeInv'
  BY <1>0, <1>4 DEF Demotes, ResumeInv, ResumeTypeOK, Ordered
<1>5. CASE Resync
  <2>1. PICK q \in Listings : resumable' = Applied(q)
    BY <1>5 DEF Resync
  <2>2. inserted' = activity /\ UNCHANGED <<row, activity, clock>>
    BY <1>5 DEF Resync
  <2> QED BY <2>1, <2>2, AppliedKeys DEF ResumeInv, ResumeTypeOK, Ordered
<1>6. CASE Second
  <2>1. clock' \in 0..MaxClock /\ 0..clock \subseteq 0..clock'
    BY <1>0, <1>6, MaxClockNat DEF Second
  <2> QED BY <1>6, <2>1 DEF Second, ResumeInv, ResumeTypeOK, Ordered
<1>7. CASE UNCHANGED resumeVars
  BY <1>7 DEF resumeVars, ResumeInv, ResumeTypeOK, Ordered
<1> QED BY <1>1, <1>2, <1>3, <1>4, <1>5, <1>6, <1>7 DEF ResumeNext

-----------------------------------------------------------------------------

LEMMA SaveEvictsFirst ==
  ASSUME ResumeInv, NEW s \in ToSet(resumable) \ ToSet(resumable'),
         NEW u \in Chat, Save(u), NEW t \in ToSet(resumable)
  PROVE  inserted[s] <= inserted[t]
<1>1. resumable \in Seq(Chat) /\ Len(resumable) \in Nat
  BY DEF ResumeInv, ResumeTypeOK
<1>2. PICK i \in 1..Len(resumable) : s = resumable[i]
  BY <1>1 DEF ToSet
<1>3. PICK j \in 1..Len(resumable) : t = resumable[j]
  BY <1>1 DEF ToSet
<1>4. Evicted \in Seq(Chat)
  BY EvictedKeys
<1>5. ToSet(Evicted) \subseteq ToSet(resumable')
  <2>1. resumable' = Evicted \/ resumable' = Append(Evicted, u)
    BY DEF Save, SetKey
  <2>2. \A k \in 1..Len(Evicted) :
          k \in 1..Len(Append(Evicted, u)) /\ Append(Evicted, u)[k] = Evicted[k]
    BY <1>4
  <2>3. ToSet(Evicted) \subseteq ToSet(Append(Evicted, u))
    BY <1>4, <2>2 DEF ToSet
  <2> QED BY <2>1, <2>3
<1>6. i = 1
  <2> SUFFICES ASSUME i # 1 PROVE FALSE
    OBVIOUS
  <2>1. s \in ToSet(Evicted)
    <3>1. CASE Len(resumable) >= MaxResumable
      <4>1. Evicted = Tail(resumable) /\ resumable # <<>>
        BY <1>1, <1>2, <3>1 DEF Evicted
      <4>2. i - 1 \in 1..Len(Tail(resumable)) /\ Tail(resumable)[i - 1] = resumable[i]
        BY <1>1, <1>2, <4>1
      <4>3. Evicted[i - 1] = s /\ i - 1 \in DOMAIN Evicted
        BY <1>2, <1>4, <4>1, <4>2
      <4> QED BY <4>3 DEF ToSet
    <3>2. CASE ~(Len(resumable) >= MaxResumable)
      BY <3>2 DEF Evicted
    <3> QED BY <3>1, <3>2
  <2> QED BY <1>5, <2>1
<1>7. i <= j
  BY <1>1, <1>3, <1>6
<1> QED BY <1>2, <1>3, <1>7 DEF ResumeInv, Ordered

\* A full map loses the conversation that took its place first, however saves, reports,
\* demotions of several sessions in one second, archivings and resyncs alternate, and a
\* resync keeps the most recent of them (runSession's finally block, handleResync).
THEOREM OldestIsEvicted == ResumeSpec => EvictsFirst
<1>1. ResumeInv => SaveLosesOldest
  BY SaveEvictsFirst DEF SaveLosesOldest
<1>2. ResumeInv => ResyncLosesOldest
  <2> SUFFICES ASSUME ResumeInv, Resync
               PROVE  \A s \in Chat \ ToSet(resumable') : row[s] = "named" =>
                        /\ Len(resumable') = MaxResumable
                        /\ \A t \in ToSet(resumable') : activity[s] <= activity[t]
    BY DEF ResyncLosesOldest
  <2>1. PICK q \in Listings : resumable' = Applied(q)
    BY DEF Resync
  <2> QED BY <2>1, AppliedMostRecent DEF ResumeInv
<1>3. ResumeInv /\ [ResumeNext]_resumeVars => [SaveLosesOldest /\ ResyncLosesOldest]_resumeVars
  BY <1>1, <1>2
<1> QED BY <1>3, ResumeInvInit, ResumeInvNext, PTL DEF ResumeSpec, EvictsFirst

-----------------------------------------------------------------------------
(***************************************************************************)
(* What the log files hold.  The invariant speaks of the files fs, the     *)
(* lines n that were logged and the mishaps m.                             *)
(***************************************************************************)

Family(S) == [0..MaxFiles -> Seq(S)]

InOrder(fs) ==
  \A i, j \in 0..MaxFiles : \A k \in 1..Len(fs[i]), l \in 1..Len(fs[j]) :
    Before(i, k, j, l) => fs[i][k] < fs[j][l]

LinesOf(fs) == UNION {ToSet(fs[i]) : i \in 0..MaxFiles}

\* What is missing was in the last file once: it begins where the lines begin.
NoHole(fs, n) ==
  \E first \in 1..(n + 1) :
    /\ LinesOf(fs) = first..n
    /\ first = 1 \/ (fs[MaxFiles] # <<>> /\ fs[MaxFiles][1] = first)

LastInFile0(fs, n) == \A k \in 1..Len(fs[0]) : fs[0][k] = (n - Len(fs[0])) + k

Lines(a) == a * MaxLines

\* A file stands behind as many full ones as its number says, but for one for every
\* mishap.
FilesFull(fs, n, m) ==
  \A i \in 1..MaxFiles : fs[i] # <<>> =>
    (n + 1) - fs[i][1] >= Lines(i - m) + Len(fs[0])

FilesSmall(fs, m) ==
  /\ \A i \in 0..MaxFiles : Len(fs[i]) <= MaxLines + m
  /\ Len(fs[0]) < MaxLines + m

LogInv ==
  /\ LogTypeOK
  /\ ~doubled => InOrder(files)
  /\ ~damaged =>
       /\ fd /\ ~doubled
       /\ counted = Len(files[0])
       /\ NoHole(files, logged)
       /\ LastInFile0(files, logged)
       /\ FilesFull(files, logged, mishaps)
       /\ FilesSmall(files, mishaps)

LEMMA LogConstants ==
  /\ MaxLines \in Nat /\ MaxLines >= 1
  /\ MaxFiles \in Nat /\ MaxFiles >= 1
  /\ MaxLogged \in Nat /\ MaxMishaps \in Nat
  /\ Old = 0..(MaxFiles - 1)
BY LogNumbers, LogBounds DEF Old

\* A file more is MaxLines lines more.
LEMMA FilesTimesLines ==
  ASSUME NEW a \in Int
  PROVE  Lines(a + 1) = Lines(a) + MaxLines /\ Lines(a) \in Int
BY LogConstants DEF Lines

\* More files are more lines.
LEMMA LinesGrow ==
  ASSUME NEW a \in Int, NEW b \in Int, a <= b
  PROVE  Lines(a) <= Lines(b)
BY LogConstants DEF Lines

LEMMA FirstLine ==
  ASSUME NEW n \in Nat, NEW q \in Seq(1..n), q # <<>>
  PROVE  q[1] \in Nat
<1>1. 1 \in 1..Len(q)
  OBVIOUS
<1>2. q[1] \in 1..n
  BY <1>1
<1> QED BY <1>2

LEMMA FamilyFiles ==
  ASSUME NEW S, NEW fs \in Family(S)
  PROVE  \A o \in 0..MaxFiles : fs[o] \in Seq(S) /\ Len(fs[o]) \in Nat
BY DEF Family

LEMMA LinesElement ==
  ASSUME NEW S, NEW fs \in Family(S), NEW x
  PROVE  x \in LinesOf(fs) <=>
           \E o \in 0..MaxFiles : \E l \in 1..Len(fs[o]) : x = fs[o][l]
<1>1. \A o \in 0..MaxFiles : fs[o] \in Seq(S) /\ DOMAIN fs[o] = 1..Len(fs[o])
  BY DEF Family
<1> QED BY <1>1 DEF LinesOf, ToSet

-----------------------------------------------------------------------------
(* The renames.                                                            *)

\* What is in a file after them was there before, or in the file before it.
LEMMA RenamedFrom ==
  ASSUME NEW S, NEW fs \in Family(S), NEW R \in SUBSET Old
  PROVE  /\ Renamed(fs, R) \in Family(S)
         /\ \A i \in 0..MaxFiles : Renamed(fs, R)[i] # <<>> =>
              \E o \in 0..MaxFiles :
                /\ Renamed(fs, R)[i] = fs[o]
                /\ (o = i /\ i \notin R) \/ (o = i - 1 /\ o \in R)
<1>1. \A i \in 0..MaxFiles : i - 1 \in R => i - 1 \in 0..MaxFiles
  BY LogConstants
<1>2. \A i \in 0..MaxFiles : fs[i] \in Seq(S) /\ <<>> \in Seq(S)
  BY DEF Family
<1>3. Renamed(fs, R) \in Family(S)
  BY <1>1, <1>2 DEF Renamed, Family
<1>4. ASSUME NEW i \in 0..MaxFiles, Renamed(fs, R)[i] # <<>>
      PROVE  \E o \in 0..MaxFiles :
               /\ Renamed(fs, R)[i] = fs[o]
               /\ (o = i /\ i \notin R) \/ (o = i - 1 /\ o \in R)
  BY <1>1, <1>4 DEF Renamed
<1> QED BY <1>3, <1>4

\* Whatever renames fail, the order stays.
LEMMA RenamedInOrder ==
  ASSUME NEW S, NEW fs \in Family(S), NEW R \in SUBSET Old, InOrder(fs)
  PROVE  InOrder(Renamed(fs, R))
<1> DEFINE new == Renamed(fs, R)
<1> SUFFICES ASSUME NEW i \in 0..MaxFiles, NEW j \in 0..MaxFiles,
                    NEW k \in 1..Len(new[i]), NEW l \in 1..Len(new[j]),
                    Before(i, k, j, l)
             PROVE  new[i][k] < new[j][l]
  BY DEF InOrder
<1>1. /\ new \in Family(S)
      /\ \A f \in 0..MaxFiles : new[f] # <<>> =>
           \E o \in 0..MaxFiles :
             /\ new[f] = fs[o]
             /\ (o = f /\ f \notin R) \/ (o = f - 1 /\ o \in R)
  BY RenamedFrom
<1> HIDE DEF new
<1>2. new[i] # <<>> /\ new[j] # <<>>
  <2>1. Len(<<>>) = 0
    OBVIOUS
  <2> QED BY <2>1
<1>3. PICK o \in 0..MaxFiles : /\ new[i] = fs[o]
                               /\ (o = i /\ i \notin R) \/ (o = i - 1 /\ o \in R)
  BY <1>1, <1>2
<1>4. PICK p \in 0..MaxFiles : /\ new[j] = fs[p]
                               /\ (p = j /\ j \notin R) \/ (p = j - 1 /\ p \in R)
  BY <1>1, <1>2
<1>5. CASE i = j
  <2>1. k < l /\ new[j] = fs[o]
    BY <1>3, <1>5 DEF Before
  <2>2. Before(o, k, o, l)
    BY <2>1 DEF Before
  <2> QED BY <1>3, <2>1, <2>2 DEF InOrder
<1>6. CASE i > j
  <2>1. o >= p
    BY <1>3, <1>4, <1>6, LogConstants
  <2>2. o # p
    BY <1>3, <1>4, <1>6, LogConstants
  <2>3. Before(o, k, p, l)
    BY <2>1, <2>2, LogConstants DEF Before
  <2> QED BY <1>3, <1>4, <2>3 DEF InOrder
<1> QED BY <1>5, <1>6 DEF Before

\* All renames from the oldest file down to file i.
LEMMA RenamedDownTo ==
  ASSUME NEW S, NEW fs \in Family(S), NEW i \in 0..MaxFiles, NEW k \in 0..MaxFiles
  PROVE  Renamed(fs, {j \in Old : j >= i})[k] =
           IF k > i /\ fs[k - 1] # <<>> THEN fs[k - 1]
           ELSE IF k >= i /\ k < MaxFiles THEN <<>> ELSE fs[k]
BY LogConstants DEF Renamed, Old

\* They lose the last file, if they replace it, and nothing else.
LEMMA RenamedNoHole ==
  ASSUME NEW S, NEW fs \in Family(S), NEW i \in 0..MaxFiles, NEW n \in Nat,
         InOrder(fs), NoHole(fs, n)
  PROVE  NoHole(Renamed(fs, {j \in Old : j >= i}), n)
<1> DEFINE R == {j \in Old : j >= i}
           new == Renamed(fs, R)
<1> SUFFICES NoHole(new, n)
  OBVIOUS
<1>0. R \in SUBSET Old
  OBVIOUS
<1> HIDE DEF R
<1>1. new \in Family(S)
  BY <1>0, RenamedFrom
<1>2. \A k \in 0..MaxFiles :
        new[k] = IF k > i /\ fs[k - 1] # <<>> THEN fs[k - 1]
                 ELSE IF k >= i /\ k < MaxFiles THEN <<>> ELSE fs[k]
  BY RenamedDownTo DEF R
<1>6. \A k \in 0..MaxFiles : new[k] # <<>> => \E o \in 0..MaxFiles : new[k] = fs[o]
  BY <1>0, RenamedFrom
<1> HIDE DEF new
<1>3. PICK first \in 1..(n + 1) :
        /\ LinesOf(fs) = first..n
        /\ first = 1 \/ (fs[MaxFiles] # <<>> /\ fs[MaxFiles][1] = first)
  BY DEF NoHole
<1>4. MaxFiles \in 0..MaxFiles /\ MaxFiles - 1 \in 0..MaxFiles
  BY LogConstants
\* A file that is not the last one is somewhere, and nothing is new.
<1>5. \A o \in 0..MaxFiles : o < MaxFiles /\ fs[o] # <<>> =>
        \E k \in 0..MaxFiles : new[k] = fs[o]
  <2> TAKE o \in 0..MaxFiles
  <2> HAVE o < MaxFiles /\ fs[o] # <<>>
  <2>1. CASE o >= i
    <3>1. o + 1 \in 0..MaxFiles /\ o + 1 > i /\ (o + 1) - 1 = o
      BY <2>1, LogConstants
    <3>2. new[o + 1] = fs[o]
      BY <1>2, <3>1
    <3> QED BY <3>1, <3>2
  <2>2. CASE ~(o >= i)
    BY <1>2, <2>2
  <2> QED BY <2>1, <2>2
<1>7. \A o \in 0..MaxFiles : \A l \in 1..Len(fs[o]) : fs[o] # <<>>
  OBVIOUS
<1>8. \A o \in 0..MaxFiles : \A l \in 1..Len(new[o]) : new[o] # <<>>
  OBVIOUS
<1>9. \A x : x \in LinesOf(new) => x \in LinesOf(fs)
  <2> TAKE x
  <2> HAVE x \in LinesOf(new)
  <2>1. PICK k \in 0..MaxFiles : \E l \in 1..Len(new[k]) : x = new[k][l]
    BY <1>1, LinesElement
  <2>2. PICK o \in 0..MaxFiles : new[k] = fs[o]
    BY <1>6, <1>8, <2>1
  <2> QED BY <2>1, <2>2, LinesElement
<1>10. \A o \in 0..MaxFiles : \A l \in 1..Len(fs[o]) :
         o < MaxFiles => fs[o][l] \in LinesOf(new)
  <2> TAKE o \in 0..MaxFiles
  <2> TAKE l \in 1..Len(fs[o])
  <2> HAVE o < MaxFiles
  <2>1. PICK k \in 0..MaxFiles : new[k] = fs[o]
    BY <1>5, <1>7
  <2> QED BY <1>1, <2>1, LinesElement
<1>11. CASE new[MaxFiles] = fs[MaxFiles]
  <2>1. ASSUME NEW x, x \in LinesOf(fs)
        PROVE  x \in LinesOf(new)
    <3>1. PICK o \in 0..MaxFiles : \E l \in 1..Len(fs[o]) : x = fs[o][l]
      BY <2>1, LinesElement
    <3>2. CASE o = MaxFiles
      BY <1>1, <1>4, <1>11, <3>1, <3>2, LinesElement
    <3>3. CASE o < MaxFiles
      BY <1>10, <3>1, <3>3
    <3> QED BY <3>2, <3>3, LogConstants
  <2>2. LinesOf(new) = LinesOf(fs)
    BY <1>9, <2>1
  <2> QED BY <1>3, <1>11, <2>2 DEF NoHole
<1>12. CASE new[MaxFiles] = fs[MaxFiles - 1] /\ fs[MaxFiles - 1] # <<>> /\ i < MaxFiles
  <2> DEFINE f == fs[MaxFiles - 1][1]
  <2>1. fs[MaxFiles - 1] \in Seq(S) /\ 1 \in 1..Len(fs[MaxFiles - 1])
    BY <1>4, <1>12 DEF Family
  <2>2. f \in LinesOf(fs)
    BY <1>4, <2>1, LinesElement
  <2>3. f \in first..n /\ f \in 1..(n + 1)
    BY <1>3, <2>2
  <2>4. ASSUME NEW x \in LinesOf(new)
        PROVE  x \in f..n
    <3>1. x \in first..n
      BY <1>3, <1>9, <2>4
    <3>2. PICK k \in 0..MaxFiles : \E l \in 1..Len(new[k]) : x = new[k][l]
      BY <1>1, <2>4, LinesElement
    <3>3. PICK l \in 1..Len(new[k]) : x = new[k][l]
      BY <3>2
    <3>4. PICK o \in 0..MaxFiles : new[k] = fs[o] /\ o < MaxFiles
      <4>1. CASE k = MaxFiles
        BY <1>4, <1>12, <4>1, LogConstants
      <4>2. CASE k # MaxFiles
        <5>1. k < MaxFiles /\ new[k] # <<>>
          BY <1>8, <3>2, <4>2, LogConstants
        <5>2. \/ k > i /\ new[k] = fs[k - 1]
              \/ new[k] = fs[k]
          BY <1>2, <5>1
        <5>3. k > i => k - 1 \in 0..MaxFiles /\ k - 1 < MaxFiles
          BY <5>1, LogConstants
        <5> QED BY <5>1, <5>2, <5>3
      <4> QED BY <4>1, <4>2
    <3>5. x = f \/ f < x
      <4>1. CASE o = MaxFiles - 1 /\ l = 1
        BY <3>3, <3>4, <4>1
      <4>2. CASE ~(o = MaxFiles - 1 /\ l = 1)
        <5>1. fs[o] \in Seq(S) /\ l \in 1..Len(fs[o])
          BY <3>3, <3>4 DEF Family
        <5>2. Before(MaxFiles - 1, 1, o, l)
          BY <3>4, <4>2, <5>1, LogConstants DEF Before
        <5> QED BY <1>4, <2>1, <3>3, <3>4, <5>1, <5>2 DEF InOrder
      <4> QED BY <4>1, <4>2
    <3> QED BY <2>3, <3>1, <3>5
  <2>5. ASSUME NEW x \in f..n
        PROVE  x \in LinesOf(new)
    <3>1. x \in LinesOf(fs)
      BY <1>3, <2>3
    <3>2. PICK o \in 0..MaxFiles : \E l \in 1..Len(fs[o]) : x = fs[o][l]
      BY <3>1, LinesElement
    <3>3. CASE o < MaxFiles
      BY <1>10, <3>2, <3>3
    <3>4. CASE o = MaxFiles
      <4>1. PICK l \in 1..Len(fs[o]) : x = fs[o][l]
        BY <3>2
      <4>2. Before(o, l, MaxFiles - 1, 1)
        BY <3>4, LogConstants DEF Before
      <4>3. x < f
        BY <1>4, <2>1, <4>1, <4>2 DEF InOrder
      <4> QED BY <2>3, <4>3
    <3> QED BY <3>3, <3>4, LogConstants
  <2>6. LinesOf(new) = f..n
    BY <2>4, <2>5
  <2> QED BY <1>12, <2>3, <2>6 DEF NoHole
<1>13. \/ new[MaxFiles] = fs[MaxFiles]
       \/ new[MaxFiles] = fs[MaxFiles - 1] /\ fs[MaxFiles - 1] # <<>> /\ i < MaxFiles
  BY <1>2, <1>4
<1> QED BY <1>11, <1>12, <1>13
\* A file comes after one more that is full, or a kill made a gap.
LEMMA RenamedFull ==
  ASSUME NEW n \in Nat, NEW fs \in Family(1..n), NEW i \in 0..MaxFiles,
         NEW m \in Nat, NEW m2 \in Nat, m2 >= m, i > 0 => m2 >= m + 1,
         LastInFile0(fs, n), FilesFull(fs, n, m), Len(fs[0]) >= MaxLines
  PROVE  /\ LastInFile0(Renamed(fs, {j \in Old : j >= i}), n)
         /\ FilesFull(Renamed(fs, {j \in Old : j >= i}), n, m2)
<1> DEFINE new == Renamed(fs, {j \in Old : j >= i})
<1> SUFFICES LastInFile0(new, n) /\ FilesFull(new, n, m2)
  OBVIOUS
<1>1. \A k \in 0..MaxFiles :
        new[k] = IF k > i /\ fs[k - 1] # <<>> THEN fs[k - 1]
                 ELSE IF k >= i /\ k < MaxFiles THEN <<>> ELSE fs[k]
  BY RenamedDownTo
<1> HIDE DEF new
<1>2. \A o \in 0..MaxFiles : fs[o] \in Seq(1..n) /\ Len(fs[o]) \in Nat
  BY DEF Family
<1>3. 0 \in 0..MaxFiles
  BY LogConstants
<1>4. new[0] = IF i = 0 THEN <<>> ELSE fs[0]
  BY <1>1, <1>3, LogConstants
<1>5. Len(new[0]) = IF i = 0 THEN 0 ELSE Len(fs[0])
  BY <1>4
<1>6. LastInFile0(new, n)
  <2>1. CASE i = 0
    <3>1. 1..Len(new[0]) = {}
      BY <1>5, <2>1
    <3> QED BY <3>1 DEF LastInFile0
  <2>2. CASE i # 0
    BY <1>4, <2>2 DEF LastInFile0
  <2> QED BY <2>1, <2>2
<1>7. ASSUME NEW k \in 1..MaxFiles, new[k] # <<>>
      PROVE  (n + 1) - new[k][1] >= Lines(k - m2) + Len(new[0])
  <2>0. k \in 0..MaxFiles /\ k - 1 \in 0..MaxFiles /\ k \in Int
    BY LogConstants
  <2>1. CASE k > i /\ fs[k - 1] # <<>> /\ k - 1 = 0
    <3>1. new[k] = fs[0] /\ i = 0 /\ k = 1
      BY <1>1, <2>0, <2>1
    <3>2. fs[0][1] = (n - Len(fs[0])) + 1
      <4>1. 1 \in 1..Len(fs[0])
        BY <1>2, <1>3, LogConstants
      <4> QED BY <4>1 DEF LastInFile0
    <3>4. Lines(1 - m2) <= MaxLines /\ Lines(1 - m2) \in Int
      <4>1. Lines(1 - m2) <= Lines(1) /\ 1 - m2 \in Int
        BY LinesGrow
      <4>2. Lines(1) = MaxLines
        BY LogConstants DEF Lines
      <4> QED BY <4>1, <4>2, FilesTimesLines
    <3>5. Len(new[0]) = 0 /\ Lines(k - m2) = Lines(1 - m2)
      BY <1>5, <3>1
    <3>6. (n + 1) - new[k][1] = Len(fs[0]) /\ Len(fs[0]) \in Nat
      BY <1>2, <1>3, <3>1, <3>2
    <3> QED BY <3>4, <3>5, <3>6, LogConstants
  <2>2. CASE k > i /\ fs[k - 1] # <<>> /\ k - 1 # 0
    <3>1. new[k] = fs[k - 1] /\ k - 1 \in 1..MaxFiles
      BY <1>1, <2>0, <2>2
    <3>2. (n + 1) - fs[k - 1][1] >= Lines((k - 1) - m) + Len(fs[0])
      BY <2>2, <3>1 DEF FilesFull
    <3>3. fs[k - 1][1] \in Nat
      <4>1. fs[k - 1] \in Seq(1..n) /\ fs[k - 1] # <<>>
        BY <1>2, <2>0, <2>2
      <4> QED BY <4>1, FirstLine
    <3>4. CASE i = 0
      <4>1. Lines(((k - 1) - m) + 1) = Lines((k - 1) - m) + MaxLines
        BY <2>0, FilesTimesLines
      <4>2. Lines(k - m2) <= Lines(((k - 1) - m) + 1)
        BY <2>0, LinesGrow
      <4>3. k - m2 \in Int /\ (k - 1) - m \in Int
        BY <2>0
      <4>4. Lines(k - m2) \in Int /\ Lines((k - 1) - m) \in Int
        BY <4>3, FilesTimesLines
      <4>5. Len(new[0]) = 0 /\ Len(fs[0]) \in Nat
        BY <1>2, <1>3, <1>5, <3>4
      <4>6. new[k][1] = fs[k - 1][1]
        BY <3>1
      <4>7. Lines(k - m2) <= Lines((k - 1) - m) + MaxLines
        BY <4>1, <4>2
      <4> DEFINE x == fs[k - 1][1]
                 a == Len(fs[0])
                 u == Lines((k - 1) - m)
                 v == Lines(k - m2)
      <4>8. /\ x \in Nat /\ a \in Nat /\ u \in Int /\ v \in Int
            /\ v <= u + MaxLines /\ a >= MaxLines
            /\ (n + 1) - x >= u + a
        BY <3>2, <3>3, <4>4, <4>5, <4>7
      <4> HIDE DEF x, a, u, v
      <4>9. (n + 1) - x >= v + 0
        BY <4>8, LogConstants
      <4> QED BY <4>5, <4>6, <4>9 DEF x, v
    <3>5. CASE i > 0
      <4>1. Lines(k - m2) <= Lines((k - 1) - m)
        BY <2>0, <3>5, LinesGrow
      <4>2. k - m2 \in Int /\ (k - 1) - m \in Int
        BY <2>0
      <4>3. Lines(k - m2) \in Int /\ Lines((k - 1) - m) \in Int
        BY <4>2, FilesTimesLines
      <4>4. Len(new[0]) = Len(fs[0]) /\ Len(fs[0]) \in Nat
        BY <1>2, <1>3, <1>5, <3>5
      <4>5. new[k][1] = fs[k - 1][1]
        BY <3>1
      <4> DEFINE x == fs[k - 1][1]
                 a == Len(fs[0])
                 u == Lines((k - 1) - m)
                 v == Lines(k - m2)
      <4>6. /\ x \in Nat /\ a \in Nat /\ u \in Int /\ v \in Int /\ v <= u
            /\ (n + 1) - x >= u + a
        BY <3>2, <3>3, <4>1, <4>3, <4>4
      <4> HIDE DEF x, a, u, v
      <4>7. (n + 1) - x >= v + a
        BY <4>6
      <4> QED BY <4>4, <4>5, <4>7 DEF x, a, v
    <3> QED BY <3>4, <3>5
  <2>3. CASE ~(k > i /\ fs[k - 1] # <<>>)
    <3>1. new[k] = fs[k]
      BY <1>1, <1>7, <2>0, <2>3
    <3>2. (n + 1) - fs[k][1] >= Lines(k - m) + Len(fs[0])
      BY <1>7, <3>1 DEF FilesFull
    <3>3. fs[k][1] \in Nat
      <4>1. fs[k] \in Seq(1..n) /\ fs[k] # <<>>
        BY <1>2, <1>7, <2>0, <3>1
      <4> QED BY <4>1, FirstLine
    <3>4. Lines(k - m2) <= Lines(k - m)
      BY <2>0, LinesGrow
    <3>5. k - m2 \in Int /\ k - m \in Int
      BY <2>0
    <3>6. Lines(k - m2) \in Int /\ Lines(k - m) \in Int
      BY <3>5, FilesTimesLines
    <3>7. Len(new[0]) <= Len(fs[0]) /\ Len(fs[0]) \in Nat /\ Len(new[0]) \in Nat
      BY <1>2, <1>3, <1>5
    <3>8. new[k][1] = fs[k][1]
      BY <3>1
    <3> DEFINE x == fs[k][1]
               a == Len(fs[0])
               b == Len(new[0])
               u == Lines(k - m)
               v == Lines(k - m2)
    <3>9. /\ x \in Nat /\ a \in Nat /\ b \in Nat /\ b <= a
          /\ u \in Int /\ v \in Int /\ v <= u
          /\ (n + 1) - x >= u + a
      BY <3>2, <3>3, <3>4, <3>6, <3>7
    <3> HIDE DEF x, a, b, u, v
    <3>10. (n + 1) - x >= v + b
      BY <3>9
    <3> QED BY <3>8, <3>10 DEF x, b, v
  <2> QED BY <2>1, <2>2, <2>3
<1>8. FilesFull(new, n, m2)
  BY <1>7 DEF FilesFull
<1> QED BY <1>6, <1>8

LEMMA RenamedSmall ==
  ASSUME NEW S, NEW fs \in Family(S), NEW i \in 0..MaxFiles,
         NEW m \in Nat, NEW m2 \in Nat, m2 >= m, i > 0 => m2 >= m + 1,
         \A o \in 0..MaxFiles : Len(fs[o]) <= MaxLines + m
  PROVE  FilesSmall(Renamed(fs, {j \in Old : j >= i}), m2)
<1> DEFINE new == Renamed(fs, {j \in Old : j >= i})
<1> SUFFICES FilesSmall(new, m2)
  OBVIOUS
<1>1. \A k \in 0..MaxFiles :
        new[k] = IF k > i /\ fs[k - 1] # <<>> THEN fs[k - 1]
                 ELSE IF k >= i /\ k < MaxFiles THEN <<>> ELSE fs[k]
  BY RenamedDownTo
<1> HIDE DEF new
<1>2. \A o \in 0..MaxFiles : Len(fs[o]) \in Nat
  BY DEF Family
<1>3. ASSUME NEW k \in 0..MaxFiles
      PROVE  Len(new[k]) <= MaxLines + m2
  <2>1. k > i => k - 1 \in 0..MaxFiles
    BY LogConstants
  <2>2. \/ k > i /\ new[k] = fs[k - 1]
        \/ new[k] = <<>>
        \/ new[k] = fs[k]
    BY <1>1
  <2>3. CASE new[k] = <<>>
    BY <2>3, LogConstants
  <2>4. ASSUME NEW o \in 0..MaxFiles, new[k] = fs[o]
        PROVE  Len(new[k]) <= MaxLines + m2
    <3>1. Len(new[k]) \in Nat /\ Len(new[k]) <= MaxLines + m
      BY <1>2, <2>4
    <3> QED BY <3>1, LogConstants
  <2> QED BY <2>1, <2>2, <2>3, <2>4
<1>4. 0 \in 0..MaxFiles
  BY LogConstants
<1>5. new[0] = IF i = 0 THEN <<>> ELSE fs[0]
  BY <1>1, <1>4, LogConstants
<1>6. Len(new[0]) < MaxLines + m2
  BY <1>2, <1>4, <1>5, LogConstants
<1> QED BY <1>3, <1>6 DEF FilesSmall

-----------------------------------------------------------------------------
(* A line is appended.                                                     *)

Grows(fs, n, g) == g = [fs EXCEPT ![0] = Append(@, n + 1)]

LEMMA GrownFiles ==
  ASSUME NEW n \in Nat, NEW fs \in Family(1..n), NEW g,
         Grows(fs, n, g)
  PROVE  /\ g \in Family(1..(n + 1))
         /\ g[0] = Append(fs[0], n + 1)
         /\ Len(g[0]) = Len(fs[0]) + 1
         /\ g[0][Len(fs[0]) + 1] = n + 1
         /\ \A k \in 1..Len(fs[0]) : g[0][k] = fs[0][k]
         /\ \A i \in 1..MaxFiles : g[i] = fs[i]
<1>1. 0 \in 0..MaxFiles /\ DOMAIN fs = 0..MaxFiles
  BY LogConstants DEF Family
<1> USE DEF Grows
<1>2. g[0] = Append(fs[0], n + 1) /\ \A i \in 1..MaxFiles : g[i] = fs[i]
  BY <1>1
<1>3. \A i \in 0..MaxFiles : fs[i] \in Seq(1..(n + 1))
  <2>1. 1..n \subseteq 1..(n + 1)
    OBVIOUS
  <2>2. \A i \in 0..MaxFiles : fs[i] \in Seq(1..n)
    BY DEF Family
  <2> QED BY <2>1, <2>2
<1>4. Append(fs[0], n + 1) \in Seq(1..(n + 1))
  BY <1>1, <1>3
<1>5. g \in Family(1..(n + 1))
  BY <1>1, <1>3, <1>4 DEF Family
<1> QED BY <1>1, <1>2, <1>3, <1>5

LEMMA GrownInOrder ==
  ASSUME NEW n \in Nat, NEW fs \in Family(1..n), NEW g,
         Grows(fs, n, g),
         InOrder(fs)
  PROVE  InOrder(g)
<1> SUFFICES ASSUME NEW i \in 0..MaxFiles, NEW j \in 0..MaxFiles,
                    NEW k \in 1..Len(g[i]), NEW l \in 1..Len(g[j]),
                    Before(i, k, j, l)
             PROVE  g[i][k] < g[j][l]
  BY Zenon DEF InOrder
<1>1. \A o \in 0..MaxFiles : fs[o] \in Seq(1..n) /\ Len(fs[o]) \in Nat
  BY FamilyFiles, Zenon
<1>2. \A o \in 0..MaxFiles : o = 0 \/ (o \in 1..MaxFiles /\ g[o] = fs[o])
  <2>1. \A o \in 0..MaxFiles : o = 0 \/ o \in 1..MaxFiles
    BY LogConstants
  <2>2. \A o \in 1..MaxFiles : g[o] = fs[o]
    BY GrownFiles
  <2> QED BY <2>1, <2>2
<1>3. 0 \in 0..MaxFiles
  BY LogConstants
\* Only the new line is not one of before.
<1>4. \A o \in 0..MaxFiles : \A q \in 1..Len(g[o]) :
        \/ o = 0 /\ q = Len(fs[0]) + 1 /\ g[o][q] = n + 1
        \/ q \in 1..Len(fs[o]) /\ g[o][q] = fs[o][q]
  <2> TAKE o \in 0..MaxFiles
  <2> TAKE q \in 1..Len(g[o])
  <2>1. CASE g[o] = fs[o]
    BY <2>1
  <2>2. CASE o = 0
    <3>1. Len(g[0]) = Len(fs[0]) + 1 /\ g[0][Len(fs[0]) + 1] = n + 1
      BY GrownFiles
    <3>2. q \in 1..(Len(fs[0]) + 1) /\ Len(fs[0]) \in Nat
      <4>1. q \in 1..Len(g[0])
        BY <2>2
      <4> QED BY <1>1, <1>3, <3>1, <4>1
    <3>3. q = Len(fs[0]) + 1 \/ q \in 1..Len(fs[0])
      <4> DEFINE a == Len(fs[0])
      <4>1. q \in 1..(a + 1) /\ a \in Nat
        BY <3>2
      <4> HIDE DEF a
      <4>2. q = a + 1 \/ q \in 1..a
        BY <4>1
      <4> QED BY <4>2 DEF a
    <3>4. CASE q = Len(fs[0]) + 1
      BY <2>2, <3>1, <3>4
    <3>5. CASE q \in 1..Len(fs[0])
      <4>1. g[0][q] = fs[0][q]
        BY <3>5, GrownFiles
      <4> QED BY <2>2, <3>5, <4>1
    <3> QED BY <3>3, <3>4, <3>5
  <2> QED BY <1>2, <2>1, <2>2
<1>5. CASE k \in 1..Len(fs[i]) /\ l \in 1..Len(fs[j])
  <2>0. Len(fs[0]) + 1 \notin 1..Len(fs[0])
    BY <1>1, <1>3
  <2>1. g[i][k] = fs[i][k]
    BY <1>4, <1>5, <2>0
  <2>2. g[j][l] = fs[j][l]
    BY <1>4, <1>5, <2>0
  <2> QED BY <1>5, <2>1, <2>2 DEF InOrder
<1>6. CASE j = 0 /\ l = Len(fs[0]) + 1 /\ g[j][l] = n + 1
  <2>1. k \in 1..Len(fs[i]) /\ g[i][k] = fs[i][k]
    <3>1. ~(i = 0 /\ k = Len(fs[0]) + 1)
      BY <1>1, <1>3, <1>6 DEF Before
    <3> QED BY <1>4, <3>1
  <2>2. fs[i][k] \in 1..n
    <3>1. fs[i] \in Seq(1..n) /\ k \in 1..Len(fs[i])
      BY <1>1, <2>1
    <3> QED BY <3>1
  <2> QED BY <1>6, <2>1, <2>2
<1>7. CASE i = 0 /\ k = Len(fs[0]) + 1
  <2>1. j = 0 /\ l > k
    BY <1>7 DEF Before
  <2>2. l <= Len(fs[0]) + 1
    BY <2>1, GrownFiles
  <2> QED BY <1>1, <1>3, <1>7, <2>1, <2>2
<1> QED BY <1>4, <1>5, <1>6, <1>7

LEMMA GrownNoHole ==
  ASSUME NEW n \in Nat, NEW fs \in Family(1..n), NEW g,
         Grows(fs, n, g),
         NoHole(fs, n)
  PROVE  NoHole(g, n + 1)
<1>1. PICK first \in 1..(n + 1) :
        /\ LinesOf(fs) = first..n
        /\ first = 1 \/ (fs[MaxFiles] # <<>> /\ fs[MaxFiles][1] = first)
  BY DEF NoHole
<1>2. g \in Family(1..(n + 1))
  BY GrownFiles
<1>3. 0 \in 0..MaxFiles /\ MaxFiles \in 1..MaxFiles
  BY LogConstants
<1>4. Len(fs[0]) \in Nat
  BY <1>3 DEF Family
<1>5. \A o \in 0..MaxFiles : o = 0 \/ (o \in 1..MaxFiles /\ g[o] = fs[o])
  BY GrownFiles
<1>6. ASSUME NEW x
      PROVE  x \in LinesOf(g) <=> (x \in LinesOf(fs) \/ x = n + 1)
  <2>1. ASSUME x \in LinesOf(g)
        PROVE  x \in LinesOf(fs) \/ x = n + 1
    <3>1. PICK o \in 0..MaxFiles : \E l \in 1..Len(g[o]) : x = g[o][l]
      BY <1>2, <2>1, LinesElement
    <3>2. PICK l \in 1..Len(g[o]) : x = g[o][l]
      BY <3>1
    <3>3. CASE o = 0
      <4>1. l = Len(fs[0]) + 1 \/ l \in 1..Len(fs[0])
        BY <1>4, <3>2, <3>3, GrownFiles
      <4>2. CASE l = Len(fs[0]) + 1
        BY <3>2, <3>3, <4>2, GrownFiles
      <4>3. CASE l \in 1..Len(fs[0])
        <5>1. x = fs[0][l]
          BY <3>2, <3>3, <4>3, GrownFiles
        <5> QED BY <1>3, <4>3, <5>1, LinesElement
      <4> QED BY <4>1, <4>2, <4>3
    <3>4. CASE g[o] = fs[o]
      BY <3>1, <3>4, LinesElement
    <3> QED BY <1>5, <3>3, <3>4
  <2>2. ASSUME x \in LinesOf(fs)
        PROVE  x \in LinesOf(g)
    <3>1. PICK o \in 0..MaxFiles : \E l \in 1..Len(fs[o]) : x = fs[o][l]
      BY <2>2, LinesElement
    <3>2. PICK l \in 1..Len(fs[o]) : x = fs[o][l]
      BY <3>1
    <3>3. CASE o = 0
      <4>1. l \in 1..Len(g[0]) /\ g[0][l] = x
        BY <1>4, <3>2, <3>3, GrownFiles
      <4> QED BY <1>2, <1>3, <4>1, LinesElement
    <3>4. CASE g[o] = fs[o]
      BY <1>2, <3>1, <3>4, LinesElement
    <3> QED BY <1>5, <3>3, <3>4
  <2>3. ASSUME x = n + 1
        PROVE  x \in LinesOf(g)
    <3>1. Len(fs[0]) + 1 \in 1..Len(g[0]) /\ g[0][Len(fs[0]) + 1] = x
      BY <1>4, <2>3, GrownFiles
    <3> QED BY <1>2, <1>3, <3>1, LinesElement
  <2> QED BY <2>1, <2>2, <2>3
<1>7. LinesOf(g) = first..(n + 1)
  <2>1. \A x : x \in LinesOf(g) <=> x \in first..(n + 1)
    <3> TAKE x
    <3>1. x \in first..(n + 1) <=> (x \in first..n \/ x = n + 1)
      OBVIOUS
    <3> QED BY <1>1, <1>6, <3>1
  <2> QED BY <2>1
<1>8. g[MaxFiles] = fs[MaxFiles]
  BY <1>3, GrownFiles
<1>9. first \in 1..((n + 1) + 1)
  OBVIOUS
<1> QED BY <1>1, <1>7, <1>8, <1>9 DEF NoHole

LEMMA GrownFull ==
  ASSUME NEW n \in Nat, NEW fs \in Family(1..n), NEW g,
         Grows(fs, n, g), NEW m \in Nat,
         LastInFile0(fs, n), FilesFull(fs, n, m)
  PROVE  LastInFile0(g, n + 1) /\ FilesFull(g, n + 1, m)
<1>1. Len(fs[0]) \in Nat
  BY LogConstants DEF Family
<1>2. LastInFile0(g, n + 1)
  <2> SUFFICES ASSUME NEW k \in 1..Len(g[0])
               PROVE  g[0][k] = ((n + 1) - Len(g[0])) + k
    BY DEF LastInFile0
  <2>1. Len(g[0]) = Len(fs[0]) + 1 /\ g[0][Len(fs[0]) + 1] = n + 1
    BY GrownFiles
  <2>2. CASE k = Len(fs[0]) + 1
    <3>1. g[0][k] = n + 1
      BY <2>1, <2>2
    <3>2. ((n + 1) - Len(g[0])) + k = n + 1
      <4> DEFINE a == Len(fs[0])
                 b == Len(g[0])
      <4>1. a \in Nat /\ b = a + 1 /\ k = a + 1
        BY <1>1, <2>1, <2>2
      <4> HIDE DEF a, b
      <4>2. ((n + 1) - b) + k = n + 1
        BY <4>1
      <4> QED BY <4>2 DEF b
    <3> QED BY <3>1, <3>2
  <2>3. CASE k # Len(fs[0]) + 1
    <3>1. k \in 1..Len(fs[0])
      BY <1>1, <2>1, <2>3
    <3>2. g[0][k] = fs[0][k]
      BY <3>1, GrownFiles
    <3>3. fs[0][k] = (n - Len(fs[0])) + k
      BY <3>1 DEF LastInFile0
    <3> QED BY <1>1, <2>1, <3>1, <3>2, <3>3
  <2> QED BY <2>2, <2>3
<1>3. ASSUME NEW i \in 1..MaxFiles, g[i] # <<>>
      PROVE  ((n + 1) + 1) - g[i][1] >= Lines(i - m) + Len(g[0])
  <2>1. g[i] = fs[i]
    BY GrownFiles
  <2>2. (n + 1) - fs[i][1] >= Lines(i - m) + Len(fs[0])
    BY <1>3, <2>1 DEF FilesFull
  <2>3. fs[i][1] \in Nat
    <3>1. fs[i] \in Seq(1..n) /\ fs[i] # <<>>
      BY <1>3, <2>1 DEF Family
    <3>2. 1 \in 1..Len(fs[i])
      BY <3>1
    <3> QED BY <3>1, <3>2
  <2>4. Lines(i - m) \in Int
    <3>1. i - m \in Int
      BY LogConstants
    <3> QED BY <3>1, FilesTimesLines
  <2>5. Len(g[0]) = Len(fs[0]) + 1
    BY GrownFiles
  <2> DEFINE x == fs[i][1]
             a == Len(fs[0])
             u == Lines(i - m)
  <2>6. x \in Nat /\ a \in Nat /\ u \in Int /\ (n + 1) - x >= u + a
    BY <1>1, <2>2, <2>3, <2>4
  <2> HIDE DEF x, a, u
  <2>7. ((n + 1) + 1) - x >= u + (a + 1)
    BY <2>6
  <2> QED BY <2>1, <2>5, <2>7 DEF x, a, u
<1> QED BY <1>2, <1>3 DEF FilesFull
-----------------------------------------------------------------------------
(* The invariant.                                                          *)

LEMMA LogInvInit == LogInit => LogInv
<1> SUFFICES ASSUME LogInit PROVE LogInv
  OBVIOUS
<1>1. \A i \in 0..MaxFiles : files[i] = <<>>
  BY DEF LogInit
<1>2. 0 \in 0..MaxFiles /\ MaxFiles \in 0..MaxFiles
  BY LogConstants
<1>3. files \in Family(1..logged)
  BY DEF LogInit, Family
<1>4. LogTypeOK
  <2>1. counted \in Nat /\ logged \in 0..MaxLogged /\ mishaps \in 0..MaxMishaps
    BY LogConstants DEF LogInit
  <2>2. fd \in BOOLEAN /\ damaged \in BOOLEAN /\ doubled \in BOOLEAN
    BY DEF LogInit
  <2> QED BY <1>3, <2>1, <2>2 DEF LogTypeOK, Family
<1>5. \A i \in 0..MaxFiles : Len(files[i]) = 0 /\ 1..Len(files[i]) = {}
  BY <1>1
<1>6. InOrder(files) /\ LastInFile0(files, logged)
  BY <1>2, <1>5 DEF InOrder, LastInFile0
<1>7. NoHole(files, logged)
  <2>1. LinesOf(files) = {}
    BY <1>3, <1>5, LinesElement
  <2>2. logged = 0 /\ 1 \in 1..(logged + 1) /\ 1..logged = {}
    BY DEF LogInit
  <2> QED BY <2>1, <2>2 DEF NoHole
<1>8. FilesFull(files, logged, mishaps)
  BY <1>1, LogConstants DEF FilesFull
<1>9. FilesSmall(files, mishaps)
  BY <1>2, <1>5, LogConstants DEF FilesSmall, LogInit
<1>10. fd /\ ~doubled /\ counted = Len(files[0])
  BY <1>2, <1>5 DEF LogInit
<1> QED BY <1>4, <1>6, <1>7, <1>8, <1>9, <1>10 DEF LogInv

\* The files that a writeSync leaves.
LEMMA GrownInv ==
  ASSUME LogInv, logged' = logged + 1
  PROVE  /\ logged \in Nat /\ mishaps \in Nat
         /\ files \in Family(1..logged) /\ Grown \in Family(1..logged')
         /\ Len(Grown[0]) = Len(files[0]) + 1
         /\ ~doubled => InOrder(Grown)
         /\ ~damaged =>
              /\ InOrder(Grown)
              /\ NoHole(Grown, logged')
              /\ LastInFile0(Grown, logged')
              /\ FilesFull(Grown, logged', mishaps)
              /\ \A o \in 0..MaxFiles : Len(Grown[o]) <= MaxLines + mishaps
<1>1. logged \in Nat /\ mishaps \in Nat /\ files \in Family(1..logged)
  BY LogConstants DEF LogInv, LogTypeOK, Family
<1>2. Grows(files, logged, Grown)
  BY DEF Grows, Grown
<1>3. Grown \in Family(1..logged') /\ Len(Grown[0]) = Len(files[0]) + 1
  BY <1>1, <1>2, GrownFiles
<1>4. InOrder(files) => InOrder(Grown)
  BY <1>1, <1>2, GrownInOrder
<1>5. NoHole(files, logged) => NoHole(Grown, logged')
  BY <1>1, <1>2, GrownNoHole
<1>6. LastInFile0(files, logged) /\ FilesFull(files, logged, mishaps) =>
        LastInFile0(Grown, logged') /\ FilesFull(Grown, logged', mishaps)
  BY <1>1, <1>2, GrownFull
<1>7. FilesSmall(files, mishaps) =>
        \A o \in 0..MaxFiles : Len(Grown[o]) <= MaxLines + mishaps
  <2> HAVE FilesSmall(files, mishaps)
  <2> TAKE o \in 0..MaxFiles
  <2>1. CASE o = 0
    <3>1. Len(files[0]) \in Nat
      BY <1>1, LogConstants DEF Family
    <3> QED BY <1>1, <1>3, <2>1, <3>1, LogConstants DEF FilesSmall
  <2>2. CASE o # 0
    <3>1. Grown[o] = files[o]
      BY <1>1, <1>2, <2>2, GrownFiles
    <3> QED BY <3>1 DEF FilesSmall
  <2> QED BY <2>1, <2>2
<1> QED BY <1>1, <1>3, <1>4, <1>5, <1>6, <1>7 DEF LogInv

\* What is left of them by a rotation that was not hindered, or was cut off.
LEMMA RotatedInv ==
  ASSUME LogInv, logged' = logged + 1, ~damaged, counted + 1 >= MaxLines,
         NEW i \in 0..MaxFiles, NEW m2 \in Nat, m2 >= mishaps, i > 0 => m2 >= mishaps + 1
  PROVE  /\ NoHole(Renamed(Grown, {j \in Old : j >= i}), logged')
         /\ LastInFile0(Renamed(Grown, {j \in Old : j >= i}), logged')
         /\ FilesFull(Renamed(Grown, {j \in Old : j >= i}), logged', m2)
         /\ FilesSmall(Renamed(Grown, {j \in Old : j >= i}), m2)
<1>1. /\ logged' \in Nat /\ mishaps \in Nat
      /\ Grown \in Family(1..logged')
      /\ InOrder(Grown)
      /\ NoHole(Grown, logged')
      /\ LastInFile0(Grown, logged')
      /\ FilesFull(Grown, logged', mishaps)
      /\ \A o \in 0..MaxFiles : Len(Grown[o]) <= MaxLines + mishaps
  BY GrownInv
<1>2. Len(Grown[0]) >= MaxLines
  <2>1. counted = Len(files[0]) /\ Len(Grown[0]) = Len(files[0]) + 1
    BY GrownInv DEF LogInv
  <2> QED BY <2>1
<1>3. NoHole(Renamed(Grown, {j \in Old : j >= i}), logged')
  BY <1>1, RenamedNoHole
<1>4. /\ LastInFile0(Renamed(Grown, {j \in Old : j >= i}), logged')
      /\ FilesFull(Renamed(Grown, {j \in Old : j >= i}), logged', m2)
  BY <1>1, <1>2, RenamedFull
<1>5. FilesSmall(Renamed(Grown, {j \in Old : j >= i}), m2)
  BY <1>1, RenamedSmall
<1> QED BY <1>3, <1>4, <1>5

\* Types and order, whatever renames fail.
LEMMA RenamedInv ==
  ASSUME LogInv, logged' = logged + 1, NEW R \in SUBSET Old
  PROVE  /\ Renamed(Grown, R) \in Family(1..logged')
         /\ ~doubled => InOrder(Renamed(Grown, R))
<1>1. Grown \in Family(1..logged') /\ (~doubled => InOrder(Grown))
  BY GrownInv
<1> QED BY <1>1, RenamedFrom, RenamedInOrder

\* The files are of their type, and so is the size of one of them.
LEMMA FamilyTypes ==
  ASSUME NEW n \in Nat, NEW fs \in Family(1..n)
  PROVE  fs \in [0..MaxFiles -> Seq(1..n)] /\ Len(fs[0]) \in Nat
BY LogConstants DEF Family

LEMMA WriteKeepsInv == LogInv /\ Write => LogInv'
<1> SUFFICES ASSUME LogInv, Write PROVE LogInv'
  OBVIOUS
<1>1. /\ fd /\ logged < MaxLogged /\ logged' = logged + 1 /\ doubled' = doubled
  BY DEF Write
<1>2. LogTypeOK /\ logged' \in 0..MaxLogged
  BY <1>1, LogConstants DEF LogInv, LogTypeOK
<1>3. CASE /\ counted + 1 < MaxLines
           /\ files' = Grown
           /\ counted' = counted + 1
           /\ UNCHANGED <<fd, mishaps, damaged>>
  <2>1. LogTypeOK'
    BY <1>1, <1>2, <1>3, GrownInv, FamilyTypes DEF LogTypeOK
  <2>2. ~doubled' => InOrder(files')
    BY <1>1, <1>3, GrownInv
  <2>3. ASSUME ~damaged
        PROVE  /\ fd' /\ ~doubled' /\ counted' = Len(files'[0])
               /\ NoHole(files', logged')
               /\ LastInFile0(files', logged')
               /\ FilesFull(files', logged', mishaps')
    BY <1>1, <1>3, <2>3, GrownInv DEF LogInv
  <2>4. ASSUME ~damaged
        PROVE  FilesSmall(files', mishaps')
    <3>1. \A o \in 0..MaxFiles : Len(files'[o]) <= MaxLines + mishaps
      BY <1>1, <1>3, <2>4, GrownInv
    <3>2. Len(files'[0]) < MaxLines
      BY <1>3, <2>3, <2>4
    <3>3. Len(files'[0]) \in Nat /\ mishaps \in Nat
      BY <1>1, <1>3, GrownInv, FamilyTypes
    <3> QED BY <1>3, <3>1, <3>2, <3>3, LogConstants DEF FilesSmall
  <2> QED BY <1>3, <2>1, <2>2, <2>3, <2>4 DEF LogInv
<1>4. ASSUME counted + 1 >= MaxLines,
             NEW R \in SUBSET Old,
             files' = Renamed(Grown, R),
             \/ R = Old /\ Open(files') /\ UNCHANGED <<mishaps, damaged>>
             \/ R # Old /\ Open(files') /\ Mishap /\ damaged' = TRUE
             \/ OpenUnsized /\ Mishap /\ damaged' = TRUE
      PROVE  LogInv'
  <2>1. fd' = TRUE /\ counted' \in {0, Len(files'[0])} /\ (Open(files') \/ damaged')
    BY <1>4 DEF Open, OpenUnsized
  <2>2. files' \in Family(1..logged') /\ (~doubled' => InOrder(files'))
    BY <1>1, <1>4, RenamedInv
  <2>3. mishaps' \in 0..MaxMishaps /\ damaged' \in BOOLEAN
    <3>1. CASE UNCHANGED <<mishaps, damaged>>
      BY <1>2, <3>1 DEF LogTypeOK
    <3>2. CASE Mishap /\ damaged' = TRUE
      BY <1>2, <3>2, LogConstants DEF Mishap, LogTypeOK
    <3> QED BY <1>4, <3>1, <3>2
  <2>4. LogTypeOK'
    BY <1>1, <1>2, <2>1, <2>2, <2>3, FamilyTypes DEF LogTypeOK
  <2>5. ASSUME ~damaged'
        PROVE  /\ ~doubled' /\ counted' = Len(files'[0])
               /\ NoHole(files', logged')
               /\ LastInFile0(files', logged')
               /\ FilesFull(files', logged', mishaps')
               /\ FilesSmall(files', mishaps')
    <3>0. counted' = Len(files'[0])
      BY <2>1, <2>5 DEF Open
    <3>1. R = Old /\ ~damaged /\ mishaps' = mishaps
      BY <1>4, <2>5
    <3>2. Old = {j \in Old : j >= 0}
      BY LogConstants
    <3>3. 0 \in 0..MaxFiles /\ mishaps \in Nat /\ mishaps >= mishaps
      BY <1>2, LogConstants DEF LogTypeOK
    <3>4. files' = Renamed(Grown, {j \in Old : j >= 0})
      BY <1>4, <3>1, <3>2
    <3> QED BY <1>1, <1>4, <3>0, <3>1, <3>3, <3>4, RotatedInv DEF LogInv
  <2> QED BY <2>1, <2>2, <2>4, <2>5 DEF LogInv
<1> QED BY <1>3, <1>4 DEF Write

LEMMA WriteReopenFailsKeepsInv == LogInv /\ WriteReopenFails => LogInv'
<1> SUFFICES ASSUME LogInv, WriteReopenFails PROVE LogInv'
  OBVIOUS
<1>1. /\ logged < MaxLogged /\ logged' = logged + 1
      /\ fd' = FALSE /\ counted' = counted + 1
      /\ Mishap /\ damaged' = TRUE /\ doubled' = TRUE
  BY DEF WriteReopenFails
<1>2. PICK R \in SUBSET Old :
        files' \in {Renamed(Grown, R), [Renamed(Grown, R) EXCEPT ![0] = Append(@, logged')]}
  BY DEF WriteReopenFails
<1>3. LogTypeOK /\ logged' \in 0..MaxLogged /\ logged' \in 1..logged'
  BY <1>1, LogConstants DEF LogInv, LogTypeOK
<1>4. files' \in Family(1..logged')
  <2>1. Renamed(Grown, R) \in Family(1..logged')
    BY <1>1, RenamedInv
  <2> DEFINE fs == Renamed(Grown, R)
  <2> HIDE DEF fs
  <2>2. fs \in Family(1..logged')
    BY <2>1 DEF fs
  <2>3. Append(fs[0], logged') \in Seq(1..logged')
    BY <1>3, <2>2, LogConstants DEF Family
  <2>4. [fs EXCEPT ![0] = Append(@, logged')] \in Family(1..logged')
    BY <2>2, <2>3 DEF Family
  <2> QED BY <1>2, <2>2, <2>4 DEF fs
<1>5. LogTypeOK'
  <2>1. mishaps' \in 0..MaxMishaps
    BY <1>1, <1>3, LogConstants DEF Mishap, LogTypeOK
  <2>2. counted' \in Nat
    BY <1>1, <1>3 DEF LogTypeOK
  <2>3. fd' \in BOOLEAN /\ damaged' \in BOOLEAN /\ doubled' \in BOOLEAN
    BY <1>1
  <2> QED BY <1>3, <1>4, <2>1, <2>2, <2>3 DEF LogTypeOK, Family
<1> QED BY <1>1, <1>5 DEF LogInv

LEMMA WriteFailsKeepsInv == LogInv /\ WriteFails => LogInv'
<1> SUFFICES ASSUME LogInv, WriteFails PROVE LogInv'
  OBVIOUS
<1>1. /\ logged < MaxLogged /\ logged' = logged + 1
      /\ files' \in {Grown, files}
      /\ Mishap /\ damaged' = TRUE
      /\ UNCHANGED <<fd, counted, doubled>>
  BY DEF WriteFails
<1>2. LogTypeOK /\ logged' \in 0..MaxLogged /\ 1..logged \subseteq 1..logged'
  BY <1>1, LogConstants DEF LogInv, LogTypeOK
<1>3. files' \in Family(1..logged') /\ (~doubled' => InOrder(files'))
  <2>1. files \in Family(1..logged')
    <3>1. \A o \in 0..MaxFiles : files[o] \in Seq(1..logged')
      BY <1>2 DEF LogTypeOK
    <3> QED BY <1>2, <3>1 DEF LogTypeOK, Family
  <2> QED BY <1>1, <2>1, GrownInv DEF LogInv
<1>4. LogTypeOK'
  <2>1. mishaps' \in 0..MaxMishaps
    BY <1>1, <1>2, LogConstants DEF Mishap, LogTypeOK
  <2> QED BY <1>1, <1>2, <1>3, <2>1 DEF LogTypeOK, Family
<1> QED BY <1>1, <1>3, <1>4 DEF LogInv

LEMMA WriteNowhereKeepsInv == LogInv /\ WriteNowhere => LogInv'
<1> SUFFICES ASSUME LogInv, WriteNowhere PROVE LogInv'
  OBVIOUS
<1>1. /\ ~fd /\ logged < MaxLogged /\ logged' = logged + 1
      /\ UNCHANGED <<files, fd, counted, mishaps, damaged, doubled>>
  BY DEF WriteNowhere
<1>2. LogTypeOK /\ logged' \in 0..MaxLogged /\ 1..logged \subseteq 1..logged'
  BY <1>1, LogConstants DEF LogInv, LogTypeOK
<1>3. LogTypeOK'
  <2>1. \A o \in 0..MaxFiles : files[o] \in Seq(1..logged')
    BY <1>2 DEF LogTypeOK
  <2> QED BY <1>1, <1>2, <2>1 DEF LogTypeOK
<1> QED BY <1>1, <1>3 DEF LogInv

\* The process is killed and started again.
LEMMA RestartKeepsInv == LogInv /\ Restart => LogInv'
<1> SUFFICES ASSUME LogInv, Restart PROVE LogInv'
  OBVIOUS
<1>1. /\ \/ Open(files') /\ UNCHANGED damaged
         \/ OpenUnsized /\ damaged' = TRUE
         \/ fd' = FALSE /\ damaged' = TRUE /\ UNCHANGED counted
      /\ mishaps < MaxMishaps /\ mishaps' = mishaps + 1 /\ doubled' = doubled
  BY DEF Restart, Mishap
<1>2. LogTypeOK /\ mishaps' \in 0..MaxMishaps /\ mishaps \in Nat /\ mishaps' \in Nat
  BY <1>1, LogConstants DEF LogInv, LogTypeOK
<1>3. /\ logged' \in 0..MaxLogged
      /\ files' \in Family(1..logged')
      /\ ~doubled' => InOrder(files')
      /\ ~damaged =>
           /\ NoHole(files', logged')
           /\ LastInFile0(files', logged')
           /\ FilesFull(files', logged', mishaps')
           /\ FilesSmall(files', mishaps')
  <2>1. CASE UNCHANGED <<files, logged>>
    <3>1. files \in Family(1..logged) /\ logged \in Nat
      BY <1>2, LogConstants DEF LogTypeOK, Family
    <3>2. ASSUME ~damaged, NEW i \in 1..MaxFiles, files[i] # <<>>
          PROVE  (logged + 1) - files[i][1] >= Lines(i - mishaps') + Len(files[0])
      <4>1. (logged + 1) - files[i][1] >= Lines(i - mishaps) + Len(files[0])
        BY <3>2 DEF LogInv, FilesFull
      <4>2. files[i][1] \in Nat
        <5>1. files[i] \in Seq(1..logged)
          BY <3>1 DEF Family
        <5> QED BY <3>1, <3>2, <5>1, FirstLine
      <4>3. i - mishaps' \in Int /\ i - mishaps \in Int /\ i - mishaps' <= i - mishaps
        BY <1>1, <1>2, LogConstants
      <4>4. /\ Lines(i - mishaps') \in Int /\ Lines(i - mishaps) \in Int
            /\ Lines(i - mishaps') <= Lines(i - mishaps)
        BY <4>3, FilesTimesLines, LinesGrow
      <4>5. Len(files[0]) \in Nat
        BY <3>1, FamilyTypes
      <4> DEFINE x == files[i][1]
                 a == Len(files[0])
                 u == Lines(i - mishaps)
                 v == Lines(i - mishaps')
      <4>6. /\ x \in Nat /\ a \in Nat /\ u \in Int /\ v \in Int /\ v <= u
            /\ (logged + 1) - x >= u + a
        BY <4>1, <4>2, <4>4, <4>5
      <4> HIDE DEF x, a, u, v
      <4>7. (logged + 1) - x >= v + a
        BY <3>1, <4>6
      <4> QED BY <4>7 DEF x, a, v
    <3>3. ~damaged => FilesFull(files, logged, mishaps')
      BY <3>2 DEF FilesFull
    <3>4. ~damaged => FilesSmall(files, mishaps')
      <4> HAVE ~damaged
      <4>1. FilesSmall(files, mishaps)
        BY DEF LogInv
      <4>2. \A o \in 0..MaxFiles : Len(files[o]) \in Nat
        BY <3>1 DEF Family
      <4> QED BY <1>1, <1>2, <4>1, <4>2, LogConstants DEF FilesSmall
    <3> QED BY <1>1, <1>2, <2>1, <3>1, <3>3, <3>4 DEF LogInv, LogTypeOK
  <2>2. ASSUME logged < MaxLogged, counted + 1 >= MaxLines, logged' = logged + 1,
               NEW i \in 0..MaxFiles,
               files' = Renamed(Grown, {j \in Old : j >= i})
        PROVE  /\ logged' \in 0..MaxLogged
               /\ files' \in Family(1..logged')
               /\ ~doubled' => InOrder(files')
               /\ ~damaged =>
                    /\ NoHole(files', logged')
                    /\ LastInFile0(files', logged')
                    /\ FilesFull(files', logged', mishaps')
                    /\ FilesSmall(files', mishaps')
    <3>1. logged' \in 0..MaxLogged
      BY <1>2, <2>2, LogConstants DEF LogTypeOK
    <3>2. files' \in Family(1..logged') /\ (~doubled' => InOrder(files'))
      BY <1>1, <2>2, RenamedInv
    <3>3. mishaps' >= mishaps /\ mishaps' >= mishaps + 1
      BY <1>1, <1>2
    <3>4. ~damaged =>
            /\ NoHole(files', logged')
            /\ LastInFile0(files', logged')
            /\ FilesFull(files', logged', mishaps')
            /\ FilesSmall(files', mishaps')
      BY <1>2, <2>2, <3>3, RotatedInv
    <3> QED BY <3>1, <3>2, <3>4
  <2> QED BY <2>1, <2>2 DEF Restart
<1>4. /\ ~damaged' => ~damaged /\ fd' = TRUE /\ counted' = Len(files'[0])
      /\ fd' \in BOOLEAN /\ damaged' \in BOOLEAN /\ counted' \in Nat
  <2>1. Len(files'[0]) \in Nat
    <3>1. logged' \in Nat
      BY <1>3, LogConstants
    <3> QED BY <1>3, <3>1, FamilyTypes
  <2>2. counted \in Nat /\ fd \in BOOLEAN /\ damaged \in BOOLEAN
    BY <1>2 DEF LogTypeOK
  <2>3. CASE Open(files') /\ UNCHANGED damaged
    BY <2>1, <2>2, <2>3 DEF Open
  <2>4. CASE OpenUnsized /\ damaged' = TRUE
    BY <2>4 DEF OpenUnsized
  <2>5. CASE fd' = FALSE /\ damaged' = TRUE /\ UNCHANGED counted
    BY <2>2, <2>5
  <2> QED BY <1>1, <2>3, <2>4, <2>5
<1>5. LogTypeOK'
  BY <1>1, <1>2, <1>3, <1>4 DEF LogTypeOK, Family
<1> QED BY <1>1, <1>3, <1>4, <1>5 DEF LogInv

LEMMA LogInvNext == LogInv /\ [LogNext]_logVars => LogInv'
<1> SUFFICES ASSUME LogInv, [LogNext]_logVars PROVE LogInv'
  OBVIOUS
<1>1. CASE LogNext
  BY <1>1, WriteKeepsInv, WriteReopenFailsKeepsInv, WriteFailsKeepsInv,
     WriteNowhereKeepsInv, RestartKeepsInv DEF LogNext
<1>2. CASE UNCHANGED logVars
  <2>1. UNCHANGED <<files, fd, counted, logged, mishaps, damaged, doubled>>
    BY <1>2 DEF logVars
  <2>2. LogTypeOK'
    BY <2>1 DEF LogInv, LogTypeOK
  <2>3. ~doubled' => InOrder(files')
    BY <2>1 DEF LogInv
  <2>4. ASSUME ~damaged'
        PROVE  /\ fd' /\ ~doubled'
               /\ counted' = Len(files'[0])
               /\ NoHole(files', logged')
               /\ LastInFile0(files', logged')
               /\ FilesFull(files', logged', mishaps')
               /\ FilesSmall(files', mishaps')
    BY <2>1, <2>4 DEF LogInv
  <2> QED BY <2>2, <2>3, <2>4 DEF LogInv
<1> QED BY <1>1, <1>2

THEOREM LogInvariant == LogSpec => []LogInv
BY LogInvInit, LogInvNext, PTL DEF LogSpec

LEMMA LogInvReadsBack == LogInv => LogReadsBack
<1> SUFFICES ASSUME LogInv PROVE LogReadsBack
  OBVIOUS
<1>1. files \in Family(1..logged) /\ logged \in Nat /\ mishaps \in Nat
  BY LogConstants DEF LogInv, LogTypeOK, Family
<1>2. ASSUME ~damaged
      PROVE  \E first \in 1..(logged + 1) :
               /\ Held = first..logged
               /\ first = 1 \/ (logged + 1) - first >= (MaxFiles - mishaps) * MaxLines
  <2>1. PICK first \in 1..(logged + 1) :
          /\ LinesOf(files) = first..logged
          /\ first = 1 \/ (files[MaxFiles] # <<>> /\ files[MaxFiles][1] = first)
    BY <1>2 DEF LogInv, NoHole
  <2>2. Held = LinesOf(files)
    BY DEF Held, LinesOf
  <2>3. ASSUME first # 1
        PROVE  (logged + 1) - first >= (MaxFiles - mishaps) * MaxLines
    <3>1. (logged + 1) - first >= Lines(MaxFiles - mishaps) + Len(files[0])
      BY <1>2, <2>1, <2>3, LogConstants DEF LogInv, FilesFull
    <3>2. Len(files[0]) \in Nat /\ Lines(MaxFiles - mishaps) \in Int
      BY <1>1, FamilyTypes, FilesTimesLines, LogConstants
    <3>3. (logged + 1) - first >= Lines(MaxFiles - mishaps)
      BY <1>1, <3>1, <3>2
    <3> QED BY <3>3 DEF Lines
  <2> QED BY <2>1, <2>2, <2>3
<1>3. ~doubled => InOrder(files)
  BY DEF LogInv
<1> QED BY <1>2, <1>3 DEF InOrder, LogReadsBack

\* Read back, the log is in order and has nothing twice whatever renames fail, and if no
\* call failed it is the last lines, as many as MaxFiles full files hold but for one file
\* for every kill, for any sizes and numbers of files (write, rotate).
THEOREM LogReadsBackHolds == LogSpec => []LogReadsBack
BY LogInvariant, LogInvReadsBack, PTL

\* No file outgrows the limit by more than a line for every kill (write, open).
THEOREM LogBoundedHolds == LogSpec => []LogBounded
<1>1. LogInv => LogBounded
  BY DEF LogInv, FilesSmall, LogBounded
<1> QED BY <1>1, LogInvariant, PTL

-----------------------------------------------------------------------------
(* All three at once: what is proved of each holds in MCBounds.            *)

LEMMA PartsRun == Spec => LimiterSpec /\ ResumeSpec /\ LogSpec
<1>1. Init => LimiterInit /\ ResumeInit /\ LogInit
  BY DEF Init
<1>2. [Next]_vars =>
        [LimiterNext]_limiterVars /\ [ResumeNext]_resumeVars /\ [LogNext]_logVars
  BY DEF Next, vars
<1> QED BY <1>1, <1>2, PTL DEF Spec, LimiterSpec, ResumeSpec, LogSpec

THEOREM ResumeInvariant == ResumeSpec => []ResumeInv
BY ResumeInvInit, ResumeInvNext, PTL DEF ResumeSpec

\* Type correctness of the three stores together.
THEOREM BoundsTypeCorrect == Spec => []TypeOK
<1>1. Spec => [](part \in {"limiter", "resume", "log"})
  <2>1. Init => part \in {"limiter", "resume", "log"}
    BY DEF Init
  <2>2. part \in {"limiter", "resume", "log"} /\ [Next]_vars =>
          (part \in {"limiter", "resume", "log"})'
    BY DEF Next, vars
  <2> QED BY <2>1, <2>2, PTL DEF Spec
<1>2. LimiterTypeOK /\ ResumeInv /\ LogInv /\ part \in {"limiter", "resume", "log"} => TypeOK
  BY DEF ResumeInv, LogInv, TypeOK
<1> QED BY <1>1, <1>2, PartsRun, LimiterTypeCorrect, ResumeInvariant, LogInvariant, PTL
=============================================================================
