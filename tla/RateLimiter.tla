---------------------------- MODULE RateLimiter ----------------------------
(***************************************************************************)
(* TokenBucketRateLimiter (hub/src/rate_limit.ts), one of the hub's seven. *)
(* A bucket is filled when it is looked at, and swept when it must be full.*)
(* Tokens are counted in units so that a millisecond refills a whole       *)
(* number of them: a token is Token units.  (The code's are doubles.)      *)
(***************************************************************************)
EXTENDS Integers

CONSTANTS Key,       \* an address, or an account
          Capacity,  \* TokenBucketConfig.capacity
          Token,     \* units in a token
          Refill,    \* refillPerMs, in units
          MaxTime    \* bound on the clock

ASSUME LimiterNumbers == {Capacity, Token, Refill} \subseteq Nat \ {0}
ASSUME MaxTimeNat == MaxTime \in Nat

VARIABLES
  now,      \* Date.now(), which never goes back
  buckets,  \* a function on the keys that have a bucket
  answer,   \* the last result of tryConsume, with its key
  spent,    \* tokens granted since mark (read by properties only)
  mark      \* a moment, chosen at the start (properties only)

limiterVars == <<now, buckets, answer, spent, mark>>

Full == Capacity * Token

Least(a, b) == IF a < b THEN a ELSE b

Bucket == [tokens : 0..Full, lastRefill : 0..MaxTime]

LimiterTypeOK ==
  /\ now \in 0..MaxTime
  /\ DOMAIN buckets \subseteq Key
  /\ \A k \in DOMAIN buckets : buckets[k] \in Bucket /\ buckets[k].lastRefill <= now
  /\ answer \in {<<>>} \cup (Key \X BOOLEAN)
  /\ spent \in [Key -> Nat]
  /\ mark \in 0..MaxTime

LimiterInit ==
  /\ now = 0
  /\ buckets = [k \in {} |-> 0]
  /\ answer = <<>>
  /\ spent = [k \in Key |-> 0]
  /\ mark \in 0..MaxTime

Set(k, tokens) ==
  buckets' = [j \in DOMAIN buckets \cup {k} |->
                IF j = k THEN [tokens |-> tokens, lastRefill |-> now] ELSE buckets[j]]

\* What has flowed into a bucket since it was looked at.
Elapsed(b) == (now - b.lastRefill) * Refill

\* A bug: the bucket overflows.
RefilledUncapped(b) == b.tokens + Elapsed(b)

Refilled(b) == Least(Full, b.tokens + Elapsed(b))

Grants(k) ==
  /\ answer' = <<k, TRUE>>
  /\ spent' = [spent EXCEPT ![k] = IF now >= mark THEN @ + 1 ELSE @]
  /\ UNCHANGED <<now, mark>>

Denies(k) ==
  /\ answer' = <<k, FALSE>>
  /\ UNCHANGED <<now, spent, mark>>

\* A bug: one token is not enough.
TryConsumeAboveOne(k) ==
  \/ k \notin DOMAIN buckets /\ Set(k, Full - Token) /\ Grants(k)
  \/ /\ k \in DOMAIN buckets
     /\ IF Refilled(buckets[k]) <= Token
          THEN Set(k, Refilled(buckets[k])) /\ Denies(k)
          ELSE Set(k, Refilled(buckets[k]) - Token) /\ Grants(k)

\* tryConsume: a first hit finds a full bucket.
TryConsume(k) ==
  \/ k \notin DOMAIN buckets /\ Set(k, Full - Token) /\ Grants(k)
  \/ /\ k \in DOMAIN buckets
     /\ Refilled(buckets[k]) < Token
     /\ Set(k, Refilled(buckets[k]))
     /\ Denies(k)
  \/ /\ k \in DOMAIN buckets
     /\ Refilled(buckets[k]) >= Token
     /\ Set(k, Refilled(buckets[k]) - Token)
     /\ Grants(k)

Keep(K) == buckets' = [k \in K |-> buckets[k]]

\* A bug: a bucket is dropped once a token has flowed into it.
SweepEarly ==
  /\ Keep({k \in DOMAIN buckets : Elapsed(buckets[k]) < Token})
  /\ UNCHANGED <<now, answer, spent, mark>>

\* sweep, at whatever times its timer fires: buckets that have been idle for
\* capacity / refillPerMs are dropped.
Sweep ==
  /\ Keep({k \in DOMAIN buckets : Elapsed(buckets[k]) < Full})
  /\ UNCHANGED <<now, answer, spent, mark>>

Tick ==
  /\ now' \in (now + 1)..MaxTime
  /\ UNCHANGED <<buckets, answer, spent, mark>>

LimiterNext == (\E k \in Key : TryConsume(k)) \/ Sweep \/ Tick

LimiterSpec == LimiterInit /\ [][LimiterNext]_limiterVars

-----------------------------------------------------------------------------
(* Properties.                                                             *)

\* In no stretch of time, wherever it begins, is a key granted more than a full
\* bucket and what flows in meanwhile, whenever sweeps come and however the
\* calls are spaced (tryConsume, sweep).
RateKept ==
  now >= mark => \A k \in Key : spent[k] * Token <= Full + (now - mark) * Refill

\* What a bucket would hold if it were looked at now.
Level(k) == IF k \in DOMAIN buckets THEN Refilled(buckets[k]) ELSE Full

Promise == INSTANCE LimiterPromise WITH level <- [k \in Key |-> Level(k)]

\* Filling late and sweeping are not observable: every call is answered as by
\* buckets that fill continuously and are never dropped (sweep: "indistinguishable
\* from a fresh bucket").
LimiterKeepsPromise == Promise!Spec
=============================================================================
