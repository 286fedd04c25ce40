--------------------------- MODULE LimiterPromise ---------------------------
(***************************************************************************)
(* What a token bucket promises its callers: every key has a level that    *)
(* rises with time up to Full, every call that finds a whole token takes   *)
(* it, and every call that finds less is refused.  Nothing is said of how  *)
(* or how long a bucket is kept.                                           *)
(***************************************************************************)
EXTENDS Integers

CONSTANTS Key, Capacity, Token, Refill, MaxTime

VARIABLES now, level, answer

Full == Capacity * Token

Least(a, b) == IF a < b THEN a ELSE b

Init ==
  /\ now = 0
  /\ level = [k \in Key |-> Full]
  /\ answer = <<>>

Takes(k) ==
  /\ level[k] >= Token
  /\ level' = [level EXCEPT ![k] = @ - Token]
  /\ answer' = <<k, TRUE>>
  /\ UNCHANGED now

Refuses(k) ==
  /\ level[k] < Token
  /\ answer' = <<k, FALSE>>
  /\ UNCHANGED <<now, level>>

Rises ==
  /\ now' \in (now + 1)..MaxTime
  /\ level' = [k \in Key |-> Least(Full, level[k] + (now' - now) * Refill)]
  /\ UNCHANGED answer

Next == (\E k \in Key : Takes(k) \/ Refuses(k)) \/ Rises

Spec == Init /\ [][Next]_<<now, level, answer>>
=============================================================================
