------------------------------ MODULE MCBounds ------------------------------
(***************************************************************************)
(* Three stores that keep themselves small: the buckets of a rate limiter, *)
(* the runner's map of conversations, and the log files.  They share       *)
(* nothing, so in a behaviour only one of them moves.                      *)
(***************************************************************************)
EXTENDS RateLimiter, ResumeMap, LogFile

VARIABLE part

vars == <<part, limiterVars, resumeVars, logVars>>

TypeOK ==
  /\ LimiterTypeOK
  /\ ResumeTypeOK
  /\ LogTypeOK
  /\ part \in {"limiter", "resume", "log"}

Init ==
  /\ LimiterInit
  /\ ResumeInit
  /\ LogInit
  /\ part \in {"limiter", "resume", "log"}
  /\ part # "limiter" => mark = 0

Next ==
  /\ UNCHANGED part
  /\ \/ part = "limiter" /\ LimiterNext /\ UNCHANGED <<resumeVars, logVars>>
     \/ part = "resume" /\ ResumeNext /\ UNCHANGED <<limiterVars, logVars>>
     \/ part = "log" /\ LogNext /\ UNCHANGED <<limiterVars, resumeVars>>

Spec == Init /\ [][Next]_vars
=============================================================================
