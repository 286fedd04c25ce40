-------------------------- MODULE SelfUpdateProofs --------------------------
(***************************************************************************)
(* Type correctness of the self-update, and that what launchd boots after  *)
(* an update is complete.  One invariant, inductive as it stands: the      *)
(* checkout and its modules change only while the script runs, and then    *)
(* the process is not down.                                                *)
(***************************************************************************)
EXTENDS SelfUpdate, TLAPS

UpdateInv == TypeOK /\ BootsComplete

\* Nothing has been pushed, checked out or booted but commit 0.
LEMMA UpdateInvInit == Init => UpdateInv
<1> SUFFICES ASSUME Init
             PROVE  UpdateInv
  OBVIOUS
<1>1. head \in Commit /\ head \in 0..head /\ {hub, fetched, tree} \subseteq 0..head
  BY MaxCommitNat DEF Init, Commit
<1>2. marker \in [Dir -> {"none", "fresh", "old"}]
  BY DEF Init
<1>3. failures \in 0..MaxFailures
  BY MaxFailuresNat DEF Init
<1>4. deps \in 0..head
  BY DEF Init
<1>5. version = None /\ proc \in Proc /\ stopped \in BOOLEAN
  BY Zenon DEF Init, Proc
<1>6. cause = "install"
  BY DEF Init
<1> QED
  BY <1>1, <1>2, <1>3, <1>4, <1>5, <1>6 DEF UpdateInv, TypeOK, BootsComplete

\* A bounded failure stays within its bound.
LEMMA FailsCounted ==
  ASSUME TypeOK, Fails
  PROVE  failures' \in 0..MaxFailures
BY MaxFailuresNat DEF TypeOK, Fails

\* Pushes, deploys and passing time.
LEMMA WorldKeepsInv ==
  ASSUME UpdateInv,
         Push \/ (\E v \in Commit : DeployHub(v)) \/ (\E d \in Dir : MarkerAges(d))
  PROVE  UpdateInv'
<1>1. CASE Push
  <2>1. head' \in Commit /\ 0..head \subseteq 0..head'
    BY <1>1, MaxCommitNat DEF Push, UpdateInv, TypeOK, Commit
  <2> QED
    BY <1>1, <2>1 DEF Push, UpdateInv, TypeOK, BootsComplete, diskVars, procVars
<1>2. ASSUME NEW v \in Commit, DeployHub(v)
      PROVE  UpdateInv'
  BY <1>2 DEF DeployHub, UpdateInv, TypeOK, BootsComplete, diskVars, procVars
<1>3. ASSUME NEW d \in Dir, MarkerAges(d)
      PROVE  UpdateInv'
  BY <1>3 DEF MarkerAges, UpdateInv, TypeOK, BootsComplete, procVars
<1> QED
  BY <1>1, <1>2, <1>3

\* The process starts, crashes, is told to stop, and exits.
LEMMA ProcessKeepsInv ==
  ASSUME UpdateInv, Boot \/ BootUnversioned \/ Crash \/ Signal \/ ExitStopped
  PROVE  UpdateInv'
<1>1. CASE Boot
  BY <1>1 DEF Boot, Starts, UpdateInv, TypeOK, BootsComplete, Proc, diskVars
<1>2. CASE BootUnversioned
  BY <1>2, FailsCounted DEF BootUnversioned, Starts, UpdateInv, TypeOK,
                            BootsComplete, Proc, diskVars
<1>3. CASE Crash
  BY <1>3, FailsCounted DEF Crash, Ends, UpdateInv, TypeOK, BootsComplete, Proc
<1>4. CASE Signal
  BY <1>4, FailsCounted DEF Signal, Listening, UpdateInv, TypeOK, BootsComplete, diskVars
<1>5. CASE ExitStopped
  BY <1>5 DEF ExitStopped, Ends, UpdateInv, TypeOK, BootsComplete, Proc, diskVars
<1> QED
  BY <1>1, <1>2, <1>3, <1>4, <1>5

\* The poll loop touches no file.
LEMMA PollsKeepInv ==
  ASSUME UpdateInv, Polls
  PROVE  UpdateInv'
<1>1. CASE PollTimer
  BY <1>1 DEF PollTimer, UpdateInv, TypeOK, BootsComplete, Proc, diskVars
<1>2. CASE PollSkipped
  BY <1>2, FailsCounted DEF PollSkipped, BackToIdle, UpdateInv, TypeOK,
                            BootsComplete, Proc, diskVars
<1>3. CASE PollAnswered
  BY <1>3 DEF PollAnswered, UpdateInv, TypeOK, BootsComplete, Proc, Script, diskVars
<1> QED
  BY <1>1, <1>2, <1>3 DEF Polls

\* Only the last step of the script takes the process down, with the modules of
\* the checked-out commit installed.
LEMMA ScriptKeepsInv ==
  ASSUME UpdateInv, ScriptSteps
  PROVE  UpdateInv'
<1>1. CASE GitFetch
  <2>1. head \in 0..head
    BY MaxCommitNat DEF UpdateInv, TypeOK, Commit
  <2> QED
    BY <1>1, <2>1 DEF GitFetch, UpdateInv, TypeOK, BootsComplete, Proc, Script
<1>2. CASE GitCheckout
  BY <1>2 DEF GitCheckout, UpdateInv, TypeOK, BootsComplete, Proc, Script
<1>3. CASE NpmCi
  BY <1>3 DEF NpmCi, Ends, UpdateInv, TypeOK, BootsComplete, Proc
<1>4. CASE ScriptFails
  BY <1>4, FailsCounted DEF ScriptFails, BackToIdle, UpdateInv, TypeOK,
                            BootsComplete, Proc
<1>5. CASE ScriptAborts
  BY <1>5, FailsCounted DEF ScriptAborts, BackToIdle, UpdateInv, TypeOK,
                            BootsComplete, Proc, diskVars
<1> QED
  BY <1>1, <1>2, <1>3, <1>4, <1>5 DEF ScriptSteps

\* Every step keeps the invariant.
LEMMA UpdateInvNext == UpdateInv /\ [Next]_vars => UpdateInv'
<1> SUFFICES ASSUME UpdateInv, [Next]_vars
             PROVE  UpdateInv'
  OBVIOUS
<1>1. CASE Next
  BY <1>1, WorldKeepsInv, ProcessKeepsInv, PollsKeepInv, ScriptKeepsInv DEF Next
<1>2. CASE UNCHANGED vars
  BY <1>2 DEF vars, diskVars, procVars, UpdateInv, TypeOK, BootsComplete
<1> QED
  BY <1>1, <1>2

\* Every reachable state satisfies the invariant.
THEOREM UpdateInvariant == Spec => []UpdateInv
BY UpdateInvInit, UpdateInvNext, PTL DEF Spec

\* No version is served, checked out, installed or run that was not pushed.
THEOREM UpdateTypeCorrect == Spec => []TypeOK
<1>1. UpdateInv => TypeOK
  BY DEF UpdateInv
<1> QED
  BY <1>1, UpdateInvariant, PTL

\* After an update the replacement process finds a complete checkout: cmdRun
\* runs update.sh to its end before it exits.
THEOREM BootsCompleteHolds == Spec => []BootsComplete
<1>1. UpdateInv => BootsComplete
  BY DEF UpdateInv
<1> QED
  BY <1>1, UpdateInvariant, PTL
=============================================================================
