----------------------------- MODULE ResumeMap -----------------------------
(***************************************************************************)
(* The runner's map of resumable conversations at its limit (runner.ts,    *)
(* sdkSessionIds): a JavaScript Map, whose keys stay in the order in which *)
(* they were inserted; to set a key that it has moves nothing.  A resync   *)
(* rebuilds it from the hub's rows, by the seconds of last_activity.       *)
(* MachineRunner has the same map without a limit.                         *)
(***************************************************************************)
EXTENDS Naturals, Sequences, FiniteSets, SequencesExt

CONSTANTS Chat,          \* sessions of one machine
          MaxResumable,  \* MAX_RESUMABLE_SESSIONS (1000)
          MaxClock       \* bound on the hub's clock

ASSUME ChatFinite == IsFiniteSet(Chat)
ASSUME MaxResumablePos == MaxResumable \in Nat \ {0}
ASSUME MaxClockNat == MaxClock \in Nat

VARIABLES
  resumable,  \* the keys of sdkSessionIds
  row,        \* the hub's row: without or with a conversation id, or archived
  activity,   \* last_activity, whole seconds
  clock,
  inserted    \* inserted[s]: when s took its place: when it was active, as far
              \* as a resync tells, or was saved as a new key (properties only)

resumeVars == <<resumable, row, activity, clock, inserted>>

ResumeTypeOK ==
  /\ resumable \in Seq(Chat)
  /\ Len(resumable) <= MaxResumable
  /\ row \in [Chat -> {"unnamed", "named", "archived"}]
  /\ clock \in 0..MaxClock
  /\ activity \in [Chat -> 0..clock]
  /\ inserted \in [Chat -> 0..clock]

ResumeInit ==
  /\ resumable = <<>>
  /\ row = [s \in Chat |-> "unnamed"]
  /\ activity = [s \in Chat |-> 0]
  /\ clock = 0
  /\ inserted = [s \in Chat |-> 0]

\* Map.set.
SetKey(keys, s) == IF Contains(keys, s) THEN keys ELSE Append(keys, s)

\* The oldest key goes if the map is full, whatever is saved then.
Evicted == IF Len(resumable) >= MaxResumable THEN Tail(resumable) ELSE resumable

\* The finally block of a runSession of s.
Save(s) ==
  /\ resumable' = SetKey(Evicted, s)
  /\ inserted' = IF Contains(Evicted, s) THEN inserted
                                         ELSE [inserted EXCEPT ![s] = clock]
  /\ UNCHANGED <<row, activity, clock>>

\* The hub handles a status or an end of s; some carry the conversation id.
Reports(s) ==
  /\ activity' = [activity EXCEPT ![s] = clock]
  /\ \/ UNCHANGED row
     \/ row[s] = "unnamed" /\ row' = [row EXCEPT ![s] = "named"]
  /\ UNCHANGED <<resumable, clock, inserted>>

\* markSessionsIdleForMachine: those of K were active, and get one time.
Demotes(K) ==
  /\ activity' = [s \in Chat |-> IF s \in K THEN clock ELSE activity[s]]
  /\ UNCHANGED <<resumable, row, clock, inserted>>

Archives(s) ==
  /\ row' = [row EXCEPT ![s] = "archived"]
  /\ UNCHANGED <<resumable, activity, clock, inserted>>

\* listResumableSessionsForMachine: sessions of one second come in any order.  Its
\* LIMIT is MaxResumable too, so that Capped stands for both.
Listings ==
  {q \in SetToSeqs({s \in Chat : row[s] = "named"}) :
     \A i, j \in DOMAIN q : i < j => activity[q[i]] >= activity[q[j]]}

Capped(q) == SubSeq(q, 1, IF Len(q) < MaxResumable THEN Len(q) ELSE MaxResumable)

\* A bug: inserted in the order of the message.
AppliedInOrder(q) == Capped(q)

\* handleResync: the most recent ones, inserted in reverse.
Applied(q) == Reverse(Capped(q))

Resync ==
  /\ \E q \in Listings : resumable' = Applied(q)
  /\ inserted' = activity
  /\ UNCHANGED <<row, activity, clock>>

Second ==
  /\ clock < MaxClock
  /\ clock' = clock + 1
  /\ UNCHANGED <<resumable, row, activity, inserted>>

ResumeNext ==
  \/ \E s \in Chat : Save(s) \/ Reports(s) \/ Archives(s)
  \/ \E K \in SUBSET Chat : Demotes(K)
  \/ Resync \/ Second

ResumeSpec == ResumeInit /\ [][ResumeNext]_resumeVars

-----------------------------------------------------------------------------
(* Properties.                                                             *)

SaveLosesOldest ==
  (\E t \in Chat : Save(t)) =>
    \A s \in ToSet(resumable) \ ToSet(resumable') :
      \A t \in ToSet(resumable) : inserted[s] <= inserted[t]

ResyncLosesOldest ==
  Resync =>
    \A s \in Chat \ ToSet(resumable') : row[s] = "named" =>
      /\ Len(resumable') = MaxResumable
      /\ \A t \in ToSet(resumable') : activity[s] <= activity[t]

\* A full map loses the conversation that took its place first, as far back as the
\* hub's seconds of activity tell, whatever saves, demotions and resyncs came
\* before; and a resync leaves out none but the least recent of those on record,
\* and only if there are too many (handleResync: "so the oldest lands first and gets
\* evicted first").
EvictsFirst == [][SaveLosesOldest /\ ResyncLosesOldest]_resumeVars
=============================================================================
