----------------------------- MODULE MCHubRunner -----------------------------
(***************************************************************************)
(* Instances of HubRunner for TLC.                                         *)
(***************************************************************************)
EXTENDS HubRunner, TLC

SymSafety == Permutations(Conn) \cup Permutations(SdkId) \cup Permutations(Run)

\* For liveness, where a symmetry set is not sound: of the names that are free,
\* which mean nothing to any action, a step takes the first one.
FirstNames ==
  /\ ws' \notin {ws, NoConn} => ws' = CHOOSE c \in Conn : FreeConn(c)
  /\ \A r \in DOMAIN runs' :
       IF r \notin DOMAIN runs
         THEN r = CHOOSE q \in Run \ DOMAIN runs : TRUE
         ELSE runs'[r].sdk # runs[r].sdk =>
                runs'[r].sdk = CHOOSE k \in SdkId : Unseen(k)
=============================================================================
