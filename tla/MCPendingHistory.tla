--------------------------- MODULE MCPendingHistory ---------------------------
(***************************************************************************)
(* An instance of PendingHistory for TLC: two clients, two machines, one   *)
(* of them with two connections in a row.                                  *)
(***************************************************************************)
EXTENDS PendingHistory, TLC

CONSTANTS c1, c2, m1, m2, l1, l2, l3

MCMachineOf == (l1 :> m1) @@ (l2 :> m1) @@ (l3 :> m2)
===============================================================================
