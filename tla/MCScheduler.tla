----------------------------- MODULE MCScheduler -----------------------------
(* The instances of Scheduler that TLC checks.                               *)
EXTENDS Scheduler, TLC

MCTimePiece == (0 :> 1) @@ (1 :> 1) @@ (2 :> 2)

\* MM has more ticks than the three time pieces, as the tasks have (15 > 2 + 4 + 8);
\* the others have fewer, as the user processes have (5).
MCPriority == [p \in Proc |-> IF p = MM THEN 5 ELSE 2]
=============================================================================
