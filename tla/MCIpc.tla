------------------------------- MODULE MCIpc --------------------------------
(* The instances of Ipc that TLC checks: their processes, and symmetry.     *)
EXTENDS Ipc, TLC

\* The processes that are no driver are interchangeable.
Symmetry == Permutations(Proc \ (DiskTasks \cup TickTasks))
=============================================================================
