----------------------------- MODULE MCConsole -----------------------------
(* The instance of Console that TLC checks.                                *)
EXTENDS Console
=============================================================================
