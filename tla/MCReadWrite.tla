---------------------------- MODULE MCReadWrite ----------------------------
(* The instance of ReadWrite that TLC checks.                              *)
EXTENDS ReadWrite, TLC

CONSTANTS d1, d2, file1, file2

MCFileOf == (d1 :> file1) @@ (d2 :> file1)
MCStart  == (file1 :> 0) @@ (file2 :> 3)
=============================================================================
