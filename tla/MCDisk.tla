------------------------------ MODULE MCDisk -------------------------------
(* The instance of Disk that TLC checks.                                   *)
EXTENDS Disk
=============================================================================
