-------------------------------- MODULE MCMm ---------------------------------
(* The instances of Mm that TLC checks.                                       *)
EXTENDS Mm, TLC
=============================================================================
