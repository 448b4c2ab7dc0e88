-------------------------------- MODULE MCFs ---------------------------------
(* The instances of Fs that TLC checks.                                       *)
EXTENDS Fs, TLC

\* No name but those of the terminal and of cmd.tar is special.
Symmetry == Permutations(Name \ {TTY, TAR})
=============================================================================
