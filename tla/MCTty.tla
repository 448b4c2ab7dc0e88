------------------------------- MODULE MCTty -------------------------------
(* The instance of Tty that TLC checks.                                    *)
EXTENDS Tty
=============================================================================
