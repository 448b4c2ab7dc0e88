------------------------------ MODULE MCShell -------------------------------
(* The instance of Shell that TLC checks: one user types any short line, the *)
(* other one removes a file.                                               *)
EXTENDS Shell, TLC

CONSTANTS t1, t2, a, r, MaxLine

MCTerminals == <<t1, t2>>
MCArchive   == <<<<a>>, <<r>>>>
MCLines     ==
    (t1 :> UNION {[1 .. n -> {a, BLANK, AMPERSAND}] : n \in 1 .. MaxLine})
        @@ (t2 :> {<<r, BLANK, a>>})
MCRM        == <<r>>
MCTOUCH     == <<a>>
=============================================================================
