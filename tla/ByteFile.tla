------------------------------ MODULE ByteFile ------------------------------
(***************************************************************************)
(* What READ, WRITE and LSEEK promise a process: a file is a sequence of   *)
(* bytes, a descriptor a place in it.  A read returns the bytes from there *)
(* on, as many as it asks for or as there are; a write puts its bytes      *)
(* there and the file grows as needed; no other file is touched.  Sectors, *)
(* buffers and the size in the i-node are the business of module ReadWrite.*)
(***************************************************************************)
EXTENDS Integers, Sequences

CONSTANTS File, Desc,
          FileOf,       \* FileOf[d]: the file that descriptor d stands for
          Bytes,        \* a byte is a number below this
          MaxLen        \* the longest read or write

VARIABLES content,      \* content[f]: the bytes of a file
          at,           \* at[d]: how many bytes are before the place of d
          job           \* the read or write in progress

vars == <<content, at, job>>

NoJob == [type |-> "none", d |-> CHOOSE d \in Desc : TRUE, byte |-> 0, left |-> 0, done |-> 0,
          got |-> <<>>]

\* The bytes that a write of this byte writes, from the one after the first n on.
Payload(byte, n, k) == [j \in 1 .. k |-> (byte + n + j) % Bytes]

Written(s, p, piece) ==
    [j \in 1 .. IF p + Len(piece) > Len(s) THEN p + Len(piece) ELSE Len(s) |->
        IF j \in p + 1 .. p + Len(piece) THEN piece[j - p] ELSE s[j]]

Init ==
    /\ content \in [File -> Seq(0 .. Bytes - 1)]
    /\ at = [d \in Desc |-> 0]
    /\ job = NoJob

Idle    == job = NoJob
Rest(d) == Len(content[FileOf[d]]) - at[d]

BeginRead(d, n) ==
    /\ Idle
    /\ job' = [NoJob EXCEPT !.type = "read", !.d = d, !.left = IF n < Rest(d) THEN n ELSE Rest(d)]
    /\ UNCHANGED <<content, at>>

BeginWrite(d, n, byte) ==
    /\ Idle
    /\ job' = [NoJob EXCEPT !.type = "write", !.d = d, !.left = n, !.byte = byte]
    /\ UNCHANGED <<content, at>>

\* The job goes on by k bytes.
Move(k) ==
    LET d == job.d
        f == FileOf[d]
    IN  /\ at' = [at EXCEPT ![d] = @ + k]
        /\ \/ /\ job.type = "read"
              /\ job' = [job EXCEPT !.left = @ - k, !.done = @ + k,
                                    !.got = @ \o SubSeq(content[f], at[d] + 1, at[d] + k)]
              /\ UNCHANGED content
           \/ /\ job.type = "write"
              /\ job' = [job EXCEPT !.left = @ - k, !.done = @ + k]
              /\ content' = [content EXCEPT ![f] =
                                Written(@, at[d], Payload(job.byte, job.done, k))]

\* The process has its answer.
End == ~Idle /\ job.left = 0 /\ job' = NoJob /\ UNCHANGED <<content, at>>

Seek(d) ==
    /\ Idle
    /\ \E p \in 0 .. Len(content[FileOf[d]]) : at' = [at EXCEPT ![d] = p]
    /\ UNCHANGED <<content, job>>

\* d is closed and opened again, and the file perhaps emptied.
Reopen(d, truncate) ==
    /\ Idle
    /\ at' = [at EXCEPT ![d] = 0]
    /\ content' = IF truncate THEN [content EXCEPT ![FileOf[d]] = <<>>] ELSE content
    /\ UNCHANGED job

Next ==
    \/ \E d \in Desc, n \in 0 .. MaxLen : BeginRead(d, n)
    \/ \E d \in Desc, n \in 0 .. MaxLen, byte \in 0 .. Bytes - 1 : BeginWrite(d, n, byte)
    \/ \E k \in 1 .. job.left : Move(k)
    \/ End
    \/ \E d \in Desc : Seek(d) \/ Reopen(d, TRUE) \/ Reopen(d, FALSE)

Spec == Init /\ [][Next]_vars
=============================================================================
