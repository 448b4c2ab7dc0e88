----------------------------- MODULE ReadWrite ------------------------------
(***************************************************************************)
(* The data of the files: do_rdwt (fs/read_write.c), which moves bytes     *)
(* between a process and the sectors of a file in chunks of FS's buffer,   *)
(* do_lseek and O_TRUNC (fs/open.c), which move the place of a descriptor  *)
(* and the end of a file.  A file has a fixed strip of sectors, and the    *)
(* strips lie next to each other.  Bytes count from 0; the write of a      *)
(* sector that was just read unchanged is left out, as FS alone writes.    *)
(***************************************************************************)
EXTENDS Integers, Sequences

CONSTANTS File, Desc, FileOf, Bytes,    \* as in ByteFile
          Start,            \* i_start_sect
          Sects,            \* i_nr_sects: NR_DEFAULT_FILE_SECTS
          SECTOR_SIZE,
          BufSects,         \* the sectors of FS's buffer
          MaxLen,           \* the longest read or write
          Overrun,          \* may a process write beyond the last sector of a file?
          TruncateShared    \* may a file be emptied below the place of another descriptor?

ASSUME ReadWriteAssumption ==
    /\ File # {} /\ Desc # {} /\ FileOf \in [Desc -> File]
    /\ Bytes \in Nat \ {0} /\ Sects \in Nat \ {0} /\ SECTOR_SIZE \in Nat \ {0}
    /\ BufSects \in Nat \ {0} /\ MaxLen \in Nat
    /\ Start \in [File -> Nat]
    /\ \A f, g \in File : f # g => Start[f] + Sects <= Start[g] \/ Start[g] + Sects <= Start[f]
    /\ \E m \in File : \A f \in File : Start[f] <= Start[m]
    /\ Overrun \in BOOLEAN /\ TruncateShared \in BOOLEAN

VARIABLES disk,         \* disk[a]: the byte at address a
          i_size, fd_pos,
          rw            \* the do_rdwt in progress

vars == <<disk, i_size, fd_pos, rw>>

LastSect == CHOOSE s \in {Start[f] + Sects : f \in File} : \A f \in File : Start[f] + Sects <= s
Address  == 0 .. (LastSect + 1) * SECTOR_SIZE - 1
Capacity == Sects * SECTOR_SIZE

NoRdwt == [type |-> "none", d |-> CHOOSE d \in Desc : TRUE, byte |-> 0, left |-> 0, done |-> 0,
           got |-> <<>>, sect |-> 0, max |-> 0, chunk |-> 0, off |-> 0]

\* The first file is empty, the others are full.
Init ==
    /\ disk = [a \in Address |-> 0]
    /\ \E f \in File : i_size = [g \in File |-> IF g = f THEN 0 ELSE Capacity]
    /\ fd_pos = [d \in Desc |-> 0]
    /\ rw = NoRdwt
-----------------------------------------------------------------------------
Least(a, b) == IF a < b THEN a ELSE b
Idle == rw = NoRdwt

\* The head of do_rdwt.
Begin(type, d, n, byte) ==
    LET f   == FileOf[d]
        pos == fd_pos[d]
        end == Least(pos + n, IF type = "read" THEN i_size[f] ELSE Capacity)
        min == Start[f] + pos \div SECTOR_SIZE
        max == Start[f] + end \div SECTOR_SIZE
    IN  /\ Idle
        /\ type = "write" /\ ~Overrun => pos + n <= Capacity
        /\ rw' = [type |-> type, d |-> d, byte |-> byte, done |-> 0, got |-> <<>>,
                  left |-> IF type = "read" THEN Least(n, i_size[f] - pos) ELSE n,
                  sect |-> min, max |-> max, chunk |-> Least(max - min + 1, BufSects),
                  off |-> pos % SECTOR_SIZE]
        /\ UNCHANGED <<disk, i_size, fd_pos>>

Payload(byte, n, k) == [j \in 1 .. k |-> (byte + n + j) % Bytes]

\* A faulty variant: every chunk starts where the first one does.
OffKept == rw.off

NextOff == 0

\* One turn of the loop over the sectors.
Turn ==
    /\ ~Idle /\ rw.sect <= rw.max
    /\ LET k    == Least(rw.left, rw.chunk * SECTOR_SIZE - rw.off)
           from == rw.sect * SECTOR_SIZE + rw.off
       IN  /\ rw' = [rw EXCEPT !.sect = @ + rw.chunk, !.off = NextOff,
                               !.left = @ - k, !.done = @ + k,
                               !.got = IF rw.type = "read"
                                       THEN @ \o [j \in 1 .. k |-> disk[from + j - 1]] ELSE @]
           /\ fd_pos' = [fd_pos EXCEPT ![rw.d] = @ + k]
           /\ disk' = IF rw.type = "write"
                      THEN [a \in Address |-> IF a \in from .. from + k - 1
                                              THEN Payload(rw.byte, rw.done, k)[a - from + 1]
                                              ELSE disk[a]]
                      ELSE disk
    /\ UNCHANGED i_size

\* The end of do_rdwt.
Finish ==
    /\ ~Idle /\ rw.sect > rw.max
    /\ LET f == FileOf[rw.d]
       IN  i_size' = [i_size EXCEPT ![f] = IF fd_pos[rw.d] > @ THEN fd_pos[rw.d] ELSE @]
    /\ rw' = NoRdwt
    /\ UNCHANGED <<disk, fd_pos>>

\* A faulty variant: any place is good.
PlaceUnchecked(pos, f_size) == pos >= 0

Place(pos, f_size) == pos >= 0 /\ pos <= f_size

\* SEEK_SET, SEEK_CUR and SEEK_END; a place out of the file is refused.
do_lseek(d, off) ==
    LET f_size == i_size[FileOf[d]]
    IN  /\ Idle
        /\ \E base \in {0, fd_pos[d], f_size} :
              /\ Place(base + off, f_size)
              /\ fd_pos' = [fd_pos EXCEPT ![d] = base + off]
        /\ UNCHANGED <<disk, i_size, rw>>

\* The end of do_open, for a descriptor that was closed.
do_open(d, truncate) ==
    /\ Idle
    /\ fd_pos' = [fd_pos EXCEPT ![d] = 0]
    /\ IF truncate
       THEN /\ TruncateShared \/ \A e \in Desc \ {d} : FileOf[e] = FileOf[d] => fd_pos[e] = 0
            /\ i_size' = [i_size EXCEPT ![FileOf[d]] = 0]
       ELSE UNCHANGED i_size
    /\ UNCHANGED <<disk, rw>>

Next ==
    \/ \E d \in Desc, n \in 0 .. MaxLen : Begin("read", d, n, 0)
    \/ \E d \in Desc, n \in 0 .. MaxLen, byte \in 0 .. Bytes - 1 : Begin("write", d, n, byte)
    \/ Turn \/ Finish
    \/ \E d \in Desc, off \in -Capacity .. Capacity : do_lseek(d, off)
    \/ \E d \in Desc : do_open(d, TRUE) \/ do_open(d, FALSE)

Spec == Init /\ [][Next]_vars
-----------------------------------------------------------------------------
\* No descriptor is beyond the end of its file when a call begins: do_rdwt computes
\* from the difference how much there is to read, and has no answer if it is negative.
PositionsInside == Idle => \A d \in Desc : fd_pos[d] \in 0 .. i_size[FileOf[d]]

\* The end of a file: a write that is not finished has not set it.
Size(f) ==
    IF rw.type = "write" /\ FileOf[rw.d] = f /\ fd_pos[rw.d] > i_size[f]
    THEN fd_pos[rw.d] ELSE i_size[f]

\* The files, and the job, as a process sees them.
Content == [f \in File |-> [j \in 1 .. Size(f) |-> disk[Start[f] * SECTOR_SIZE + j - 1]]]
Job     == [type |-> rw.type, d |-> rw.d, byte |-> rw.byte, left |-> rw.left,
            done |-> rw.done, got |-> rw.got]

Abstract == INSTANCE ByteFile WITH content <- Content, at <- fd_pos, job <- Job

\* Through all chunks, sectors and ends of files, do_rdwt, do_lseek and O_TRUNC are the
\* reads, writes and seeks of plain byte sequences.
ReadsAndWrites == Abstract!Spec
=============================================================================
