--------------------------- MODULE ReadWriteProofs ---------------------------
(***************************************************************************)
(* do_rdwt and its neighbours leave every descriptor inside its file, and  *)
(* implement the plain byte sequences of module ByteFile, for every size   *)
(* of sector, buffer and file.                                             *)
(***************************************************************************)
EXTENDS ReadWrite, TLAPS

\* What the code's callers keep to: no write beyond the last sector of a file, and no
\* file emptied below the place of another descriptor.
InBounds == ~Overrun /\ ~TruncateShared

Byte == 0 .. Bytes - 1
Rdwt == [type : {"read", "write"}, d : Desc, byte : Byte, left : Nat, done : Nat,
         got : Seq(Byte), sect : Nat, max : Nat, chunk : Nat \ {0}, off : 0 .. SECTOR_SIZE - 1]

TypeOK ==
    /\ disk \in [Address -> Byte]
    /\ i_size \in [File -> 0 .. Capacity]
    /\ fd_pos \in [Desc -> 0 .. Capacity]
    /\ Idle \/ rw \in Rdwt

\* Every place is inside its file, the one that a write moves excepted.
OthersInside == \A d \in Desc : fd_pos[d] <= i_size[FileOf[d]] \/ (~Idle /\ d = rw.d)

\* The last byte that do_rdwt will move is inside the file, or its strip.
EndInside ==
    ~Idle => fd_pos[rw.d] + rw.left <= IF rw.type = "read" THEN i_size[FileOf[rw.d]] ELSE Capacity

\* max is the sector of the place where do_rdwt will end.
MaxIsLast ==
    ~Idle => rw.max = Start[FileOf[rw.d]] + ((fd_pos[rw.d] + rw.left) \div SECTOR_SIZE)

\* The next chunk begins at the place of the descriptor, or there is none and nothing is
\* left to move.
ChunkAtPlace ==
    ~Idle => \/ rw.sect * SECTOR_SIZE + rw.off = Start[FileOf[rw.d]] * SECTOR_SIZE + fd_pos[rw.d]
             \/ rw.left = 0 /\ rw.sect > rw.max

IInv == TypeOK /\ OthersInside /\ EndInside /\ MaxIsLast /\ ChunkAtPlace
-----------------------------------------------------------------------------
(* Sectors and bytes.                                                      *)

LEMMA DivMod ==
    ASSUME NEW a \in Nat, NEW s \in Nat \ {0}
    PROVE  a \div s \in Nat /\ a % s \in 0 .. s - 1 /\ a = (a \div s) * s + (a % s)
OBVIOUS

\* The sector and the offset of a place.
LEMMA SectorOf ==
    ASSUME NEW a \in Nat
    PROVE  \E q \in Nat, r \in Nat :
              /\ q = a \div SECTOR_SIZE /\ r = a % SECTOR_SIZE
              /\ r < SECTOR_SIZE /\ a = q * SECTOR_SIZE + r
<1>1. PICK s \in Nat \ {0} : s = SECTOR_SIZE
  BY ReadWriteAssumption
<1>2. a \div s \in Nat /\ a % s \in 0 .. s - 1 /\ a = (a \div s) * s + (a % s)
  BY DivMod
<1>. QED BY ONLY <1>1, <1>2

LEMMA DivMonotonic ==
    ASSUME NEW a \in Nat, NEW b \in Nat, a <= b, NEW s \in Nat \ {0}
    PROVE  a \div s <= b \div s
OBVIOUS

LEMMA Times ==
    ASSUME NEW a \in Int, NEW b \in Int, NEW s \in Nat
    PROVE  /\ (a + b) * s = a * s + b * s
           /\ a * s \in Int
           /\ a <= b => a * s <= b * s
OBVIOUS

LEMMA TimesSum ==
    ASSUME NEW a \in Int, NEW b \in Int, NEW c \in Int, c = a + b
    PROVE  c * SECTOR_SIZE = a * SECTOR_SIZE + b * SECTOR_SIZE
<1>1. PICK s \in Nat : s = SECTOR_SIZE
  BY ReadWriteAssumption
<1>. QED BY <1>1, Times

LEMMA TimesNat == ASSUME NEW a \in Nat, NEW b \in Nat PROVE a * b \in Nat
OBVIOUS

LEMMA CapacityNat == Capacity \in Nat
BY TimesNat, ReadWriteAssumption DEF Capacity

LEMMA IdleOrNot == TypeOK => (~Idle => rw \in Rdwt)
BY DEF TypeOK

LEMMA TypesOfReading == rw \in Rdwt => ~Idle
BY DEF Rdwt, Idle, NoRdwt
-----------------------------------------------------------------------------
(* The invariant.                                                          *)

LEMMA InitInv == Init => IInv
<1> SUFFICES ASSUME Init PROVE IInv
  OBVIOUS
<1>. USE ReadWriteAssumption, CapacityNat
<1>1. Idle
  BY DEF Init, Idle
<1>2. TypeOK
  BY <1>1 DEF Init, TypeOK, Byte
<1>3. OthersInside
  BY DEF Init, OthersInside
<1>. QED BY <1>1, <1>2, <1>3 DEF IInv, EndInside, MaxIsLast, ChunkAtPlace

LEMMA BeginInv ==
    ASSUME InBounds, IInv,
           NEW type \in {"read", "write"}, NEW d \in Desc, NEW n \in Nat, NEW byte \in Byte,
           Begin(type, d, n, byte)
    PROVE  IInv'
<1>. USE ReadWriteAssumption, CapacityNat
<1>. DEFINE f == FileOf[d]
            pos == fd_pos[d]
            end == Least(pos + n, IF type = "read" THEN i_size[f] ELSE Capacity)
            todo == IF type = "read" THEN Least(n, i_size[f] - pos) ELSE n
<1>1. /\ f \in File /\ pos \in 0 .. Capacity /\ i_size[f] \in 0 .. Capacity /\ pos <= i_size[f]
      /\ Idle /\ pos \in Nat
  BY DEF Begin, IInv, TypeOK, OthersInside
<1>2. type = "write" => pos + n <= Capacity
  BY DEF Begin, InBounds
<1>3. /\ todo \in Nat /\ end \in Nat /\ end = pos + todo
      /\ end <= (IF type = "read" THEN i_size[f] ELSE Capacity)
  <2>1. \A a, b \in Int : Least(a, b) = IF a < b THEN a ELSE b
    BY DEF Least
  <2>2. CASE type = "read"
    <3>1. end = Least(pos + n, i_size[f]) /\ todo = Least(n, i_size[f] - pos)
      BY <2>2
    <3>. QED BY <1>1, <2>1, <2>2, <3>1
  <2>3. CASE type = "write"
    <3>1. end = Least(pos + n, Capacity) /\ todo = n
      BY <2>3
    <3>. QED BY <1>1, <1>2, <2>1, <2>3, <3>1
  <2>. QED BY <2>2, <2>3
<1>. HIDE DEF todo, end
<1>31. PICK min \in Nat, max \in Nat :
        /\ min = Start[f] + (pos \div SECTOR_SIZE) /\ max = Start[f] + (end \div SECTOR_SIZE)
        /\ min <= max
  <2>1. pos \in Nat /\ pos <= end
    BY <1>1, <1>3
  <2>2. pos \div SECTOR_SIZE \in Nat /\ end \div SECTOR_SIZE \in Nat
    BY <1>3, <2>1, DivMod
  <2>3. pos \div SECTOR_SIZE <= end \div SECTOR_SIZE
    BY <1>3, <2>1, DivMonotonic
  <2>. QED BY <1>1, <2>2, <2>3
<1>4. /\ rw' = [type |-> type, d |-> d, byte |-> byte, done |-> 0, got |-> <<>>,
                left |-> todo, sect |-> min, max |-> max,
                chunk |-> Least(max - min + 1, BufSects), off |-> pos % SECTOR_SIZE]
      /\ UNCHANGED <<disk, i_size, fd_pos>>
  BY <1>31 DEF Begin, todo, end
<1>5. rw' \in Rdwt
  <2>1. Least(max - min + 1, BufSects) \in Nat \ {0}
    BY <1>31 DEF Least
  <2>2. pos % SECTOR_SIZE \in 0 .. SECTOR_SIZE - 1
    BY <1>1, DivMod
  <2>3. <<>> \in Seq(Byte)
    OBVIOUS
  <2>. QED BY <1>3, <1>31, <1>4, <2>1, <2>2, <2>3 DEF Rdwt
<1>6. ~Idle'
  BY <1>4 DEF Idle, NoRdwt
<1>7. TypeOK'
  BY <1>4, <1>5 DEF IInv, TypeOK
<1>8. OthersInside'
  BY <1>1, <1>4 DEF IInv, OthersInside
<1>9. EndInside' /\ MaxIsLast'
  BY <1>3, <1>31, <1>4 DEF EndInside, MaxIsLast
<1>10. ChunkAtPlace'
  <2>1. PICK q \in Nat, r \in Nat :
          /\ q = pos \div SECTOR_SIZE /\ r = pos % SECTOR_SIZE
          /\ pos = q * SECTOR_SIZE + r
    BY <1>1, SectorOf
  <2>2. min * SECTOR_SIZE = Start[f] * SECTOR_SIZE + q * SECTOR_SIZE
    BY <1>1, <1>31, <2>1, TimesSum
  <2>3. min * SECTOR_SIZE + r = Start[f] * SECTOR_SIZE + pos
    <3>1. Start[f] * SECTOR_SIZE \in Nat /\ q * SECTOR_SIZE \in Nat
      BY <1>1, TimesNat
    <3>. QED BY <2>1, <2>2, <3>1
  <2>. QED BY <1>4, <2>1, <2>3 DEF ChunkAtPlace
<1>. QED BY <1>7, <1>8, <1>9, <1>10 DEF IInv

\* What Turn moves, and from where.
LEMMA ChunkFacts ==
    ASSUME IInv, Turn
    PROVE  \E k \in Nat, from \in Nat, f \in File, p \in Nat, next \in Nat :
             /\ f = FileOf[rw.d] /\ p = fd_pos[rw.d] /\ p + k <= Capacity /\ k <= rw.left
             /\ rw.type = "read" => p + k <= i_size[f]
             /\ from = Start[f] * SECTOR_SIZE + p
             /\ next = rw.sect + rw.chunk
             /\ \/ k + from = next * SECTOR_SIZE
                \/ k = rw.left /\ next > rw.max
             /\ rw' = [rw EXCEPT !.sect = next, !.off = 0, !.left = @ - k, !.done = @ + k,
                                 !.got = IF rw.type = "read"
                                         THEN @ \o [j \in 1 .. k |-> disk[from + j - 1]] ELSE @]
             /\ fd_pos' = [fd_pos EXCEPT ![rw.d] = p + k]
             /\ disk' = IF rw.type = "write"
                        THEN [a \in Address |-> IF a \in from .. from + k - 1
                                                THEN Payload(rw.byte, rw.done, k)[a - from + 1]
                                                ELSE disk[a]]
                        ELSE disk
             /\ UNCHANGED i_size
<1>. USE ReadWriteAssumption, CapacityNat
<1>1. /\ rw \in Rdwt /\ ~Idle /\ rw.sect <= rw.max
      /\ rw.d \in Desc /\ rw.left \in Nat /\ rw.sect \in Nat /\ rw.max \in Nat
      /\ rw.chunk \in Nat \ {0} /\ rw.off \in Nat /\ rw.off < SECTOR_SIZE
      /\ rw.type \in {"read", "write"}
  <2>1. rw \in Rdwt /\ ~Idle /\ rw.sect <= rw.max
    BY DEF Turn, IInv, TypeOK
  <2>. QED BY <2>1 DEF Rdwt
<1>2. PICK f \in File, p \in Nat, start \in Nat :
        f = FileOf[rw.d] /\ p = fd_pos[rw.d] /\ start = Start[f]
  BY <1>1 DEF IInv, TypeOK
<1>3. PICK size \in Nat : size = i_size[f] /\ size <= Capacity
  BY <1>2 DEF IInv, TypeOK
<1>4. PICK left \in Nat, sect \in Nat, chunk \in Nat \ {0}, off \in Nat, max \in Nat :
        left = rw.left /\ sect = rw.sect /\ chunk = rw.chunk /\ off = rw.off /\ max = rw.max
  BY <1>1
<1>5. p + left <= Capacity /\ (rw.type = "read" => p + left <= size)
  BY <1>1, <1>2, <1>3, <1>4 DEF IInv, EndInside
<1>6. sect * SECTOR_SIZE + off = start * SECTOR_SIZE + p
  BY <1>1, <1>2, <1>4 DEF IInv, ChunkAtPlace
<1>7. /\ chunk * SECTOR_SIZE \in Nat /\ sect * SECTOR_SIZE \in Nat /\ start * SECTOR_SIZE \in Nat
      /\ (sect + chunk) * SECTOR_SIZE \in Nat
      /\ off < chunk * SECTOR_SIZE
  <2>1. 1 * SECTOR_SIZE <= chunk * SECTOR_SIZE
    BY ONLY <1>4, ReadWriteAssumption, Times
  <2>. QED BY <1>1, <1>4, <2>1, TimesNat
<1>8. PICK k \in Nat : k = Least(left, chunk * SECTOR_SIZE - off)
  BY <1>4, <1>7 DEF Least
<1>9. k <= left /\ k <= chunk * SECTOR_SIZE - off /\ k \in {left, chunk * SECTOR_SIZE - off}
  BY <1>4, <1>7, <1>8 DEF Least
<1>10. PICK next \in Nat, from \in Nat :
         next = sect + chunk /\ from = sect * SECTOR_SIZE + off
  BY <1>4, <1>7
<1>11. from = start * SECTOR_SIZE + p
  BY <1>6, <1>10
<1>12. next * SECTOR_SIZE = sect * SECTOR_SIZE + chunk * SECTOR_SIZE
  BY <1>4, <1>10, Times
<1>13. k + from = next * SECTOR_SIZE \/ (k = left /\ next > max)
  <2>1. CASE k = chunk * SECTOR_SIZE - off
    BY <1>7, <1>8, <1>10, <1>12, <2>1
  <2>2. CASE k = left /\ k # chunk * SECTOR_SIZE - off
    <3>1. PICK e \in Nat : e = p + left
      BY <1>2, <1>4
    <3>2. max = start + (e \div SECTOR_SIZE)
      BY <1>1, <1>2, <1>4, <3>1 DEF IInv, MaxIsLast
    <3>3. PICK q \in Nat : q = e \div SECTOR_SIZE /\ q * SECTOR_SIZE <= e
      <4>2. PICK q \in Nat, r \in Nat : q = e \div SECTOR_SIZE /\ e = q * SECTOR_SIZE + r
        BY SectorOf
      <4>3. q * SECTOR_SIZE \in Nat
        BY <4>2, TimesNat
      <4>. QED BY <3>1, <4>2, <4>3
    <3>4. max * SECTOR_SIZE <= start * SECTOR_SIZE + e
      <4>1. max * SECTOR_SIZE = start * SECTOR_SIZE + q * SECTOR_SIZE
        <5>1. max = start + q
          BY <3>2, <3>3
        <5>. QED BY <5>1, TimesSum
      <4>2. q * SECTOR_SIZE \in Nat
        BY <3>3, TimesNat
      <4>. QED BY <1>7, <3>1, <3>3, <4>1, <4>2
    <3>5. start * SECTOR_SIZE + e < next * SECTOR_SIZE
      <4>1. k < chunk * SECTOR_SIZE - off
        BY <1>7, <1>8, <1>9, <2>2
      <4>. QED BY <1>7, <1>8, <1>10, <1>11, <1>12, <2>2, <3>1, <4>1
    <3>6. ~(next <= max)
      <4>1. max * SECTOR_SIZE \in Nat /\ next * SECTOR_SIZE \in Nat
        BY <1>4, <1>10, TimesNat
      <4>2. next <= max => next * SECTOR_SIZE <= max * SECTOR_SIZE
        BY <1>4, <1>10, Times
      <4>. QED BY <1>7, <3>1, <3>4, <3>5, <4>1, <4>2
    <3>. QED BY <1>4, <1>10, <2>2, <3>6
  <2>. QED BY <1>9, <2>1, <2>2
<1>14. /\ p + k <= Capacity /\ (rw.type = "read" => p + k <= size)
  BY <1>5, <1>9
<1>15. /\ rw' = [rw EXCEPT !.sect = next, !.off = 0, !.left = @ - k, !.done = @ + k,
                           !.got = IF rw.type = "read"
                                   THEN @ \o [j \in 1 .. k |-> disk[from + j - 1]] ELSE @]
       /\ fd_pos' = [fd_pos EXCEPT ![rw.d] = p + k]
       /\ disk' = IF rw.type = "write"
                  THEN [a \in Address |-> IF a \in from .. from + k - 1
                                          THEN Payload(rw.byte, rw.done, k)[a - from + 1]
                                          ELSE disk[a]]
                  ELSE disk
       /\ UNCHANGED i_size
  BY <1>2, <1>4, <1>8, <1>10 DEF Turn, NextOff
<1>16. k <= rw.left /\ next = rw.sect + rw.chunk
      /\ (k + from = next * SECTOR_SIZE \/ (k = rw.left /\ next > rw.max))
  BY <1>4, <1>9, <1>10, <1>13
<1>17. from = Start[f] * SECTOR_SIZE + p /\ (rw.type = "read" => p + k <= i_size[f])
  BY <1>2, <1>3, <1>11, <1>14
<1>. WITNESS k \in Nat, from \in Nat, f \in File, p \in Nat, next \in Nat
<1>18. rw.type = "read" => p + k <= i_size[f]
  BY <1>17
<1>. QED BY ONLY <1>2, <1>14, <1>15, <1>16, <1>17, <1>18, Zenon

\* The addresses of the strip of a file.
LEMMA StripAddresses ==
    ASSUME NEW f \in File, NEW j \in 1 .. Capacity
    PROVE  Start[f] * SECTOR_SIZE + j - 1 \in Address
<1>. USE ReadWriteAssumption
<1>1. \E s \in {Start[g] + Sects : g \in File} : \A g \in File : Start[g] + Sects <= s
  <2>1. PICK m \in File : \A g \in File : Start[g] <= Start[m]
    OBVIOUS
  <2>. QED BY <2>1
<1>2. LastSect \in Nat /\ Start[f] + Sects <= LastSect
  BY <1>1 DEF LastSect
<1>3. PICK last \in Nat, start \in Nat :
        last = LastSect /\ start = Start[f] /\ start + Sects + 1 <= last + 1
  BY <1>2
<1>4. (start + Sects) * SECTOR_SIZE = start * SECTOR_SIZE + Capacity
  BY <1>3, TimesSum DEF Capacity
<1>5. (start + Sects) * SECTOR_SIZE <= (last + 1) * SECTOR_SIZE
  <2>1. PICK a \in Nat, b \in Nat : a = start + Sects /\ b = last + 1 /\ a <= b
    BY <1>3
  <2>. QED BY <2>1, Times
<1>6. PICK low \in Nat, high \in Nat :
        low = start * SECTOR_SIZE /\ high = (last + 1) * SECTOR_SIZE /\ low + Capacity <= high
  BY <1>3, <1>4, <1>5, TimesNat
<1>. QED BY ONLY <1>3, <1>6, CapacityNat DEF Address

LEMMA PayloadType ==
    ASSUME NEW byte \in Byte, NEW n \in Nat, NEW k \in Nat, NEW j \in 1 .. k
    PROVE  Payload(byte, n, k)[j] \in Byte
<1>1. byte + n + j \in Nat
  BY DEF Byte
<1>2. (byte + n + j) % Bytes \in 0 .. Bytes - 1
  BY <1>1, DivMod, ReadWriteAssumption
<1>. QED BY <1>2 DEF Payload, Byte

LEMMA PieceIsSeq ==
    ASSUME NEW S, NEW k \in Nat, NEW s, s \in [1 .. k -> S]
    PROVE  s \in Seq(S) /\ Len(s) = k
OBVIOUS

LEMMA TurnInv == ASSUME IInv, Turn PROVE IInv'
<1>. USE CapacityNat
<1>1. PICK k \in Nat, from \in Nat, f \in File, p \in Nat, next \in Nat :
             /\ f = FileOf[rw.d] /\ p = fd_pos[rw.d] /\ p + k <= Capacity /\ k <= rw.left
             /\ rw.type = "read" => p + k <= i_size[f]
             /\ from = Start[f] * SECTOR_SIZE + p
             /\ next = rw.sect + rw.chunk
             /\ \/ k + from = next * SECTOR_SIZE
                \/ k = rw.left /\ next > rw.max
             /\ rw' = [rw EXCEPT !.sect = next, !.off = 0, !.left = @ - k, !.done = @ + k,
                                 !.got = IF rw.type = "read"
                                         THEN @ \o [j \in 1 .. k |-> disk[from + j - 1]] ELSE @]
             /\ fd_pos' = [fd_pos EXCEPT ![rw.d] = p + k]
             /\ disk' = IF rw.type = "write"
                        THEN [a \in Address |-> IF a \in from .. from + k - 1
                                                THEN Payload(rw.byte, rw.done, k)[a - from + 1]
                                                ELSE disk[a]]
                        ELSE disk
             /\ UNCHANGED i_size
  BY ChunkFacts
<1>2. rw \in Rdwt /\ ~Idle
  BY DEF Turn, IInv, TypeOK
<1>3. rw.d \in Desc /\ rw.left \in Nat /\ rw.done \in Nat /\ rw.byte \in Byte /\ rw.sect \in Nat
      /\ rw.got \in Seq(Byte) /\ rw.type \in {"read", "write"} /\ rw.max \in Nat
  BY <1>2 DEF Rdwt
<1>31. /\ k <= rw.left /\ p + k \in 0 .. Capacity /\ p = fd_pos[rw.d]
       /\ fd_pos' = [fd_pos EXCEPT ![rw.d] = p + k]
  BY <1>1
<1>4. PICK start \in Nat : start = Start[f] * SECTOR_SIZE
  BY ReadWriteAssumption, TimesNat
<1>5. from = start + p
  BY <1>1, <1>4
<1>6. \A j \in 1 .. k : disk[from + j - 1] \in Byte
  <2>. SUFFICES ASSUME NEW j \in 1 .. k PROVE disk[from + j - 1] \in Byte
    OBVIOUS
  <2>1. p + j \in 1 .. Capacity /\ from + j - 1 = start + (p + j) - 1
    BY <1>1, <1>5
  <2>2. from + j - 1 \in Address
    BY <1>4, <2>1, StripAddresses
  <2>. QED BY <2>2 DEF IInv, TypeOK
<1>7. rw' \in Rdwt
  <2>1. PICK got \in Seq(Byte) :
          got = IF rw.type = "read" THEN rw.got \o [j \in 1 .. k |-> disk[from + j - 1]] ELSE rw.got
    <3>1. PICK piece \in Seq(Byte) : piece = [j \in 1 .. k |-> disk[from + j - 1]]
      <4>1. [j \in 1 .. k |-> disk[from + j - 1]] \in [1 .. k -> Byte]
        BY <1>6
      <4>. QED BY <4>1, PieceIsSeq
    <3>2. rw.got \o piece \in Seq(Byte)
      BY <1>3
    <3>. QED BY <1>3, <3>1, <3>2
  <2>2. rw' = [rw EXCEPT !.sect = next, !.off = 0, !.left = @ - k, !.done = @ + k, !.got = got]
    BY <1>1, <2>1
  <2>3. 0 \in 0 .. SECTOR_SIZE - 1
    BY ReadWriteAssumption
  <2>4. rw.left - k \in Nat /\ rw.done + k \in Nat
    BY <1>3, <1>31, SMTT(30)
  <2>. QED BY <1>2, <2>1, <2>2, <2>3, <2>4 DEF Rdwt
<1>8. /\ rw'.d = rw.d /\ rw'.left = rw.left - k /\ rw'.sect = next /\ rw'.off = 0
      /\ rw'.max = rw.max /\ rw'.type = rw.type
  BY <1>1, <1>2 DEF Rdwt
<1>9. ~Idle'
  BY <1>3, <1>8 DEF Idle, NoRdwt
<1>10. fd_pos \in [Desc -> 0 .. Capacity] /\ fd_pos'[rw.d] = p + k
       /\ fd_pos' \in [Desc -> 0 .. Capacity]
  BY <1>3, <1>31 DEF IInv, TypeOK
<1>11. disk' \in [Address -> Byte]
  <2>1. CASE rw.type = "write"
    <3>1. ASSUME NEW a \in Address, a \in from .. from + k - 1
          PROVE  Payload(rw.byte, rw.done, k)[a - from + 1] \in Byte
      <4>1. a - from + 1 \in 1 .. k
        BY <3>1
      <4>. QED BY <1>3, <4>1, PayloadType
    <3>. QED BY <1>1, <2>1, <3>1 DEF IInv, TypeOK
  <2>2. CASE rw.type # "write"
    BY <1>1, <2>2 DEF IInv, TypeOK
  <2>. QED BY <2>1, <2>2
<1>12. TypeOK'
  BY <1>1, <1>7, <1>10, <1>11 DEF IInv, TypeOK
<1>13. OthersInside'
  BY <1>1, <1>8, <1>9, <1>10 DEF IInv, OthersInside
<1>14. fd_pos'[rw.d] + rw'.left = fd_pos[rw.d] + rw.left
  BY <1>3, <1>31, <1>8, <1>10
<1>15. EndInside' /\ MaxIsLast'
  BY <1>1, <1>2, <1>8, <1>14 DEF IInv, EndInside, MaxIsLast
<1>16. ChunkAtPlace'
  <2>1. CASE k + from = next * SECTOR_SIZE
    <3>1. PICK end \in Nat : end = next * SECTOR_SIZE /\ k + from = end
      BY <2>1
    <3>2. end + 0 = start + (p + k)
      BY <1>5, <3>1
    <3>. QED BY <1>1, <1>4, <1>8, <1>10, <3>1, <3>2 DEF ChunkAtPlace
  <2>2. CASE k = rw.left /\ next > rw.max
    BY <1>3, <1>8, <2>2 DEF ChunkAtPlace
  <2>. QED BY <1>1, <2>1, <2>2
<1>. QED BY <1>12, <1>13, <1>15, <1>16 DEF IInv

LEMMA NextInv == ASSUME InBounds, IInv, [Next]_vars PROVE IInv'
<1>. USE ReadWriteAssumption, CapacityNat
<1>1. ASSUME NEW d \in Desc, NEW n \in 0 .. MaxLen, Begin("read", d, n, 0) PROVE IInv'
  <2>1. 0 \in Byte /\ n \in Nat
    BY DEF Byte
  <2>. QED BY <1>1, <2>1, BeginInv
<1>2. ASSUME NEW d \in Desc, NEW n \in 0 .. MaxLen, NEW byte \in 0 .. Bytes - 1,
             Begin("write", d, n, byte)
      PROVE  IInv'
  <2>1. byte \in Byte /\ n \in Nat
    BY DEF Byte
  <2>. QED BY <1>2, <2>1, BeginInv
<1>3. CASE Turn
  BY <1>3, TurnInv
<1>4. CASE Finish
  <2>1. PICK d \in Desc, f \in File :
          /\ d = rw.d /\ f = FileOf[d] /\ fd_pos[d] \in 0 .. Capacity
          /\ i_size' = [i_size EXCEPT ![f] = IF fd_pos[d] > @ THEN fd_pos[d] ELSE @]
          /\ rw' = NoRdwt /\ UNCHANGED <<disk, fd_pos>>
    BY <1>4 DEF Finish, IInv, TypeOK, Rdwt
  <2>2. Idle'
    BY <2>1 DEF Idle, NoRdwt
  <2>3. TypeOK'
    BY <2>1, <2>2 DEF IInv, TypeOK
  <2>4. OthersInside'
    BY <1>4, <2>1 DEF IInv, TypeOK, OthersInside, Finish
  <2>. QED BY <2>2, <2>3, <2>4 DEF IInv, EndInside, MaxIsLast, ChunkAtPlace
<1>5. ASSUME NEW d \in Desc, NEW off \in -Capacity .. Capacity, do_lseek(d, off) PROVE IInv'
  <2>1. PICK p \in Nat : p <= i_size[FileOf[d]] /\ fd_pos' = [fd_pos EXCEPT ![d] = p]
    <3>1. PICK base \in Int : /\ Place(base + off, i_size[FileOf[d]])
                              /\ fd_pos' = [fd_pos EXCEPT ![d] = base + off]
      <4>1. 0 \in Int /\ fd_pos[d] \in Int /\ i_size[FileOf[d]] \in Int
        BY DEF IInv, TypeOK
      <4>. QED BY <1>5, <4>1 DEF do_lseek
    <3>2. base + off \in Nat /\ base + off <= i_size[FileOf[d]]
      BY <3>1 DEF Place
    <3>. QED BY <3>1, <3>2
  <2>2. Idle /\ UNCHANGED <<disk, i_size, rw>>
    BY <1>5 DEF do_lseek
  <2>3. Idle'
    BY <2>2 DEF Idle, NoRdwt
  <2>4. TypeOK'
    BY <2>1, <2>2, <2>3 DEF IInv, TypeOK
  <2>5. OthersInside'
    BY <2>1, <2>2 DEF IInv, TypeOK, OthersInside
  <2>. QED BY <2>3, <2>4, <2>5 DEF IInv, EndInside, MaxIsLast, ChunkAtPlace
<1>6. ASSUME NEW d \in Desc, NEW truncate \in BOOLEAN, do_open(d, truncate) PROVE IInv'
  <2>1. Idle /\ UNCHANGED <<disk, rw>> /\ fd_pos' = [fd_pos EXCEPT ![d] = 0]
    BY <1>6 DEF do_open
  <2>2. Idle'
    BY <2>1 DEF Idle, NoRdwt
  <2>3. \/ i_size' = i_size
        \/ /\ \A e \in Desc \ {d} : FileOf[e] = FileOf[d] => fd_pos[e] = 0
           /\ i_size' = [i_size EXCEPT ![FileOf[d]] = 0]
    BY <1>6 DEF do_open, InBounds
  <2>4. TypeOK'
    BY <2>1, <2>2, <2>3 DEF IInv, TypeOK
  <2>5. OthersInside'
    BY <2>1, <2>3 DEF IInv, TypeOK, OthersInside
  <2>. QED BY <2>2, <2>4, <2>5 DEF IInv, EndInside, MaxIsLast, ChunkAtPlace
<1>7. CASE UNCHANGED vars
  BY <1>7 DEF vars, IInv, TypeOK, OthersInside, EndInside, MaxIsLast, ChunkAtPlace, Idle
<1>. QED BY <1>1, <1>2, <1>3, <1>4, <1>5, <1>6, <1>7 DEF Next

\* Every reachable state of FS is typed, and do_rdwt, in the middle of a file, knows where
\* the next chunk begins, where the last one ends and that it ends inside the file.
THEOREM Invariance == ASSUME InBounds PROVE Spec => []IInv
<1>1. Init => IInv
  BY InitInv
<1>2. IInv /\ [Next]_vars => IInv'
  BY NextInv
<1>. QED BY <1>1, <1>2, PTL DEF Spec

-----------------------------------------------------------------------------
(* The places of the descriptors, whatever is written where.               *)

\* do_rdwt moves a place forward only, and a read never beyond the end of the file.
RdwtFields == {"type", "d", "byte", "left", "done", "got", "sect", "max", "chunk", "off"}

PlaceTypes ==
    /\ i_size \in [File -> Nat] /\ fd_pos \in [Desc -> Nat]
    /\ rw.d \in Desc /\ rw.type \in {"none", "read", "write"}
    /\ rw.left \in Nat /\ rw.sect \in Int /\ rw.max \in Int /\ rw.chunk \in Int
    /\ rw.off \in 0 .. SECTOR_SIZE - 1
    /\ DOMAIN rw = RdwtFields
    /\ rw.type = "none" => Idle

ChunkPositive == ~Idle /\ rw.sect <= rw.max => rw.chunk >= 1
ReadInside    == rw.type = "read" => fd_pos[rw.d] + rw.left <= i_size[FileOf[rw.d]]
PlacesInv     == PlaceTypes /\ ChunkPositive /\ ReadInside /\ OthersInside

LEMMA NoRdwtFields ==
    /\ NoRdwt.type = "none" /\ NoRdwt.d \in Desc /\ NoRdwt.left = 0 /\ NoRdwt.sect = 0
    /\ NoRdwt.max = 0 /\ NoRdwt.chunk = 0 /\ NoRdwt.off \in 0 .. SECTOR_SIZE - 1
    /\ DOMAIN NoRdwt = RdwtFields
BY ReadWriteAssumption DEF NoRdwt, RdwtFields

LEMMA InitPlaces == Init => PlacesInv
<1> SUFFICES ASSUME Init PROVE PlacesInv
  OBVIOUS
<1>1. rw = NoRdwt /\ i_size \in [File -> Nat] /\ fd_pos = [d \in Desc |-> 0]
  BY CapacityNat DEF Init
<1>2. PlaceTypes /\ Idle
  BY <1>1, NoRdwtFields DEF PlaceTypes, Idle
<1>3. ReadInside /\ OthersInside
  BY <1>1, NoRdwtFields, ReadWriteAssumption DEF ReadInside, OthersInside
<1>. QED BY <1>2, <1>3 DEF PlacesInv, ChunkPositive

LEMMA BeginPlaces ==
    ASSUME PlacesInv, NEW type \in {"read", "write"}, NEW d \in Desc, NEW n \in Nat, NEW byte,
           Begin(type, d, n, byte)
    PROVE  PlacesInv'
<1>. USE ReadWriteAssumption, CapacityNat
<1>1. PICK f \in File, pos \in Nat, size \in Nat :
        f = FileOf[d] /\ pos = fd_pos[d] /\ size = i_size[f] /\ pos <= size
  BY DEF Begin, PlacesInv, PlaceTypes, OthersInside
<1>2. PICK todo \in Nat : /\ todo = IF type = "read" THEN Least(n, size - pos) ELSE n
                          /\ type = "read" => pos + todo <= size
  BY <1>1 DEF Least
<1>3. PICK end \in Nat : end = Least(pos + n, IF type = "read" THEN size ELSE Capacity)
  BY <1>1 DEF Least
<1>4. PICK min \in Nat, max \in Nat :
        min = Start[f] + (pos \div SECTOR_SIZE) /\ max = Start[f] + (end \div SECTOR_SIZE)
  <2>1. PICK q \in Nat, r \in Nat : q = pos \div SECTOR_SIZE /\ r = pos % SECTOR_SIZE
                                 /\ r < SECTOR_SIZE /\ pos = q * SECTOR_SIZE + r
    BY SectorOf
  <2>2. PICK q1 \in Nat, r1 \in Nat : q1 = end \div SECTOR_SIZE /\ r1 = end % SECTOR_SIZE
                                   /\ r1 < SECTOR_SIZE /\ end = q1 * SECTOR_SIZE + r1
    BY SectorOf
  <2>. QED BY <2>1, <2>2
<1>5. PICK off \in 0 .. SECTOR_SIZE - 1 : off = pos % SECTOR_SIZE
  <2>1. PICK q \in Nat, r \in Nat : q = pos \div SECTOR_SIZE /\ r = pos % SECTOR_SIZE
                                 /\ r < SECTOR_SIZE /\ pos = q * SECTOR_SIZE + r
    BY SectorOf
  <2>. QED BY ONLY <2>1, ReadWriteAssumption
<1>6. PICK chunk \in Int : /\ chunk = Least(max - min + 1, BufSects)
                           /\ min <= max => chunk >= 1
  BY <1>4 DEF Least
<1>7. /\ rw' = [type |-> type, d |-> d, byte |-> byte, done |-> 0, got |-> <<>>, left |-> todo,
                sect |-> min, max |-> max, chunk |-> chunk, off |-> off]
      /\ UNCHANGED <<disk, i_size, fd_pos>>
  BY <1>1, <1>2, <1>3, <1>4, <1>5, <1>6 DEF Begin
<1>8. PlaceTypes'
  <2>1. /\ rw'.d = d /\ rw'.type = type /\ rw'.left = todo /\ rw'.sect = min /\ rw'.max = max
        /\ rw'.chunk = chunk /\ rw'.off = off /\ DOMAIN rw' = RdwtFields
    BY ONLY <1>7 DEF RdwtFields
  <2>2. i_size' \in [File -> Nat] /\ fd_pos' \in [Desc -> Nat]
    BY <1>7 DEF PlacesInv, PlaceTypes
  <2>3. type # "none"
    OBVIOUS
  <2>. QED BY <2>1, <2>2, <2>3 DEF PlaceTypes
<1>9. ChunkPositive' /\ ReadInside'
  BY <1>1, <1>2, <1>6, <1>7 DEF ChunkPositive, ReadInside
<1>10. OthersInside'
  <2>1. \A e \in Desc : fd_pos[e] <= i_size[FileOf[e]]
    BY DEF Begin, PlacesInv, OthersInside
  <2>. QED BY <1>7, <2>1 DEF OthersInside
<1>. QED BY <1>8, <1>9, <1>10 DEF PlacesInv

LEMMA TurnPlaces == ASSUME PlacesInv, Turn PROVE PlacesInv'
<1>1. PICK d \in Desc, f \in File, p \in Nat, left \in Nat, chunk \in Nat \ {0}, off \in Nat :
        /\ d = rw.d /\ f = FileOf[d] /\ p = fd_pos[d] /\ left = rw.left /\ chunk = rw.chunk
        /\ off = rw.off /\ off < SECTOR_SIZE
  <2>1. rw.chunk \in Nat \ {0}
    BY DEF Turn, PlacesInv, PlaceTypes, ChunkPositive
  <2>2. rw.off \in Nat /\ rw.off < SECTOR_SIZE
    BY ReadWriteAssumption DEF PlacesInv, PlaceTypes
  <2>3. rw.d \in Desc /\ FileOf[rw.d] \in File /\ fd_pos[rw.d] \in Nat /\ rw.left \in Nat
    BY ReadWriteAssumption DEF PlacesInv, PlaceTypes
  <2>. QED BY <2>1, <2>2, <2>3
<1>2. PICK room \in Nat : room = chunk * SECTOR_SIZE - off
  <2>1. PICK s \in Nat \ {0} : s = SECTOR_SIZE
    BY ReadWriteAssumption
  <2>2. 1 * s <= chunk * s /\ chunk * s \in Nat
    BY ONLY <1>1, <2>1, Times, TimesNat
  <2>. QED BY <1>1, <2>1, <2>2
<1>3. PICK k \in Nat : k = Least(left, room) /\ k <= left
  BY DEF Least
<1>4. PICK got : rw' = [rw EXCEPT !.sect = @ + rw.chunk, !.off = 0, !.left = @ - k, !.done = @ + k,
                                 !.got = got]
  BY <1>1, <1>2, <1>3 DEF Turn, NextOff
<1>5. fd_pos' = [fd_pos EXCEPT ![d] = p + k] /\ i_size' = i_size
  BY <1>1, <1>2, <1>3 DEF Turn
<1>6. /\ rw'.d = rw.d /\ rw'.type = rw.type /\ rw'.left = left - k /\ rw'.off = 0
      /\ rw'.max = rw.max /\ rw'.chunk = chunk /\ rw'.sect = rw.sect + chunk
      /\ DOMAIN rw' = RdwtFields
  BY <1>1, <1>4 DEF PlacesInv, PlaceTypes, RdwtFields
<1>8. rw.type # "none" /\ ~Idle'
  BY <1>6, NoRdwtFields DEF Turn, Idle, PlacesInv, PlaceTypes
<1>7. PlaceTypes'
  BY <1>1, <1>3, <1>5, <1>6, <1>8, ReadWriteAssumption DEF PlacesInv, PlaceTypes
<1>9. ChunkPositive' /\ ReadInside'
  BY <1>1, <1>3, <1>5, <1>6 DEF PlacesInv, PlaceTypes, ChunkPositive, ReadInside
<1>10. OthersInside'
  BY <1>1, <1>5, <1>6, <1>8 DEF PlacesInv, PlaceTypes, OthersInside
<1>. QED BY <1>7, <1>9, <1>10 DEF PlacesInv

LEMMA NextPlaces == ASSUME ~TruncateShared, PlacesInv, [Next]_vars PROVE PlacesInv'
<1>. USE ReadWriteAssumption, CapacityNat
<1>1. ASSUME NEW d \in Desc, NEW n \in 0 .. MaxLen, Begin("read", d, n, 0) PROVE PlacesInv'
  BY <1>1, BeginPlaces
<1>2. ASSUME NEW d \in Desc, NEW n \in 0 .. MaxLen, NEW byte \in 0 .. Bytes - 1,
             Begin("write", d, n, byte)
      PROVE  PlacesInv'
  BY <1>2, BeginPlaces
<1>3. CASE Turn
  BY <1>3, TurnPlaces
<1>4. CASE Finish
  <2>1. /\ rw' = NoRdwt /\ fd_pos' = fd_pos
        /\ i_size' = [i_size EXCEPT ![FileOf[rw.d]] = IF fd_pos[rw.d] > @ THEN fd_pos[rw.d] ELSE @]
    BY <1>4 DEF Finish
  <2>2. PlaceTypes' /\ Idle'
    <3>1. Idle' /\ fd_pos' \in [Desc -> Nat] /\ i_size' \in [File -> Nat]
      BY <2>1 DEF PlacesInv, PlaceTypes, Idle, NoRdwt
    <3>2. rw'.type = "none" /\ rw'.d \in Desc /\ rw'.left = 0 /\ rw'.sect = 0 /\ rw'.max = 0
          /\ rw'.chunk = 0 /\ rw'.off \in 0 .. SECTOR_SIZE - 1 /\ DOMAIN rw' = RdwtFields
      BY <2>1, NoRdwtFields
    <3>. QED BY <3>1, <3>2 DEF PlaceTypes
  <2>3. OthersInside'
    BY <2>1 DEF PlacesInv, PlaceTypes, OthersInside
  <2>. QED BY <2>1, <2>2, <2>3, NoRdwtFields DEF PlacesInv, ChunkPositive, ReadInside
<1>5. ASSUME NEW d \in Desc, NEW off \in -Capacity .. Capacity, do_lseek(d, off) PROVE PlacesInv'
  <2>1. PICK p \in Nat : p <= i_size[FileOf[d]] /\ fd_pos' = [fd_pos EXCEPT ![d] = p]
    <3>1. PICK base \in Int : /\ Place(base + off, i_size[FileOf[d]])
                              /\ fd_pos' = [fd_pos EXCEPT ![d] = base + off]
      <4>1. 0 \in Int /\ fd_pos[d] \in Int /\ i_size[FileOf[d]] \in Int
        BY DEF PlacesInv, PlaceTypes
      <4>. QED BY <1>5, <4>1 DEF do_lseek
    <3>2. base + off \in Nat /\ base + off <= i_size[FileOf[d]]
      BY <3>1 DEF Place
    <3>. QED BY <3>1, <3>2
  <2>2. Idle /\ UNCHANGED <<disk, i_size, rw>>
    BY <1>5 DEF do_lseek
  <2>. QED BY <2>1, <2>2, NoRdwtFields
           DEF Idle, PlacesInv, PlaceTypes, ChunkPositive, ReadInside, OthersInside
<1>6. ASSUME NEW d \in Desc, NEW truncate \in BOOLEAN, do_open(d, truncate) PROVE PlacesInv'
  <2>1. Idle /\ UNCHANGED <<disk, rw>> /\ fd_pos' = [fd_pos EXCEPT ![d] = 0]
    BY <1>6 DEF do_open
  <2>2. \/ i_size' = i_size
        \/ /\ \A e \in Desc \ {d} : FileOf[e] = FileOf[d] => fd_pos[e] = 0
           /\ i_size' = [i_size EXCEPT ![FileOf[d]] = 0]
    BY <1>6 DEF do_open
  <2>3. PlaceTypes'
    <3>1. fd_pos' \in [Desc -> Nat] /\ i_size' \in [File -> Nat]
      BY <2>1, <2>2 DEF PlacesInv, PlaceTypes
    <3>. QED BY <2>1, <3>1 DEF PlacesInv, PlaceTypes, Idle
  <2>4. OthersInside'
    BY <2>1, <2>2 DEF PlacesInv, PlaceTypes, OthersInside
  <2>. QED BY <2>1, <2>3, <2>4, NoRdwtFields DEF Idle, PlacesInv, ChunkPositive, ReadInside
<1>7. CASE UNCHANGED vars
  BY <1>7 DEF vars, PlacesInv, PlaceTypes, ChunkPositive, ReadInside, OthersInside, Idle
<1>. QED BY <1>1, <1>2, <1>3, <1>4, <1>5, <1>6, <1>7 DEF Next

\* No descriptor is beyond the end of its file when a call begins, whatever is read,
\* written and sought before, writes beyond the strip of a file included.
THEOREM PlacesInside == ASSUME ~TruncateShared PROVE Spec => []PositionsInside
<1>1. Init => PlacesInv
  BY InitPlaces
<1>2. PlacesInv /\ [Next]_vars => PlacesInv'
  BY NextPlaces
<1>3. PlacesInv => PositionsInside
  BY ReadWriteAssumption DEF PlacesInv, PlaceTypes, OthersInside, PositionsInside
<1>. QED BY <1>1, <1>2, <1>3, PTL DEF Spec
-----------------------------------------------------------------------------
(* The refinement of ByteFile.                                             *)

LEMMA IdleSize == IInv /\ Idle => \A f \in File : Size(f) = i_size[f]
BY DEF IInv, TypeOK, Size, Idle, NoRdwt

LEMMA SizeInStrip == IInv => \A f \in File : Size(f) \in 0 .. Capacity
<1> SUFFICES ASSUME IInv, NEW f \in File PROVE Size(f) \in 0 .. Capacity
  OBVIOUS
<1>1. i_size[f] \in 0 .. Capacity
  BY DEF IInv, TypeOK
<1>2. rw.type = "write" => fd_pos[rw.d] \in 0 .. Capacity
  <2>1. CASE Idle
    BY <2>1 DEF Idle, NoRdwt
  <2>2. CASE ~Idle
    BY <2>2 DEF IInv, TypeOK, Rdwt
  <2>. QED BY <2>1, <2>2
<1>. QED BY <1>1, <1>2 DEF Size

\* Every byte of a file is on the disk, in the file's strip.
LEMMA ContentFacts ==
    ASSUME IInv, NEW f \in File
    PROVE  /\ Content[f] \in Seq(Byte)
           /\ Len(Content[f]) = Size(f)
           /\ Content[f] = [j \in 1 .. Size(f) |-> disk[Start[f] * SECTOR_SIZE + j - 1]]
<1>1. Content[f] = [j \in 1 .. Size(f) |-> disk[Start[f] * SECTOR_SIZE + j - 1]]
  BY DEF Content
<1>2. PICK n \in Nat : n = Size(f) /\ n <= Capacity
  BY SizeInStrip, CapacityNat
<1>3. ASSUME NEW j \in 1 .. n PROVE disk[Start[f] * SECTOR_SIZE + j - 1] \in Byte
  <2>1. j \in 1 .. Capacity
    BY <1>2, CapacityNat
  <2>. QED BY <2>1, StripAddresses DEF IInv, TypeOK
<1>4. Content[f] \in [1 .. n -> Byte]
  BY <1>1, <1>2, <1>3
<1>. QED BY <1>1, <1>2, <1>4, PieceIsSeq

LEMMA SameContent ==
    ASSUME \A f \in File : Size(f)' = Size(f),
           \A f \in File : \A j \in 1 .. Size(f) :
               disk'[Start[f] * SECTOR_SIZE + j - 1] = disk[Start[f] * SECTOR_SIZE + j - 1]
    PROVE  Content' = Content
BY DEF Content

LEMMA IdleJob == TypeOK => (Idle <=> Abstract!Idle)
<1> SUFFICES ASSUME TypeOK PROVE Idle <=> Abstract!Idle
  OBVIOUS
<1>1. Idle => Job = Abstract!NoJob
  BY DEF Idle, NoRdwt, Job, Abstract!NoJob
<1>2. ~Idle => Job.type # Abstract!NoJob.type
  BY DEF TypeOK, Rdwt, Job, Abstract!NoJob
<1>. QED BY <1>1, <1>2 DEF Abstract!Idle

LEMMA NewJob ==
    ASSUME rw'.done = 0, rw'.got = <<>>
    PROVE  /\ rw'.byte = 0 => Job' = [Abstract!NoJob EXCEPT !.type = rw'.type, !.d = rw'.d,
                                                          !.left = rw'.left]
           /\ Job' = [Abstract!NoJob EXCEPT !.type = rw'.type, !.d = rw'.d, !.left = rw'.left,
                                           !.byte = rw'.byte]
<1>1. Job' = [type |-> rw'.type, d |-> rw'.d, byte |-> rw'.byte, left |-> rw'.left,
              done |-> 0, got |-> <<>>]
  BY DEF Job
<1>2. PICK e : Abstract!NoJob = [type |-> "none", d |-> e, byte |-> 0, left |-> 0, done |-> 0,
                                 got |-> <<>>]
  BY DEF Abstract!NoJob
<1>3. PICK t, d, b, l : t = rw'.type /\ d = rw'.d /\ b = rw'.byte /\ l = rw'.left
  OBVIOUS
<1>4. PICK j : j = Abstract!NoJob
  OBVIOUS
<1>5. PICK j1 : j1 = [j EXCEPT !.type = t]
  OBVIOUS
<1>6. PICK j2 : j2 = [j1 EXCEPT !.d = d]
  OBVIOUS
<1>7. PICK j3 : j3 = [j2 EXCEPT !.left = l]
  OBVIOUS
<1>8. PICK j4 : j4 = [j3 EXCEPT !.byte = b]
  OBVIOUS
<1>9. j1 = [type |-> t, d |-> e, byte |-> 0, left |-> 0, done |-> 0, got |-> <<>>]
  BY <1>2, <1>4, <1>5
<1>10. j2 = [type |-> t, d |-> d, byte |-> 0, left |-> 0, done |-> 0, got |-> <<>>]
  BY <1>6, <1>9
<1>11. j3 = [type |-> t, d |-> d, byte |-> 0, left |-> l, done |-> 0, got |-> <<>>]
  BY <1>7, <1>10
<1>12. j4 = [type |-> t, d |-> d, byte |-> b, left |-> l, done |-> 0, got |-> <<>>]
  BY <1>8, <1>11
<1>13. /\ j3 = [j EXCEPT !.type = t, !.d = d, !.left = l]
       /\ j4 = [j EXCEPT !.type = t, !.d = d, !.left = l, !.byte = b]
  BY ONLY <1>5, <1>6, <1>7, <1>8
<1>. QED BY <1>1, <1>3, <1>4, <1>11, <1>12, <1>13

LEMMA InitRefines == Init => Abstract!Init
<1> SUFFICES ASSUME Init PROVE Abstract!Init
  OBVIOUS
<1>1. IInv
  BY InitInv
<1>2. Content \in [File -> Seq(0 .. Bytes - 1)]
  <2>1. \A f \in File : Content[f] \in Seq(0 .. Bytes - 1)
    BY <1>1, ContentFacts DEF Byte
  <2>. QED BY <2>1 DEF Content
<1>3. Job = Abstract!NoJob
  BY DEF Init, NoRdwt, Job, Abstract!NoJob
<1>4. fd_pos = [d \in Desc |-> 0]
  BY DEF Init
<1>. QED BY <1>2, <1>3, <1>4 DEF Abstract!Init

LEMMA BeginRefines ==
    ASSUME InBounds, IInv,
           NEW type \in {"read", "write"}, NEW d \in Desc, NEW n \in 0 .. MaxLen,
           NEW byte \in 0 .. Bytes - 1, Begin(type, d, n, byte), type = "read" => byte = 0
    PROVE  Abstract!Next
<1>1. Idle /\ Abstract!Idle
  BY IdleJob DEF Begin, IInv
<1>2. PICK f \in File : f = FileOf[d]
  BY ReadWriteAssumption
<1>3. /\ UNCHANGED <<disk, i_size, fd_pos>>
      /\ rw'.type = type /\ rw'.d = d /\ rw'.byte = byte /\ rw'.done = 0 /\ rw'.got = <<>>
      /\ rw'.left = IF type = "read" THEN Least(n, i_size[f] - fd_pos[d]) ELSE n
  BY <1>2 DEF Begin
<1>4. fd_pos[d] <= i_size[f] /\ fd_pos[d] \in 0 .. Capacity /\ i_size[f] \in 0 .. Capacity
  BY <1>1, <1>2 DEF IInv, TypeOK, OthersInside
<1>5. Content' = Content
  <2>1. \A g \in File : Size(g) = i_size[g]
    BY <1>1, IdleSize
  <2>2. \A g \in File : Size(g)' = i_size[g]
    BY <1>2, <1>3, <1>4, CapacityNat DEF Size
  <2>. QED BY <1>3, <2>1, <2>2, SameContent
<1>6. Abstract!Rest(d) = i_size[f] - fd_pos[d]
  BY <1>1, <1>2, ContentFacts, IdleSize DEF Abstract!Rest
<1>7. CASE type = "read"
  <2>1. Job' = [Abstract!NoJob EXCEPT !.type = "read", !.d = d,
                        !.left = IF n < Abstract!Rest(d) THEN n ELSE Abstract!Rest(d)]
    <3>1. rw'.left = IF n < Abstract!Rest(d) THEN n ELSE Abstract!Rest(d)
      BY <1>3, <1>6, <1>7 DEF Least
    <3>2. byte = 0
      BY <1>7
    <3>. QED BY <1>3, <1>7, <3>1, <3>2, NewJob
  <2>2. Abstract!BeginRead(d, n)
    BY <1>1, <1>3, <1>5, <2>1 DEF Abstract!BeginRead
  <2>. QED BY <2>2 DEF Abstract!Next
<1>8. CASE type = "write"
  <2>1. Job' = [Abstract!NoJob EXCEPT !.type = "write", !.d = d, !.left = n, !.byte = byte]
    BY <1>3, <1>8, NewJob
  <2>2. Abstract!BeginWrite(d, n, byte)
    BY <1>1, <1>3, <1>5, <2>1 DEF Abstract!BeginWrite
  <2>. QED BY <2>2 DEF Abstract!Next
<1>. QED BY <1>7, <1>8

LEMMA FinishRefines == ASSUME IInv, Finish PROVE Abstract!Next
<1>. USE CapacityNat
<1>1. PICK d \in Desc, f \in File :
          /\ d = rw.d /\ f = FileOf[d] /\ fd_pos[d] \in 0 .. Capacity /\ i_size[f] \in 0 .. Capacity
          /\ i_size' = [i_size EXCEPT ![f] = IF fd_pos[d] > @ THEN fd_pos[d] ELSE @]
          /\ rw' = NoRdwt /\ UNCHANGED <<disk, fd_pos>>
  BY ReadWriteAssumption DEF Finish, IInv, TypeOK, Rdwt
<1>2. rw \in Rdwt /\ ~Idle /\ rw.sect > rw.max
  BY DEF Finish, IInv, TypeOK
<1>3. /\ rw.type \in {"read", "write"} /\ rw.left \in Nat /\ rw.sect \in Nat /\ rw.max \in Nat
      /\ rw.off \in Nat
  BY <1>2 DEF Rdwt
<1>4. rw.left = 0
  <2>. SUFFICES ASSUME rw.sect * SECTOR_SIZE + rw.off = Start[f] * SECTOR_SIZE + fd_pos[d]
                PROVE  FALSE
    BY <1>1, <1>2 DEF IInv, ChunkAtPlace
  <2>1. PICK e \in Nat, p \in Nat : p = fd_pos[d] /\ e = p + rw.left
    BY <1>1, <1>3
  <2>2. PICK q \in Nat, r \in Nat :
          /\ q = e \div SECTOR_SIZE /\ r = e % SECTOR_SIZE
          /\ r < SECTOR_SIZE /\ e = q * SECTOR_SIZE + r
    BY SectorOf
  <2>3. PICK start \in Nat : start = Start[f]
    BY ReadWriteAssumption
  <2>4. rw.max = start + q
    BY <1>1, <1>2, <2>1, <2>2, <2>3 DEF IInv, MaxIsLast
  <2>5. PICK last \in Nat, sect \in Nat : last = start + q + 1 /\ sect = rw.sect /\ last <= sect
    <3>1. PICK max \in Nat, sect \in Nat : max = rw.max /\ sect = rw.sect /\ sect > max
      BY <1>2, <1>3
    <3>2. start + q + 1 \in Nat /\ start + q + 1 <= sect
      BY <2>4, <3>1
    <3>. QED BY <3>1, <3>2
  <2>6. PICK s \in Nat \ {0} : s = SECTOR_SIZE
    BY ReadWriteAssumption
  <2>7. last * s <= sect * s /\ last * s = (start + q) * s + 1 * s
        /\ (start + q) * s = start * s + q * s
    BY ONLY <2>5, <2>6, Times
  <2>8. start * s \in Nat /\ q * s \in Nat /\ sect * s \in Nat /\ last * s \in Nat
    BY ONLY <2>5, <2>6, TimesNat
  <2>9. sect * s + rw.off = start * s + p /\ e = q * s + r /\ r < s /\ p <= e
    <3>1. sect * s + rw.off = start * s + p
      BY ONLY <1>1, <2>1, <2>3, <2>5, <2>6, ReadWriteAssumption,
              rw.sect * SECTOR_SIZE + rw.off = Start[f] * SECTOR_SIZE + fd_pos[d]
    <3>2. e = q * s + r /\ r < s
      BY ONLY <2>2, <2>6
    <3>3. p <= e
      BY <1>3, <2>1
    <3>. QED BY <3>1, <3>2, <3>3
  <2>. QED BY <1>3, <2>7, <2>8, <2>9
<1>5. Content' = Content
  <2>1. \A g \in File : Size(g)' = i_size'[g]
    BY <1>1 DEF Size, NoRdwt
  <2>2. rw.type = "read" => fd_pos[d] <= i_size[f]
    BY <1>1, <1>2, <1>4 DEF IInv, EndInside
  <2>3. \A g \in File : i_size'[g] = Size(g)
    BY <1>1, <1>3, <2>2 DEF Size, IInv, TypeOK
  <2>. QED BY <1>1, <2>1, <2>3, SameContent
<1>6. ~Abstract!Idle
  BY <1>2, IdleJob DEF IInv
<1>7. Job.left = 0 /\ Job' = Abstract!NoJob
  BY <1>1, <1>4 DEF Job, NoRdwt, Abstract!NoJob
<1>. QED BY <1>1, <1>5, <1>6, <1>7 DEF Abstract!End, Abstract!Next

LEMMA SeekRefines ==
    ASSUME IInv, NEW d \in Desc, NEW off \in -Capacity .. Capacity, do_lseek(d, off)
    PROVE  Abstract!Next
<1>. USE CapacityNat, ReadWriteAssumption
<1>1. Idle /\ Abstract!Idle /\ UNCHANGED <<disk, i_size, rw>>
  BY IdleJob DEF do_lseek, IInv
<1>2. PICK p \in Nat : p <= i_size[FileOf[d]] /\ fd_pos' = [fd_pos EXCEPT ![d] = p]
  <2>1. PICK base \in Int : /\ Place(base + off, i_size[FileOf[d]])
                            /\ fd_pos' = [fd_pos EXCEPT ![d] = base + off]
    <3>1. 0 \in Int /\ fd_pos[d] \in Int /\ i_size[FileOf[d]] \in Int
      BY DEF IInv, TypeOK
    <3>. QED BY <3>1 DEF do_lseek
  <2>2. base + off \in Nat /\ base + off <= i_size[FileOf[d]]
    BY <2>1 DEF Place
  <2>. QED BY <2>1, <2>2
<1>3. Content' = Content /\ Job' = Job
  <2>1. \A g \in File : Size(g)' = i_size[g] /\ Size(g) = i_size[g]
    BY <1>1, IdleSize DEF Size, Idle, NoRdwt
  <2>. QED BY <1>1, <2>1, SameContent DEF Job
<1>4. p \in 0 .. Len(Content[FileOf[d]])
  <2>1. PICK f \in File : f = FileOf[d]
    OBVIOUS
  <2>2. Len(Content[f]) = i_size[f]
    BY <1>1, ContentFacts, IdleSize
  <2>3. i_size[f] \in Nat
    BY DEF IInv, TypeOK
  <2>. QED BY <1>2, <2>1, <2>2, <2>3
<1>5. Abstract!Seek(d)
  BY <1>1, <1>2, <1>3, <1>4 DEF Abstract!Seek
<1>. QED BY <1>5 DEF Abstract!Next

LEMMA OpenRefines ==
    ASSUME IInv, NEW d \in Desc, NEW truncate \in BOOLEAN, do_open(d, truncate)
    PROVE  Abstract!Next
<1>. USE ReadWriteAssumption
<1>1. Idle /\ Abstract!Idle /\ UNCHANGED <<disk, rw>> /\ fd_pos' = [fd_pos EXCEPT ![d] = 0]
  BY IdleJob DEF do_open, IInv
<1>2. PICK f \in File : f = FileOf[d]
  OBVIOUS
<1>3. \A g \in File : Size(g)' = i_size'[g] /\ Size(g) = i_size[g]
  BY <1>1, IdleSize DEF Size, Idle, NoRdwt
<1>4. Content' = IF truncate THEN [Content EXCEPT ![f] = <<>>] ELSE Content
  <2>1. CASE ~truncate
    BY <1>1, <1>3, <2>1, SameContent DEF do_open
  <2>2. CASE truncate
    <3>1. i_size' = [i_size EXCEPT ![f] = 0]
      BY <1>2, <2>2 DEF do_open
    <3>2. i_size'[f] = 0 /\ \A g \in File : g # f => i_size'[g] = i_size[g]
      BY <3>1 DEF IInv, TypeOK
    <3>3. ASSUME NEW g \in File
          PROVE  Content'[g] = IF g = f THEN <<>> ELSE Content[g]
      <4>1. CASE g = f
        <5>1. Content'[g] \in [1 .. 0 -> {}]
          BY <1>3, <3>2, <4>1 DEF Content
        <5>2. Content'[g] \in Seq({}) /\ Len(Content'[g]) = 0
          BY <5>1, PieceIsSeq
        <5>. QED BY <4>1, <5>2
      <4>2. CASE g # f
        BY <1>1, <1>3, <3>2, <4>2 DEF Content
      <4>. QED BY <4>1, <4>2
    <3>4. /\ Content' = [g \in File |-> Content'[g]]
          /\ Content = [g \in File |-> Content[g]]
      BY DEF Content
    <3>5. Content' = [Content EXCEPT ![f] = <<>>]
      BY <3>3, <3>4
    <3>. QED BY <2>2, <3>5
  <2>. QED BY <2>1, <2>2
<1>5. Job' = Job
  BY <1>1 DEF Job
<1>6. Abstract!Reopen(d, truncate)
  BY <1>1, <1>2, <1>4, <1>5 DEF Abstract!Reopen
<1>. QED BY <1>6 DEF Abstract!Next

\* No address belongs to two files.
LEMMA StripsApart ==
    ASSUME NEW f \in File, NEW g \in File, f # g,
           NEW i \in 1 .. Capacity, NEW j \in 1 .. Capacity
    PROVE  Start[f] * SECTOR_SIZE + i - 1 # Start[g] * SECTOR_SIZE + j - 1
<1>1. PICK a \in Nat, b \in Nat :
        /\ a = Start[f] /\ b = Start[g] /\ (a + Sects <= b \/ b + Sects <= a)
  BY ReadWriteAssumption
<1>2. PICK s \in Nat, n \in Nat : s = SECTOR_SIZE /\ n = Sects
  BY ReadWriteAssumption
<1>3. /\ (a + n) * s = a * s + Capacity /\ (b + n) * s = b * s + Capacity
  BY ONLY <1>1, <1>2, Times DEF Capacity
<1>4. a * s \in Nat /\ b * s \in Nat /\ (a + n) * s \in Nat /\ (b + n) * s \in Nat
  BY ONLY <1>1, <1>2, TimesNat
<1>5. (a + n <= b => (a + n) * s <= b * s) /\ (b + n <= a => (b + n) * s <= a * s)
  BY ONLY <1>1, <1>2, Times
<1>6. a * s + Capacity <= b * s \/ b * s + Capacity <= a * s
  BY <1>1, <1>2, <1>3, <1>5
<1>7. PICK x \in Nat, y \in Nat : x = Start[f] * SECTOR_SIZE /\ y = Start[g] * SECTOR_SIZE
                               /\ (x + Capacity <= y \/ y + Capacity <= x)
  BY <1>1, <1>2, <1>4, <1>6
<1>. QED BY <1>7, CapacityNat

\* What Move does to the job.
Fields(l, n, g) == [type |-> rw.type, d |-> rw.d, byte |-> rw.byte, left |-> l, done |-> n, got |-> g]
MoveRead(l, n, g) == [Job EXCEPT !.left = l, !.done = n, !.got = g]
MoveWrite(l, n) == [Job EXCEPT !.left = l, !.done = n]

LEMMA MovedJob ==
    ASSUME NEW l1, NEW n1, NEW g1
    PROVE  /\ MoveWrite(l1, n1) = Fields(l1, n1, rw.got)
           /\ MoveRead(l1, n1, g1) = Fields(l1, n1, g1)
<1>1. PICK j : j = Job
  OBVIOUS
<1>2. PICK j1 : j1 = [j EXCEPT !.left = l1]
  OBVIOUS
<1>3. PICK j2 : j2 = [j1 EXCEPT !.done = n1]
  OBVIOUS
<1>4. PICK j3 : j3 = [j2 EXCEPT !.got = g1]
  OBVIOUS
<1>5. j = Fields(rw.left, rw.done, rw.got)
  BY <1>1 DEF Job, Fields
<1>6. j1 = Fields(l1, rw.done, rw.got)
  BY <1>2, <1>5 DEF Fields
<1>7. j2 = Fields(l1, n1, rw.got)
  BY <1>3, <1>6 DEF Fields
<1>8. j3 = Fields(l1, n1, g1)
  BY <1>4, <1>7 DEF Fields
<1>9. j2 = [j EXCEPT !.left = l1, !.done = n1] /\ j3 = [j EXCEPT !.left = l1, !.done = n1, !.got = g1]
  BY ONLY <1>2, <1>3, <1>4
<1>. QED BY <1>1, <1>7, <1>8, <1>9 DEF MoveRead, MoveWrite

\* The k bytes from an address on.
LiesAt(from, k, s) == s \in [1 .. k -> Byte] /\ \A j \in 1 .. k : s[j] = disk[from + j - 1]

\* A part of a file is what lies at its addresses.
LEMMA PartOfContent ==
    ASSUME IInv, NEW f \in File, NEW p \in Nat, NEW k \in Nat, NEW first, NEW last,
           first = p + 1, last = p + k, last <= Size(f),
           NEW from, from = Start[f] * SECTOR_SIZE + p
    PROVE  LiesAt(from, k, SubSeq(Content[f], first, last))
<1>1. PICK c \in Seq(Byte), size \in Nat, start \in Nat :
        /\ c = Content[f] /\ size = Size(f) /\ Len(c) = size /\ start = Start[f] * SECTOR_SIZE
        /\ c = [j \in 1 .. size |-> disk[start + j - 1]]
  <2>1. PICK size \in Nat, start \in Nat : size = Size(f) /\ start = Start[f] * SECTOR_SIZE
    BY SizeInStrip, CapacityNat, TimesNat, ReadWriteAssumption
  <2>2. PICK c \in Seq(Byte) : /\ c = Content[f] /\ Len(c) = Size(f)
                               /\ c = [j \in 1 .. Size(f) |-> disk[Start[f] * SECTOR_SIZE + j - 1]]
    BY ContentFacts
  <2>. QED BY ONLY <2>1, <2>2
<1>2. from = start + p /\ p + k <= size
  BY <1>1
<1>3. \A j \in 1 .. k : c[p + j] = disk[from + j - 1]
  <2>. SUFFICES ASSUME NEW j \in 1 .. k PROVE c[p + j] = disk[from + j - 1]
    OBVIOUS
  <2>1. p + j \in 1 .. size /\ start + (p + j) - 1 = from + j - 1
    BY <1>2
  <2>. QED BY ONLY <1>1, <2>1
<1>4. SubSeq(c, p + 1, p + k) = [j \in 1 .. k |-> c[p + j]]
  <2>1. (p + k) - (p + 1) + 1 = k /\ \A j \in 1 .. k : j + (p + 1) - 1 = p + j
    OBVIOUS
  <2>. QED BY ONLY <2>1, <1>1, <1>2, p \in Nat, k \in Nat
<1>5. \A j \in 1 .. k : c[p + j] \in Byte
  <2>1. \A j \in 1 .. k : p + j \in 1 .. Len(c)
    BY <1>1, <1>2
  <2>. QED BY <1>1, <2>1
<1>6. PICK s : s = SubSeq(c, p + 1, p + k)
  OBVIOUS
<1>7. s \in [1 .. k -> Byte] /\ \A j \in 1 .. k : s[j] = disk[from + j - 1]
  BY ONLY <1>3, <1>4, <1>5, <1>6
<1>. QED BY <1>1, <1>6, <1>7 DEF LiesAt

\* A chunk goes to the disk; the file grows if it ends beyond the end.
ChunkWritten(from, k, piece) ==
    \A a \in Address : disk'[a] = IF a \in from .. from + k - 1 THEN piece[a - from + 1] ELSE disk[a]

Grows(f, p, k) ==
    /\ p + k \in 0 .. Capacity
    /\ Size(f) = IF p > i_size[f] THEN p ELSE i_size[f]
    /\ Size(f)' = IF p + k > i_size[f] THEN p + k ELSE i_size[f]
    /\ \A g \in File : g # f => Size(g)' = Size(g)

\* What a chunk written at the place p of a file leaves in the files.
LEMMA WrittenContent ==
    ASSUME IInv, NEW f \in File, NEW p \in Nat, NEW k \in Nat, Grows(f, p, k),
           NEW from \in Nat, from = Start[f] * SECTOR_SIZE + p,
           NEW pl, pl \in [1 .. k -> Byte], ChunkWritten(from, k, pl)
    PROVE  /\ Content'[f] = Abstract!Written(Content[f], p, pl)
           /\ \A g \in File : g # f => Content'[g] = Content[g]
<1>. USE CapacityNat
<1>0. p + k \in 0 .. Capacity
  BY DEF Grows
<1>1. PICK start \in Nat, size \in Nat :
        /\ start = Start[f] * SECTOR_SIZE /\ size = i_size[f] /\ size <= Capacity
        /\ from = start + p
  BY TimesNat, ReadWriteAssumption, SMTT(30) DEF IInv, TypeOK
<1>2. PICK c \in Seq(Byte), n \in Nat :
        /\ c = Content[f] /\ n = Size(f) /\ Len(c) = n /\ n = IF p > size THEN p ELSE size
        /\ c = [j \in 1 .. n |-> disk[start + j - 1]]
  <2>1. PICK c \in Seq(Byte) : /\ c = Content[f] /\ Len(c) = Size(f)
                               /\ c = [j \in 1 .. Size(f) |-> disk[Start[f] * SECTOR_SIZE + j - 1]]
    BY ContentFacts
  <2>2. PICK n \in Nat : n = Size(f) /\ n = IF p > size THEN p ELSE size
    BY <1>1 DEF Grows
  <2>. QED BY ONLY <1>1, <2>1, <2>2, SMTT(30)
<1>3. PICK m \in Nat : m = Size(f)' /\ m = IF p + k > n THEN p + k ELSE n
  <2>1. PICK m \in Nat : m = Size(f)' /\ m = IF p + k > size THEN p + k ELSE size
    BY <1>0, <1>1 DEF Grows
  <2>2. (IF p + k > size THEN p + k ELSE size) = IF p + k > n THEN p + k ELSE n
    BY <1>2
  <2>. QED BY <2>1, <2>2
<1>30. from = start + p
  BY <1>1
<1>4. n <= Capacity /\ m <= Capacity
  BY <1>0, <1>1, <1>2, <1>3
<1>5. ASSUME NEW j \in 1 .. m
      PROVE  disk'[start + j - 1] = IF j \in p + 1 .. p + k THEN pl[j - p] ELSE c[j]
  <2>1. start + j - 1 \in Address
    <3>1. j \in 1 .. Capacity
      BY <1>4
    <3>. QED BY <1>1, <3>1, StripAddresses
  <2>2. CASE j \in p + 1 .. p + k
    <3>1. start + j - 1 \in from .. from + k - 1 /\ (start + j - 1) - from + 1 = j - p
      BY ONLY <1>30, <2>2
    <3>. QED BY <2>1, <2>2, <3>1 DEF ChunkWritten
  <2>3. CASE j \notin p + 1 .. p + k
    <3>1. start + j - 1 \notin from .. from + k - 1
      BY ONLY <1>30, <2>3
    <3>2. j \in 1 .. n
      BY <1>2, <1>3, <2>3
    <3>3. disk'[start + j - 1] = disk[start + j - 1]
      BY <2>1, <3>1 DEF ChunkWritten
    <3>. QED BY ONLY <1>2, <2>3, <3>2, <3>3
  <2>. QED BY <2>2, <2>3
<1>6. Content'[f] = [j \in 1 .. m |-> disk'[start + j - 1]]
  BY <1>1, <1>3 DEF Content
<1>7. Abstract!Written(c, p, pl) = [j \in 1 .. m |-> IF j \in p + 1 .. p + k THEN pl[j - p] ELSE c[j]]
  <2>1. Len(pl) = k
    BY PieceIsSeq
  <2>. QED BY <1>2, <1>3, <2>1 DEF Abstract!Written
<1>8. Content'[f] = Abstract!Written(Content[f], p, pl)
  BY ONLY <1>2, <1>5, <1>6, <1>7
<1>9. ASSUME NEW g \in File, g # f PROVE Content'[g] = Content[g]
  <2>1. PICK other \in Nat, last \in Nat :
          other = Start[g] * SECTOR_SIZE /\ last = Size(g) /\ last <= Capacity
    <3>1. Start[g] * SECTOR_SIZE \in Nat
      BY TimesNat, ReadWriteAssumption
    <3>2. Size(g) \in Nat /\ Size(g) <= Capacity
      BY ONLY SizeInStrip, IInv, CapacityNat, g \in File
    <3>. QED BY ONLY <3>1, <3>2
  <2>2. ASSUME NEW j \in 1 .. last PROVE disk'[other + j - 1] = disk[other + j - 1]
    <3>1. j \in 1 .. Capacity
      BY <2>1
    <3>2. other + j - 1 \in Address
      BY <2>1, <3>1, StripAddresses
    <3>3. ASSUME other + j - 1 \in from .. from + k - 1 PROVE FALSE
      <4>1. PICK i \in 1 .. Capacity : start + i - 1 = other + j - 1
        <5>1. (other + j - start) \in 1 .. Capacity /\ start + (other + j - start) - 1 = other + j - 1
          BY ONLY <1>0, <1>30, <3>3, CapacityNat
        <5>. QED BY <5>1
      <4>. QED BY <1>1, <1>9, <2>1, <3>1, <4>1, StripsApart
    <3>. QED BY <3>2, <3>3 DEF ChunkWritten
  <2>3. /\ Content'[g] = [j \in 1 .. last |-> disk'[other + j - 1]]
        /\ Content[g] = [j \in 1 .. last |-> disk[other + j - 1]]
    BY <1>9, <2>1 DEF Content, Grows
  <2>. QED BY ONLY <2>2, <2>3
<1>. QED BY <1>8, <1>9

LEMMA TurnRefines == ASSUME IInv, Turn PROVE Abstract!Next \/ UNCHANGED Abstract!vars
<1>. USE CapacityNat
<1>1. PICK k \in Nat, from \in Nat, f \in File, p \in Nat, next \in Nat :
             /\ f = FileOf[rw.d] /\ p = fd_pos[rw.d] /\ p + k <= Capacity /\ k <= rw.left
             /\ rw.type = "read" => p + k <= i_size[f]
             /\ from = Start[f] * SECTOR_SIZE + p
             /\ next = rw.sect + rw.chunk
             /\ \/ k + from = next * SECTOR_SIZE
                \/ k = rw.left /\ next > rw.max
             /\ rw' = [rw EXCEPT !.sect = next, !.off = 0, !.left = @ - k, !.done = @ + k,
                                 !.got = IF rw.type = "read"
                                         THEN @ \o [j \in 1 .. k |-> disk[from + j - 1]] ELSE @]
             /\ fd_pos' = [fd_pos EXCEPT ![rw.d] = p + k]
             /\ disk' = IF rw.type = "write"
                        THEN [a \in Address |-> IF a \in from .. from + k - 1
                                                THEN Payload(rw.byte, rw.done, k)[a - from + 1]
                                                ELSE disk[a]]
                        ELSE disk
             /\ UNCHANGED i_size
  BY ChunkFacts
<1>2. /\ rw \in Rdwt /\ ~Idle /\ fd_pos \in [Desc -> 0 .. Capacity]
      /\ i_size \in [File -> 0 .. Capacity] /\ disk \in [Address -> Byte]
  BY DEF Turn, IInv, TypeOK
<1>3. rw.d \in Desc /\ rw.left \in Nat /\ rw.done \in Nat /\ rw.byte \in Byte
      /\ rw.got \in Seq(Byte) /\ rw.type \in {"read", "write"}
  BY <1>2 DEF Rdwt
<1>4. /\ k <= rw.left /\ p + k \in 0 .. Capacity /\ p = fd_pos[rw.d] /\ f = FileOf[rw.d]
      /\ fd_pos' = [fd_pos EXCEPT ![rw.d] = p + k] /\ i_size' = i_size
      /\ from = Start[f] * SECTOR_SIZE + p /\ (rw.type = "read" => p + k <= i_size[f])
  BY <1>1
<1>5. fd_pos'[rw.d] = p + k /\ fd_pos' = [fd_pos EXCEPT ![rw.d] = @ + k]
  BY <1>2, <1>3, <1>4
<1>6. /\ rw'.d = rw.d /\ rw'.type = rw.type /\ rw'.byte = rw.byte
      /\ rw'.left = rw.left - k /\ rw'.done = rw.done + k
      /\ rw'.got = IF rw.type = "read"
                   THEN rw.got \o [j \in 1 .. k |-> disk[from + j - 1]] ELSE rw.got
  BY <1>1, <1>2 DEF Rdwt
<1>7. /\ Job = [type |-> rw.type, d |-> rw.d, byte |-> rw.byte, left |-> rw.left,
                done |-> rw.done, got |-> rw.got]
      /\ Job' = [type |-> rw.type, d |-> rw.d, byte |-> rw.byte, left |-> rw.left - k,
                 done |-> rw.done + k, got |-> rw'.got]
  BY <1>6 DEF Job
<1>8. \A g \in File : g # f => Size(g)' = Size(g)
  BY <1>4, <1>6 DEF Size
<1>9. /\ Size(f) = IF rw.type = "write" /\ p > i_size[f] THEN p ELSE i_size[f]
      /\ Size(f)' = IF rw.type = "write" /\ p + k > i_size[f] THEN p + k ELSE i_size[f]
  BY <1>4, <1>5, <1>6 DEF Size
<1>10. CASE k = 0
  <2>1. disk' = disk
    BY <1>1, <1>2, <1>10
  <2>2. fd_pos' = fd_pos
    BY <1>2, <1>3, <1>4, <1>10
  <2>3. Content' = Content
    <3>1. p + k = p
      BY <1>10
    <3>2. \A g \in File : Size(g)' = Size(g)
      BY <1>8, <1>9, <3>1
    <3>. QED BY <2>1, <3>2, SameContent
  <2>4. rw'.got = rw.got
    <3>1. [j \in 1 .. k |-> disk[from + j - 1]] = <<>>
      <4>1. [j \in 1 .. k |-> disk[from + j - 1]] \in [1 .. 0 -> {}]
        BY <1>10
      <4>. QED BY <4>1, PieceIsSeq
    <3>2. rw.got \o <<>> = rw.got
      BY <1>3
    <3>3. rw'.got = rw.got \/ rw'.got = rw.got \o [j \in 1 .. k |-> disk[from + j - 1]]
      BY <1>6
    <3>. QED BY <3>1, <3>2, <3>3
  <2>5. Job' = Job
    BY <1>3, <1>7, <1>10, <2>4
  <2>. QED BY <2>2, <2>3, <2>5 DEF Abstract!vars
<1>11. CASE k # 0
  <2>1. k \in 1 .. Job.left /\ Job.type = rw.type /\ Job.d = rw.d /\ Job.byte = rw.byte
        /\ Job.done = rw.done
    BY <1>3, <1>4, <1>7, <1>11
  <2>2. CASE rw.type = "read"
    <3>1. disk' = disk
      BY <1>1, <2>2
    <3>2. \A g \in File : Size(g)' = Size(g)
      BY <1>8, <1>9, <2>2
    <3>3. Content' = Content
      BY <3>1, <3>2, SameContent
    <3>4. SubSeq(Content[f], p + 1, p + k) = [j \in 1 .. k |-> disk[from + j - 1]]
      <4>1. p + k <= Size(f)
        BY <1>4, <1>9, <2>2
      <4>2. from = Start[f] * SECTOR_SIZE + p
        BY <1>4
      <4>3. PICK s, first, last :
              s = SubSeq(Content[f], first, last) /\ first = p + 1 /\ last = p + k
        OBVIOUS
      <4>4. LiesAt(from, k, s)
        BY ONLY <4>1, <4>2, <4>3, IInv, PartOfContent
      <4>. QED BY ONLY <4>3, <4>4 DEF LiesAt
    <3>5. Job' = [Job EXCEPT !.left = @ - k, !.done = @ + k,
                             !.got = @ \o SubSeq(Content[f], p + 1, p + k)]
      <4>1. rw'.got = rw.got \o SubSeq(Content[f], p + 1, p + k)
        BY <1>6, <2>2, <3>4
      <4>2. Job.left = rw.left /\ Job.done = rw.done /\ Job.got = rw.got
        BY <1>7
      <4>3. PICK l, n, g : l = rw.left - k /\ n = rw.done + k /\ g = rw'.got
        OBVIOUS
      <4>4. MoveRead(l, n, g) = Fields(l, n, g)
        BY MovedJob
      <4>5. [Job EXCEPT !.left = l, !.done = n, !.got = g] = Job'
        BY <1>7, <4>3, <4>4 DEF MoveRead, Fields
      <4>. QED BY ONLY <4>1, <4>2, <4>3, <4>5
    <3>6. Abstract!Move(k)
      BY <1>4, <1>5, <2>1, <2>2, <3>3, <3>5 DEF Abstract!Move
    <3>. QED BY <2>1, <3>6 DEF Abstract!Next
  <2>3. CASE rw.type = "write"
    <3>0. PICK pl : pl = Payload(rw.byte, rw.done, k)
      OBVIOUS
    <3>01. pl \in [1 .. k -> Byte]
      BY <1>3, <3>0, PayloadType DEF Payload
    <3>02. ChunkWritten(from, k, pl)
      BY <1>1, <2>3, <3>0 DEF ChunkWritten
    <3>03. Grows(f, p, k)
      BY <1>4, <1>8, <1>9, <2>3 DEF Grows
    <3>04. from = Start[f] * SECTOR_SIZE + p
      BY <1>4
    <3>05. /\ Content'[f] = Abstract!Written(Content[f], p, pl)
           /\ \A g \in File : g # f => Content'[g] = Content[g]
      BY ONLY IInv, <3>01, <3>02, <3>03, <3>04, WrittenContent
    <3>1. Content'[f] = Abstract!Written(Content[f], p, Payload(rw.byte, rw.done, k))
      BY <3>0, <3>05
    <3>2. \A g \in File : g # f => Content'[g] = Content[g]
      BY <3>05
    <3>3. Content' = [Content EXCEPT ![f] = Abstract!Written(@, p, Payload(rw.byte, rw.done, k))]
      <4>1. /\ Content' = [g \in File |-> Content'[g]]
            /\ Content = [g \in File |-> Content[g]]
        BY DEF Content
      <4>. QED BY <3>1, <3>2, <4>1
    <3>4. Job' = [Job EXCEPT !.left = @ - k, !.done = @ + k]
      <4>1. rw'.got = rw.got /\ Job.left = rw.left /\ Job.done = rw.done /\ Job.got = rw.got
        BY <1>6, <1>7, <2>3
      <4>2. PICK l, n : l = rw.left - k /\ n = rw.done + k
        OBVIOUS
      <4>3. MoveWrite(l, n) = Fields(l, n, rw.got)
        BY MovedJob
      <4>4. [Job EXCEPT !.left = l, !.done = n] = Job'
        BY <1>7, <4>1, <4>2, <4>3 DEF MoveWrite, Fields
      <4>. QED BY ONLY <4>1, <4>2, <4>4
    <3>5. Payload(rw.byte, rw.done, k) = Abstract!Payload(rw.byte, rw.done, k)
      BY DEF Payload, Abstract!Payload
    <3>6. Abstract!Move(k)
      BY <1>4, <1>5, <2>1, <2>3, <3>3, <3>4, <3>5 DEF Abstract!Move
    <3>. QED BY <2>1, <3>6 DEF Abstract!Next
  <2>. QED BY <1>3, <2>2, <2>3
<1>. QED BY <1>10, <1>11

LEMMA NextRefines ==
    ASSUME InBounds, IInv, [Next]_vars PROVE Abstract!Next \/ UNCHANGED Abstract!vars
<1>1. ASSUME NEW d \in Desc, NEW n \in 0 .. MaxLen, Begin("read", d, n, 0) PROVE Abstract!Next
  <2>1. 0 \in 0 .. Bytes - 1
    BY ReadWriteAssumption
  <2>. QED BY <1>1, <2>1, BeginRefines
<1>2. ASSUME NEW d \in Desc, NEW n \in 0 .. MaxLen, NEW byte \in 0 .. Bytes - 1,
             Begin("write", d, n, byte)
      PROVE  Abstract!Next
  BY <1>2, BeginRefines
<1>3. ASSUME NEW d \in Desc, NEW off \in -Capacity .. Capacity, do_lseek(d, off)
      PROVE  Abstract!Next
  BY <1>3, SeekRefines
<1>4. ASSUME NEW d \in Desc, do_open(d, TRUE) \/ do_open(d, FALSE) PROVE Abstract!Next
  BY <1>4, OpenRefines
<1>5. CASE UNCHANGED vars
  BY <1>5 DEF vars, Abstract!vars, Content, Size, Job
<1>. QED BY <1>1, <1>2, <1>3, <1>4, <1>5, TurnRefines, FinishRefines DEF Next

\* do_rdwt, do_lseek and O_TRUNC, chunk by chunk and sector by sector, are the reads,
\* writes and seeks of plain byte sequences: every byte read is the one that the last
\* write put there, and no call touches a byte of another file.
THEOREM Refinement == ASSUME InBounds PROVE Spec => ReadsAndWrites
<1>1. Init => IInv /\ Abstract!Init
  BY InitInv, InitRefines
<1>2. IInv /\ [Next]_vars => IInv'
  BY NextInv
<1>3. IInv /\ [Next]_vars => [Abstract!Next]_Abstract!vars
  BY NextRefines
<1>. QED BY <1>1, <1>2, <1>3, PTL DEF Spec, ReadsAndWrites, Abstract!Spec
=============================================================================
