----------------------------- MODULE DiskProofs ------------------------------
(***************************************************************************)
(* The log on the disk is good up to its header whenever the power fails,  *)
(* and complete when LOG is idle, for every size of sectors, log, records  *)
(* and transfers, as long as FS does not dump inside a disklog() of LOG.   *)
(***************************************************************************)
EXTENDS Disk, SequenceTheorems, TLAPS

\* FS does not dump while LOG is inside disklog(): they share pos and logdiskbuf.
OneAtATime == ~DumpAnytime

\* Where disklog() waits for the driver.
MapPcs   == {"smap read", "smap write", "fill"}
DataPcs  == {"data read", "data write"}
HeadPcs  == {"head read", "head write", "last write"}
LogPcs   == MapPcs \cup DataPcs \cup HeadPcs
ReadPcs  == {"smap read", "data read", "head read"}
Pcs      == {"none", "open", "file"} \cup LogPcs
InLog(c) == call[c].pc \in LogPcs

Buffer == [0 .. SectorSize - 1 -> Nat]
Ops    == {"none", "open", "read", "write"}

TypeOK ==
    /\ disk \in [Sector -> Buffer]
    /\ drive \in [op : Ops, sect : 0 .. FILES, left : Nat, busy : BOOLEAN, data : Buffer]
    /\ irq \in BOOLEAN
    /\ hd \in [at : {"receive", "script", "interrupt", "transfer", "log", "reply"},
               client : Client, op : Ops, sect : 0 .. FILES, left : Nat,
               script : Seq({"command", "log"})]
    /\ hd_queue \in Seq(Client)
    /\ call \in [Client -> [at : {"idle", "calling", "answered", "sending"}, pc : Pcs, op : Ops,
                            sect : 0 .. FILES, n : Nat, str : Seq(Nat)]]
    /\ logdiskbuf \in Buffer /\ pos \in Nat
    /\ log_buf \in Seq(Nat) /\ system_ready \in BOOLEAN
    /\ todo \in Seq(Seq(Nat) \ {<<>>}) /\ Len(todo) <= 2
    /\ log_queue \in Seq({"HD", "TTY", "USER", "FS"})
    /\ records \in Nat /\ written \in Seq(Nat)
    /\ stopped \in BOOLEAN /\ crashes \in Nat

\* Where the commands of MEMSET_LOG_SECTS begin.
ChunkStart(s) == \E m \in Nat : s = m * MAX_IO

\* A request to the driver says what its client goes on to do with the answer.
Request(c) ==
    /\ call[c].at \in {"idle", "sending"} <=> call[c].pc = "none"
    /\ call[c].pc = "none" => call[c].op = "none"
    /\ call[c].pc = "open" <=> call[c].op = "open"
    /\ call[c].pc \in {"open", "file"} => c = "FS" /\ call[c].sect = FILES
    /\ call[c].pc = "file" => call[c].op \in {"read", "write"} /\ call[c].n \in 1 .. MAX_IO
    /\ InLog(c) =>
          /\ call[c].op = IF call[c].pc \in ReadPcs THEN "read" ELSE "write"
          /\ call[c].n = IF call[c].pc = "fill" THEN MAX_IO ELSE 1
          /\ call[c].pc \in {"smap read", "smap write"} => call[c].sect = SMAP
          /\ call[c].pc = "fill" =>
                ChunkStart(call[c].sect) /\ call[c].sect + MAX_IO <= LogSects
          /\ call[c].pc \in DataPcs => call[c].sect < LogSects - 1
          /\ call[c].pc \in {"head read", "head write"} => call[c].sect = 0
          /\ call[c].pc = "last write" => call[c].sect = LogSects - 1

\* LOG and FS are not both in disklog(), and LOG has nothing to write while FS is.
Turns ==
    /\ InLog("FS") => call["LOG"].at = "idle" /\ todo = <<>>
    /\ call["LOG"].at # "sending"
    /\ call["FS"].at # "idle" \/ call["FS"].pc = "none"

\* Who waits for the driver calls it; a client that is served does not wait.
ServesOne ==
    /\ \A i \in 1 .. Len(hd_queue) : call[hd_queue[i]].at = "calling"
    /\ \A i, j \in 1 .. Len(hd_queue) : hd_queue[i] = hd_queue[j] => i = j
    /\ hd.at # "receive" =>
          /\ call[hd.client].at = "calling"
          /\ \A i \in 1 .. Len(hd_queue) : hd_queue[i] # hd.client

\* What the driver does for its client.
Opens    == call[hd.client].op = "open"
Commands == {"interrupt", "transfer"}

DriverInv ==
    /\ hd.at \in {"script", "log"} => Opens
    /\ hd.at # "receive" /\ Opens =>
          /\ hd.at # "transfer" /\ hd.sect = FILES
          /\ hd.at = "interrupt" => hd.op = "read" /\ hd.left = 1
    /\ hd.at # "receive" /\ ~Opens =>
          /\ hd.op = call[hd.client].op /\ hd.sect = call[hd.client].sect
          /\ hd.left <= call[hd.client].n
          /\ hd.at = "reply" <=> hd.left = 0
          /\ hd.at = "transfer" => hd.op = "write"

\* The command that the drive has in hand: how far it is.
DriveInv ==
    /\ drive.busy => hd.at = "interrupt" /\ ~irq /\ drive.left = hd.left
    /\ irq => hd.at = "interrupt" /\ ~drive.busy /\ drive.left + 1 = hd.left
    /\ hd.at = "transfer" => drive.left = hd.left
    /\ hd.at \in Commands =>
          /\ drive.op = hd.op
          /\ IF hd.sect = FILES THEN drive.sect = FILES
             ELSE drive.sect + drive.left = hd.sect + call[hd.client].n

\* The buffer of disklog() and the disk: what was read is what the sector holds, what was
\* written the sector holds.
ReadIn(c)   == logdiskbuf = disk[call[c].sect]
Wrote(c, n) == \A s \in Sector :
                  call[c].sect <= s /\ s < call[c].sect + n => disk[s] = logdiskbuf
Served(c)   == call[c].at = "answered" \/ (hd.at = "reply" /\ hd.client = c)

Transfers ==
    \A c \in Client : InLog(c) =>
        /\ Served(c) /\ call[c].op = "read" => ReadIn(c)
        /\ Served(c) /\ call[c].op = "write" => Wrote(c, call[c].n)
        /\ hd.at \in Commands /\ hd.client = c =>
              /\ call[c].op = "write" =>
                    /\ \A s \in Sector : call[c].sect <= s /\ s < drive.sect => disk[s] = logdiskbuf
                    /\ drive.busy => drive.data = logdiskbuf
              /\ call[c].op = "read" /\ irq => drive.data = disk[call[c].sect]

\* HD and FS report once at a time; what HD has yet to report is seen in its script.
ScriptFrom(n) == [k \in 1 .. n |-> IF n - k \in {0, Tables + 1} THEN "log" ELSE "command"]

Reporters ==
    /\ \A i \in 1 .. Len(log_queue) :
          /\ log_queue[i] = "FS" => call["FS"].at = "sending"
          /\ log_queue[i] = "HD" => hd.at = "log"
    /\ \A i, j \in 1 .. Len(log_queue) :
          log_queue[i] = log_queue[j] /\ log_queue[i] \in {"HD", "FS"} => i = j
    /\ Len(hd.script) <= Tables + 3 /\ hd.script = ScriptFrom(Len(hd.script))

\* Reports still to come from what FS and HD have in hand.
HdDue ==
    IF hd.at = "receive" \/ hd.client # "FS" THEN 2
    ELSE IF Len(hd.script) > Tables + 1 THEN 2 ELSE IF hd.script # <<>> THEN 1 ELSE 0

Due ==
    CASE call["FS"].pc = "open" -> IF call["FS"].at = "calling" THEN HdDue ELSE 0
      [] call["FS"].pc = "file" -> 2
      [] InLog("FS")            -> 1
      [] call["FS"].pc = "none" -> 0

\* All characters that LOG and FS were given: on the disk or on their way.
Pending(c) == IF call[c].pc \in MapPcs THEN call[c].str ELSE <<>>
Todo(k)    == IF k <= Len(todo) THEN todo[k] ELSE <<>>
Given      == Len(written) + Len(Pending("LOG")) + Len(Pending("FS")) + Len(Todo(1))
                  + Len(Todo(2)) + Len(log_buf)
GivenSet   == ToSet(written) \cup ToSet(Pending("LOG")) \cup ToSet(Pending("FS"))
                  \cup ToSet(Todo(1)) \cup ToSet(Todo(2)) \cup ToSet(log_buf)
Chars(n)   == n * RecordLen

\* The log of this session has room, unless an earlier one has marked it in the map.
Fresh == pos > 0 \/ disk[SMAP] = Filled(0) \/ \E c \in Client : call[c].pc = "smap write"

Lengths ==
    /\ Given <= Chars(records)
    /\ Fresh => Given + Chars(Len(log_queue) + Due) <= Chars(MaxRecords)
    /\ crashes = 0 => Given = Chars(records) /\ GivenSet = 1 .. records

\* What disklog() knows where it waits.
Rest(c) == call[c].str

Content(c) ==
    /\ call[c].pc \in MapPcs \cup DataPcs => Rest(c) # <<>>
    /\ call[c].pc \in {"smap read", "smap write"} => pos = 0
    /\ call[c].pc = "smap write" => logdiskbuf = Filled(1) /\ written = <<>>
    /\ call[c].pc = "fill" => pos = 1 /\ written = <<>> /\ logdiskbuf = Filled(0)
    /\ call[c].pc \in DataPcs =>
          /\ pos > 0 /\ call[c].sect = pos \div SectorSize
          /\ pos + Len(Rest(c)) = Len(written) + 1
          /\ \A i \in 1 .. Len(Rest(c)) : Rest(c)[i] = written[pos - 1 + i]
    /\ call[c].pc = "data write" =>
          /\ \A i \in 0 .. Off - 1 : logdiskbuf[i] = disk[call[c].sect][i]
          /\ \A i \in 1 .. Part(Rest(c)) : logdiskbuf[Off + i - 1] = Rest(c)[i]
    /\ call[c].pc \in HeadPcs => pos = Len(written) + 1 /\ written # <<>>
    /\ call[c].pc = "head write" =>
          logdiskbuf[0] = pos /\ \A i \in 1 .. SectorSize - 1 : logdiskbuf[i] = disk[0][i]
    /\ call[c].pc = "last write" => Header = pos

\* The sector map tells whether the log was begun, and a log that was is never begun again.
Begun ==
    /\ disk[SMAP] \in {Filled(0), Filled(1)}
    /\ disk[SMAP] = Filled(0) => written = <<>> /\ pos = 0
    /\ written = <<>> => Header = 0
    /\ crashes = 0 /\ pos = 0 =>
          written = <<>> /\ (disk[SMAP] = Filled(0) \/ \E c \in Client : call[c].pc = "smap write")

\* What is on the disk below pos is what was to be written.
OnDiskBelow ==
    /\ pos > 0 =>
          /\ pos <= Len(written) + 1 /\ Header <= pos
          /\ \A k \in 1 .. pos - 1 : OnDisk(k) = written[k]
    /\ pos > 0 /\ (\A c \in Client : ~InLog(c)) =>
          pos = Len(written) + 1 /\ written # <<>> /\ Header = pos

IInv ==
    /\ TypeOK /\ \A c \in Client : Request(c) /\ Content(c)
    /\ Turns /\ ServesOne /\ DriverInv /\ DriveInv /\ Transfers
    /\ Reporters /\ Lengths /\ Begun /\ OnDiskBelow /\ HeaderCovers
-----------------------------------------------------------------------------
\* Sectors and positions.

LEMMA TimesLess ==
    ASSUME NEW q \in Nat, NEW r \in Nat, NEW d \in Nat \ {0}, q * d < r * d PROVE q < r
<1>1. ASSUME r <= q PROVE FALSE
  <2>1. PICK k \in Nat : q = r + k
    BY <1>1
  <2>2. k * d \in Nat /\ r * d \in Nat
    OBVIOUS
  <2>3. (r + k) * d = r * d + k * d
    OBVIOUS
  <2>. QED BY <2>1, <2>2, <2>3
<1>. QED BY <1>1

LEMMA Division ==
    ASSUME NEW p \in Nat, NEW d \in Nat \ {0}
    PROVE  p \div d \in Nat /\ p % d \in 0 .. d - 1 /\ p = ((p \div d) * d) + (p % d)
OBVIOUS

LEMMA DivisionOnce ==
    ASSUME NEW s \in Nat, NEW d \in Nat \ {0}, NEW o \in 0 .. d - 1, NEW p \in Nat, p = (s * d) + o
    PROVE  p \div d = s /\ p % d = o
<1>1. PICK q, r : q = p \div d /\ r = p % d
  OBVIOUS
<1>2. q \in Nat /\ r \in 0 .. d - 1 /\ p = (q * d) + r
  BY Division, <1>1
<1>3. s * d < (q + 1) * d
  <2>1. (q + 1) * d = (q * d) + d /\ q * d \in Nat /\ s * d \in Nat
    BY <1>2
  <2>. QED BY <1>2, <2>1
<1>4. q * d < (s + 1) * d
  <2>1. (s + 1) * d = (s * d) + d /\ q * d \in Nat /\ s * d \in Nat
    BY <1>2
  <2>. QED BY <1>2, <2>1
<1>5. s < q + 1
  <2>1. PICK u \in Nat : u = q + 1
    BY <1>2
  <2>. QED BY <1>3, <2>1, TimesLess
<1>6. q < s + 1
  <2>1. PICK u \in Nat : u = s + 1
    OBVIOUS
  <2>. QED BY <1>2, <1>4, <2>1, TimesLess
<1>7. q = s
  BY <1>2, <1>5, <1>6
<1>8. s * d \in Nat
  OBVIOUS
<1>. QED BY <1>1, <1>2, <1>7, <1>8

LEMMA Sizes ==
    /\ SectorSize \in Nat \ {0} /\ MAX_IO \in Nat \ {0} /\ RecordLen \in Nat \ {0}
    /\ LogSects \in Nat /\ LogSects >= 2 /\ Tables \in Nat
    /\ MaxRecords \in Nat /\ MaxRecords >= 2
<1>1. /\ SectorSize \in Nat \ {0} /\ MAX_IO \in Nat \ {0} /\ RecordLen \in Nat \ {0}
      /\ LogSects \in Nat /\ Tables \in Nat /\ MaxRecords \in Nat /\ MaxRecords >= 2
      /\ 1 + MaxRecords * RecordLen <= (LogSects - 1) * SectorSize
  BY DiskAssumption
<1>2. MaxRecords * RecordLen \in Nat
  BY <1>1
<1>3. (LogSects - 1) * SectorSize > 0
  BY <1>1, <1>2
<1>4. LogSects >= 2
  <2>1. CASE LogSects = 0
    <3>1. (0 - 1) * SectorSize = 0 - SectorSize
      BY <1>1
    <3>. QED BY <1>1, <1>3, <2>1, <3>1
  <2>2. CASE LogSects = 1
    <3>1. 0 * SectorSize = 0
      BY <1>1
    <3>. QED BY <1>1, <1>3, <2>2, <3>1
  <2>. QED BY <1>1, <2>1, <2>2
<1>. QED BY <1>1, <1>4

LEMMA CountIs == ASSUME NEW n \in 1 .. MAX_IO PROVE Count(n) = n
<1>1. CASE n = MAX_IO
  BY <1>1, Sizes DEF Count
<1>2. CASE n < MAX_IO
  <2>1. 0 * MAX_IO = 0
    BY Sizes
  <2>2. n % MAX_IO = n
    BY Sizes, <1>2, <2>1, DivisionOnce
  <2>. QED BY <2>2, Sizes DEF Count
<1>. QED BY <1>1, <1>2, Sizes

LEMMA FillSteps ==
    /\ 0 = 0 * MAX_IO /\ MAX_IO <= LogSects
    /\ \A m \in Nat : m * MAX_IO + MAX_IO = (m + 1) * MAX_IO
    /\ \A m \in Nat : m * MAX_IO < LogSects => m * MAX_IO + MAX_IO <= LogSects
<1>1. PICK r \in Nat : LogSects = r * MAX_IO
  <2>1. LogSects % MAX_IO = 0
    BY DiskAssumption
  <2>2. PICK r \in Nat : LogSects = (r * MAX_IO) + 0
    BY Sizes, <2>1, Division
  <2>3. r * MAX_IO \in Nat
    BY Sizes
  <2>. QED BY <2>2, <2>3
<1>2. \A m \in Nat : m * MAX_IO + MAX_IO = (m + 1) * MAX_IO /\ m * MAX_IO \in Nat
  BY Sizes
<1>3. \A m \in Nat : m * MAX_IO < LogSects => m * MAX_IO + MAX_IO <= LogSects
  <2>1. ASSUME NEW m \in Nat, m * MAX_IO < LogSects PROVE m * MAX_IO + MAX_IO <= LogSects
    <3>1. m < r
      BY <1>1, <2>1, Sizes, TimesLess
    <3>2. PICK k \in Nat : r = (m + 1) + k
      BY <3>1
    <3>3. ((m + 1) + k) * MAX_IO = ((m + 1) * MAX_IO) + (k * MAX_IO)
          /\ k * MAX_IO \in Nat /\ (m + 1) * MAX_IO \in Nat
      BY Sizes
    <3>. QED BY <1>1, <1>2, <3>2, <3>3
  <2>. QED BY <2>1
<1>4. 0 * MAX_IO = 0
  BY Sizes
<1>. QED BY Sizes, <1>2, <1>3, <1>4

\* The positions of a sector.
LEMMA SectorOf ==
    ASSUME NEW p \in Nat
    PROVE  /\ p \div SectorSize \in Nat /\ p % SectorSize \in 0 .. SectorSize - 1
           /\ p % SectorSize <= p
           /\ \A k \in Nat : p - (p % SectorSize) <= k /\ k < p - (p % SectorSize) + SectorSize =>
                 /\ k \div SectorSize = p \div SectorSize
                 /\ k % SectorSize = k - (p - (p % SectorSize))
           /\ \A k \in Nat : k \div SectorSize = p \div SectorSize =>
                 p - (p % SectorSize) <= k /\ k < p - (p % SectorSize) + SectorSize
<1>1. PICK d \in Nat \ {0} : d = SectorSize
  BY Sizes
<1>2. PICK s, o : s = p \div d /\ o = p % d
  OBVIOUS
<1>3. s \in Nat /\ o \in 0 .. d - 1 /\ p = (s * d) + o
  BY Division, <1>2
<1>4. PICK b \in Nat : b = s * d
  BY <1>3
<1>5. p - o = b
  BY <1>3, <1>4
<1>6. ASSUME NEW k \in Nat, b <= k, k < b + d PROVE k \div d = s /\ k % d = k - b
  <2>1. PICK i \in 0 .. d - 1 : k = b + i
    BY <1>6
  <2>2. k \div d = s /\ k % d = i
    BY <1>3, <1>4, <2>1, DivisionOnce
  <2>. QED BY <2>1, <2>2
<1>7. ASSUME NEW k \in Nat, k \div d = s PROVE b <= k /\ k < b + d
  <2>1. k = b + (k % d) /\ k % d \in 0 .. d - 1
    BY <1>4, <1>7, Division
  <2>. QED BY <2>1
<1>. QED BY <1>1, <1>2, <1>3, <1>5, <1>6, <1>7

LEMMA SectorBelow ==
    ASSUME NEW p \in Nat, NEW m \in Nat, p < m * SectorSize PROVE p \div SectorSize < m
<1>1. PICK d \in Nat \ {0} : d = SectorSize
  BY Sizes
<1>2. PICK q, o : q = p \div d /\ o = p % d
  OBVIOUS
<1>3. q \in Nat /\ o \in 0 .. d - 1 /\ p = (q * d) + o
  BY Division, <1>2
<1>4. q * d < m * d
  <2>1. q * d \in Nat /\ m * d \in Nat
    BY <1>3
  <2>. QED BY <1>1, <1>3, <2>1
<1>. QED BY <1>1, <1>2, <1>3, <1>4, TimesLess

LEMMA CharsAdd ==
    /\ Chars(0) = 0 /\ Chars(1) = RecordLen /\ \A m \in Nat : Chars(m) \in Nat
    /\ \A m, n \in Nat : Chars(m + n) = Chars(m) + Chars(n)
    /\ \A m, n \in Nat : m <= n => Chars(m) <= Chars(n)
<1>1. \A m, n \in Nat : Chars(m + n) = Chars(m) + Chars(n) /\ Chars(m) \in Nat
  BY Sizes DEF Chars
<1>2. ASSUME NEW m \in Nat, NEW n \in Nat, m <= n PROVE Chars(m) <= Chars(n)
  <2>1. PICK k \in Nat : n = m + k
    BY <1>2
  <2>2. Chars(n) = Chars(m) + Chars(k) /\ Chars(k) \in Nat /\ Chars(m) \in Nat
    BY <1>1, <2>1
  <2>. QED BY <2>2
<1>3. Chars(0) = 0 /\ Chars(1) = RecordLen
  BY Sizes DEF Chars
<1>. QED BY <1>1, <1>2, <1>3

\* The log never reaches its last sector.
LEMMA LogHasRoom ==
    ASSUME NEW p \in Nat, p <= Chars(MaxRecords) PROVE p \div SectorSize < LogSects - 1
<1>1. 1 + MaxRecords * RecordLen <= (LogSects - 1) * SectorSize
  BY DiskAssumption
<1>2. PICK m \in Nat : m = LogSects - 1
  BY Sizes
<1>3. MaxRecords * RecordLen \in Nat /\ m * SectorSize \in Nat
  BY Sizes
<1>4. p < m * SectorSize
  BY <1>1, <1>2, <1>3 DEF Chars
<1>. QED BY <1>2, <1>4, SectorBelow
-----------------------------------------------------------------------------
\* Types.

LEMMA CommandType ==
    ASSUME NEW op \in Ops, NEW sect \in 0 .. FILES, NEW n \in 1 .. MAX_IO
    PROVE  /\ Command(op, sect, n) \in [op : Ops, sect : 0 .. FILES, left : Nat, busy : BOOLEAN,
                                       data : Buffer]
           /\ Command(op, sect, n).op = op /\ Command(op, sect, n).sect = sect
           /\ Command(op, sect, n).left = n /\ Command(op, sect, n).busy = (op = "read")
BY CountIs, Sizes DEF Command, Filled, Buffer

\* rw_sector as a step: what Ask does to the variables it changes.
Asked(c, op, sect, n, pc, str) ==
    [at |-> "calling", pc |-> pc, op |-> op, sect |-> sect, n |-> n, str |-> str]

Asks(c, op, sect, n, pc, str) ==
    /\ call'[c] = Asked(c, op, sect, n, pc, str)
    /\ call'[c].at = "calling" /\ call'[c].pc = pc /\ call'[c].op = op
    /\ call'[c].sect = sect /\ call'[c].n = n /\ call'[c].str = str
    /\ \A d \in Client : d # c => call'[d] = call[d]
    /\ hd_queue' = Append(hd_queue, c)
    /\ hd_queue' \in Seq(Client)
    /\ call' \in [Client -> [at : {"idle", "calling", "answered", "sending"}, pc : Pcs,
                            op : Ops, sect : 0 .. FILES, n : Nat, str : Seq(Nat)]]

LEMMA AskType ==
    ASSUME TypeOK, NEW c \in Client, NEW op \in Ops, NEW sect \in 0 .. FILES, NEW n \in Nat,
           NEW pc \in Pcs, NEW str \in Seq(Nat), Ask(c, op, sect, n, pc, str)
    PROVE  Asks(c, op, sect, n, pc, str)
<1>1. /\ call'[c] = Asked(c, op, sect, n, pc, str)
      /\ \A d \in Client : d # c => call'[d] = call[d]
      /\ hd_queue' = Append(hd_queue, c)
      /\ hd_queue' \in Seq(Client)
      /\ call' \in [Client -> [at : {"idle", "calling", "answered", "sending"}, pc : Pcs,
                              op : Ops, sect : 0 .. FILES, n : Nat, str : Seq(Nat)]]
  BY DEF Ask, Asked, TypeOK
<1>2. PICK r : r = call'[c]
  OBVIOUS
<1>3. r = Asked(c, op, sect, n, pc, str)
  BY <1>1, <1>2
<1>4. /\ r.at = "calling" /\ r.pc = pc /\ r.op = op /\ r.sect = sect /\ r.n = n
      /\ r.str = str
  BY ONLY <1>3 DEF Asked
<1>. QED BY <1>1, <1>2, <1>4 DEF Asks

LEMMA Constant ==
    /\ NoCommand \in [op : Ops, sect : 0 .. FILES, left : Nat, busy : BOOLEAN, data : Buffer]
    /\ \A c \in Nat : Filled(c) \in Buffer
    /\ HdIdle \in [at : {"receive", "script", "interrupt", "transfer", "log", "reply"},
                   client : Client, op : Ops, sect : 0 .. FILES, left : Nat,
                   script : Seq({"command", "log"})]
    /\ Booting \in [Client -> [at : {"idle", "calling", "answered", "sending"}, pc : Pcs, op : Ops,
                               sect : 0 .. FILES, n : Nat, str : Seq(Nat)]]
    /\ NoCall \in [at : {"idle", "calling", "answered", "sending"}, pc : Pcs, op : Ops,
                   sect : 0 .. FILES, n : Nat, str : Seq(Nat)]
<1>1. \A c \in Nat : Filled(c) \in Buffer
  BY DEF Filled, Buffer
<1>2. NoCall \in [at : {"idle", "calling", "answered", "sending"}, pc : Pcs, op : Ops,
                   sect : 0 .. FILES, n : Nat, str : Seq(Nat)]
  BY Sizes DEF NoCall, Ops, Pcs, FILES
<1>3. NoCommand \in [op : Ops, sect : 0 .. FILES, left : Nat, busy : BOOLEAN, data : Buffer]
  BY <1>1, Sizes DEF NoCommand, Ops, FILES
<1>4. HdIdle \in [at : {"receive", "script", "interrupt", "transfer", "log", "reply"},
                   client : Client, op : Ops, sect : 0 .. FILES, left : Nat,
                   script : Seq({"command", "log"})]
  BY Sizes DEF HdIdle, Ops, FILES, Client
<1>5. PICK r : r = [NoCall EXCEPT !.at = "calling", !.pc = "open", !.op = "open"]
  OBVIOUS
<1>6. r \in [at : {"idle", "calling", "answered", "sending"}, pc : Pcs, op : Ops,
             sect : 0 .. FILES, n : Nat, str : Seq(Nat)]
  BY <1>2, <1>5 DEF Ops, Pcs
<1>7. Booting = [c \in Client |-> IF c = "FS" THEN r ELSE NoCall]
  BY <1>5 DEF Booting
<1>8. Booting \in [Client -> [at : {"idle", "calling", "answered", "sending"}, pc : Pcs, op : Ops,
                             sect : 0 .. FILES, n : Nat, str : Seq(Nat)]]
  BY <1>2, <1>6, <1>7
<1>. QED BY <1>1, <1>2, <1>3, <1>4, <1>8

\* OpenScript in the form that Reporters gives it.
LEMMA ScriptForm ==
    /\ OpenScript = ScriptFrom(Tables + 3)
    /\ \A n \in Nat : Len(ScriptFrom(n)) = n /\ ScriptFrom(n) \in Seq({"command", "log"})
    /\ \A n \in Nat \ {0} : /\ Tail(ScriptFrom(n)) = ScriptFrom(n - 1)
                            /\ Head(ScriptFrom(n)) = IF n \in {1, Tables + 2} THEN "log" ELSE "command"
<1>1. ASSUME NEW n \in Nat
      PROVE  Len(ScriptFrom(n)) = n /\ ScriptFrom(n) \in Seq({"command", "log"})
  BY DEF ScriptFrom
<1>2. ASSUME NEW n \in Nat \ {0}
      PROVE  /\ Tail(ScriptFrom(n)) = ScriptFrom(n - 1)
             /\ Head(ScriptFrom(n)) = IF n \in {1, Tables + 2} THEN "log" ELSE "command"
  <2>1. PICK f : f = ScriptFrom(n)
    OBVIOUS
  <2>2. /\ f \in Seq({"command", "log"}) /\ Len(f) = n
        /\ \A k \in 1 .. n : f[k] = IF n - k \in {0, Tables + 1} THEN "log" ELSE "command"
    BY <1>1, <2>1 DEF ScriptFrom
  <2>3. /\ Head(f) = f[1] /\ Tail(f) \in Seq({"command", "log"}) /\ Len(Tail(f)) = n - 1
        /\ \A k \in 1 .. n - 1 : Tail(f)[k] = f[k + 1]
    BY <2>2, HeadTailProperties
  <2>4. Head(f) = IF n \in {1, Tables + 2} THEN "log" ELSE "command"
    BY <2>2, <2>3, Sizes
  <2>5. \A k \in 1 .. n - 1 :
            f[k + 1] = IF (n - 1) - k \in {0, Tables + 1} THEN "log" ELSE "command"
    <3>1. ASSUME NEW k \in 1 .. n - 1
          PROVE  f[k + 1] = IF (n - 1) - k \in {0, Tables + 1} THEN "log" ELSE "command"
      <4>1. k + 1 \in 1 .. n /\ n - (k + 1) = (n - 1) - k
        OBVIOUS
      <4>. QED BY <2>2, <4>1
    <3>. QED BY <3>1
  <2>6. Tail(f) = ScriptFrom(n - 1)
    <3>1. ScriptFrom(n - 1) \in Seq({"command", "log"}) /\ Len(ScriptFrom(n - 1)) = n - 1
      BY <1>1
    <3>2. \A k \in 1 .. n - 1 : ScriptFrom(n - 1)[k] = f[k + 1]
      BY <2>5 DEF ScriptFrom
    <3>. QED BY <2>3, <3>1, <3>2, SeqEqual
  <2>. QED BY <2>1, <2>4, <2>6
<1>3. OpenScript = ScriptFrom(Tables + 3)
  BY Sizes DEF ScriptFrom, OpenScript
<1>. QED BY <1>1, <1>2, <1>3
-----------------------------------------------------------------------------
\* What a step leaves alone.

\* The driver and the answers it gives do not touch what is known of the log.
SamePlaces == \A c \in Client : /\ call'[c].pc = call[c].pc /\ call'[c].sect = call[c].sect
                               /\ call'[c].str = call[c].str

Answers == \A c \in Client :
    /\ call'[c].op = call[c].op /\ call'[c].n = call[c].n
    /\ \/ call'[c].at = call[c].at
       \/ call[c].at = "calling" /\ call'[c].at = "answered"

\* The driver fills the buffer only for those who read.
BufferFree == \A c \in Client : InLog(c) => call[c].pc \in ReadPcs

LEMMA ContentFrame ==
    ASSUME IInv, SamePlaces, disk' = disk, logdiskbuf' = logdiskbuf \/ BufferFree, pos' = pos,
           written' = written, crashes' = crashes
    PROVE  (\A c \in Client : Content(c))' /\ Begun' /\ OnDiskBelow' /\ HeaderCovers'
<1>1. ASSUME NEW c \in Client PROVE Content(c)'
  <2>1. call'[c].pc = call[c].pc /\ call'[c].sect = call[c].sect /\ call'[c].str = call[c].str
    BY DEF SamePlaces
  <2>2. Content(c)
    BY DEF IInv
  <2>5. /\ Rest(c)' = Rest(c) /\ Off' = Off /\ Part(Rest(c))' = Part(Rest(c))
        /\ Header' = Header
    BY <2>1 DEF Rest, Off, Part, Header
  <2>3. CASE logdiskbuf' = logdiskbuf
    BY <2>1, <2>2, <2>3, <2>5 DEF Content
  <2>4. CASE BufferFree
    <3>1. call[c].pc \notin {"smap write", "fill", "data write", "head write"}
      BY <2>4 DEF BufferFree, InLog, LogPcs, MapPcs, DataPcs, HeadPcs, ReadPcs
    <3>. QED BY <2>1, <2>2, <2>5, <3>1 DEF Content
  <2>. QED BY <2>3, <2>4
<1>2. Begun'
  BY DEF IInv, Begun, SamePlaces, Header
<1>3. OnDiskBelow'
  BY DEF IInv, OnDiskBelow, SamePlaces, Header, OnDisk, InLog
<1>4. HeaderCovers'
  BY DEF IInv, HeaderCovers, Header, OnDisk
<1>. QED BY <1>1, <1>2, <1>3, <1>4

LEMMA RequestFrame ==
    ASSUME IInv, SamePlaces, todo' = todo,
           Answers
    PROVE  (\A c \in Client : Request(c))' /\ Turns'
<1>1. ASSUME NEW c \in Client PROVE Request(c)'
  <2>1. Request(c)
    BY DEF IInv
  <2>. QED BY <2>1 DEF Request, SamePlaces, Answers, InLog
<1>2. Turns'
  BY DEF IInv, Turns, SamePlaces, Answers, InLog, Client
<1>. QED BY <1>1, <1>2

LEMMA Strings ==
    ASSUME TypeOK
    PROVE  /\ Pending("LOG") \in Seq(Nat) /\ Pending("FS") \in Seq(Nat)
           /\ Todo(1) \in Seq(Nat) /\ Todo(2) \in Seq(Nat)
           /\ log_buf \in Seq(Nat) /\ written \in Seq(Nat) /\ Given \in Nat
<1>1. Pending("LOG") \in Seq(Nat) /\ Pending("FS") \in Seq(Nat)
  BY DEF TypeOK, Pending, Client
<1>2. ASSUME NEW k \in {1, 2} PROVE Todo(k) \in Seq(Nat)
  <2>1. CASE k <= Len(todo)
    <3>1. todo[k] \in Seq(Nat) \ {<<>>}
      <4>1. todo \in Seq(Seq(Nat) \ {<<>>})
        BY DEF TypeOK
      <4>2. Len(todo) \in Nat
        BY <4>1, LenProperties
      <4>3. k \in 1 .. Len(todo)
        BY <2>1, <4>2
      <4>. QED BY <4>1, <4>3, ElementOfSeq
    <3>. QED BY <2>1, <3>1 DEF Todo
  <2>2. CASE ~(k <= Len(todo))
    BY <2>2 DEF Todo
  <2>. QED BY <2>1, <2>2
<1>3. log_buf \in Seq(Nat) /\ written \in Seq(Nat)
  BY DEF TypeOK
<1>4. /\ Len(Pending("LOG")) \in Nat /\ Len(Pending("FS")) \in Nat /\ Len(Todo(1)) \in Nat
      /\ Len(Todo(2)) \in Nat /\ Len(log_buf) \in Nat /\ Len(written) \in Nat
  BY <1>1, <1>2, <1>3
<1>5. Given \in Nat
  BY <1>4 DEF Given
<1>. QED BY <1>1, <1>2, <1>3, <1>5

LEMMA LengthsFrame ==
    ASSUME IInv, SamePlaces, TypeOK', Fresh' => Fresh, written' = written,
           crashes' = crashes, todo' = todo, log_buf' = log_buf, records' = records,
           Due \in Nat, Due' \in Nat,
           Len(log_queue') + Due' <= Len(log_queue) + Due
    PROVE  Lengths'
<1>1. Given' = Given /\ GivenSet' = GivenSet
  BY DEF Given, GivenSet, Pending, Todo, SamePlaces, Client
<1>2. Fresh' => Fresh
  OBVIOUS
<1>3. PICK a, b : a = Len(log_queue') + Due' /\ b = Len(log_queue) + Due
  OBVIOUS
<1>4. a \in Nat /\ b \in Nat /\ a <= b
  <2>1. Len(log_queue) \in Nat /\ Len(log_queue') \in Nat
    <3>1. TypeOK
      BY DEF IInv
    <3>2. /\ log_queue \in Seq({"HD", "TTY", "USER", "FS"})
          /\ log_queue' \in Seq({"HD", "TTY", "USER", "FS"})
      BY <3>1 DEF TypeOK
    <3>. QED BY <3>2, LenProperties
  <2>. QED BY <1>3, <2>1
<1>5. Chars(a) <= Chars(b) /\ Chars(a) \in Nat /\ Chars(b) \in Nat /\ Chars(MaxRecords) \in Nat
  BY <1>4, CharsAdd, Sizes
<1>6. Given \in Nat
  BY Strings DEF IInv
<1>. QED BY <1>1, <1>2, <1>3, <1>5, <1>6 DEF IInv, Lengths

DueCases ==
    \/ /\ call["FS"].pc = "open" /\ ~InLog("FS")
       /\ Due = IF call["FS"].at = "calling" THEN HdDue ELSE 0
    \/ call["FS"].pc = "file" /\ ~InLog("FS") /\ Due = 2
    \/ InLog("FS") /\ call["FS"].pc \notin {"open", "file", "none"} /\ Due = 1
    \/ call["FS"].pc = "none" /\ ~InLog("FS") /\ Due = 0

LEMMA DueIs == (TypeOK => DueCases) /\ (TypeOK' => DueCases')
<1>1. TypeOK => DueCases
  <2> SUFFICES ASSUME TypeOK PROVE DueCases
    OBVIOUS
  <2>1. call["FS"].pc \in Pcs
    BY DEF TypeOK, Client
  <2>2. CASE call["FS"].pc = "open"
    BY <2>2 DEF DueCases, Due, InLog, LogPcs, MapPcs, DataPcs, HeadPcs
  <2>3. CASE call["FS"].pc = "file"
    BY <2>3 DEF DueCases, Due, InLog, LogPcs, MapPcs, DataPcs, HeadPcs
  <2>4. CASE call["FS"].pc \in LogPcs
    BY <2>4 DEF DueCases, Due, InLog, LogPcs, MapPcs, DataPcs, HeadPcs
  <2>5. CASE call["FS"].pc = "none"
    BY <2>5 DEF DueCases, Due, InLog, LogPcs, MapPcs, DataPcs, HeadPcs
  <2>. QED BY <2>1, <2>2, <2>3, <2>4, <2>5 DEF Pcs
<1>. QED BY <1>1, PTL

LEMMA DueIsNat == ASSUME TypeOK PROVE Due \in Nat
BY DEF Due, HdDue, InLog, TypeOK, Pcs, Client

\* The queue of the driver as a sequence.
LEMMA HdQueue ==
    ASSUME IInv
    PROVE  /\ hd_queue \in Seq(Client) /\ Len(hd_queue) \in Nat
           /\ \A i \in 1 .. Len(hd_queue) : hd_queue[i] \in Client
           /\ \A c \in Client : /\ Append(hd_queue, c) \in Seq(Client)
                                /\ Len(Append(hd_queue, c)) = Len(hd_queue) + 1
                                /\ Append(hd_queue, c)[Len(hd_queue) + 1] = c
                                /\ \A i \in 1 .. Len(hd_queue) :
                                       Append(hd_queue, c)[i] = hd_queue[i]
           /\ hd_queue # <<>> =>
                 /\ Head(hd_queue) = hd_queue[1] /\ 1 \in 1 .. Len(hd_queue)
                 /\ Tail(hd_queue) \in Seq(Client) /\ Len(Tail(hd_queue)) = Len(hd_queue) - 1
                 /\ \A i \in 1 .. Len(hd_queue) - 1 : Tail(hd_queue)[i] = hd_queue[i + 1]
<1>1. hd_queue \in Seq(Client)
  BY DEF IInv, TypeOK
<1>2. Len(hd_queue) \in Nat /\ \A i \in 1 .. Len(hd_queue) : hd_queue[i] \in Client
  BY <1>1
<1>3. ASSUME NEW c \in Client
      PROVE  /\ Append(hd_queue, c) \in Seq(Client)
             /\ Len(Append(hd_queue, c)) = Len(hd_queue) + 1
             /\ Append(hd_queue, c)[Len(hd_queue) + 1] = c
             /\ \A i \in 1 .. Len(hd_queue) : Append(hd_queue, c)[i] = hd_queue[i]
  BY <1>1
<1>4. ASSUME hd_queue # <<>>
      PROVE  /\ Head(hd_queue) = hd_queue[1] /\ 1 \in 1 .. Len(hd_queue)
             /\ Tail(hd_queue) \in Seq(Client) /\ Len(Tail(hd_queue)) = Len(hd_queue) - 1
             /\ \A i \in 1 .. Len(hd_queue) - 1 : Tail(hd_queue)[i] = hd_queue[i + 1]
  BY <1>1, <1>2, <1>4, HeadTailProperties, EmptySeq
<1>. QED BY <1>1, <1>2, <1>3, <1>4

\* The queue of the log.
Who == {"HD", "TTY", "USER", "FS"}

LEMMA LogQueue ==
    ASSUME IInv
    PROVE  /\ log_queue \in Seq(Who) /\ Len(log_queue) \in Nat
           /\ \A i \in 1 .. Len(log_queue) : log_queue[i] \in Who
           /\ \A w \in Who : /\ Append(log_queue, w) \in Seq(Who)
                             /\ Len(Append(log_queue, w)) = Len(log_queue) + 1
                             /\ Append(log_queue, w)[Len(log_queue) + 1] = w
                             /\ \A i \in 1 .. Len(log_queue) :
                                    Append(log_queue, w)[i] = log_queue[i]
           /\ log_queue # <<>> =>
                 /\ Head(log_queue) = log_queue[1] /\ 1 \in 1 .. Len(log_queue)
                 /\ Tail(log_queue) \in Seq(Who) /\ Len(Tail(log_queue)) = Len(log_queue) - 1
                 /\ \A i \in 1 .. Len(log_queue) - 1 : Tail(log_queue)[i] = log_queue[i + 1]
<1>1. log_queue \in Seq(Who)
  BY DEF IInv, TypeOK, Who
<1>2. Len(log_queue) \in Nat /\ \A i \in 1 .. Len(log_queue) : log_queue[i] \in Who
  BY <1>1
<1>3. ASSUME NEW w \in Who
      PROVE  /\ Append(log_queue, w) \in Seq(Who)
             /\ Len(Append(log_queue, w)) = Len(log_queue) + 1
             /\ Append(log_queue, w)[Len(log_queue) + 1] = w
             /\ \A i \in 1 .. Len(log_queue) : Append(log_queue, w)[i] = log_queue[i]
  BY <1>1
<1>4. ASSUME log_queue # <<>>
      PROVE  /\ Head(log_queue) = log_queue[1] /\ 1 \in 1 .. Len(log_queue)
             /\ Tail(log_queue) \in Seq(Who) /\ Len(Tail(log_queue)) = Len(log_queue) - 1
             /\ \A i \in 1 .. Len(log_queue) - 1 : Tail(log_queue)[i] = log_queue[i + 1]
  BY <1>1, <1>2, <1>4, HeadTailProperties, EmptySeq
<1>. QED BY <1>1, <1>2, <1>3, <1>4

LEMMA DueStays ==
    ASSUME IInv, log_queue' = log_queue, Due' = Due
    PROVE  Len(log_queue') + Due' <= Len(log_queue) + Due /\ Due \in Nat
<1>1. PICK q \in Nat : q = Len(log_queue)
  BY LogQueue
<1>2. TypeOK
  BY DEF IInv
<1>3. PICK d \in Nat : d = Due
  BY <1>2, DueIsNat
<1>4. q + d <= q + d
  OBVIOUS
<1>. QED BY <1>1, <1>3, <1>4


\* A client that may ask is not served, and does not wait for the driver.
LEMMA AskInv ==
    ASSUME IInv, NEW c \in Client, call[c].at # "calling", NEW r, r.at = "calling",
           TypeOK', call'[c] = r, \A d \in Client : d # c => call'[d] = call[d],
           hd_queue' = Append(hd_queue, c),
           hd' = hd, drive' = drive, irq' = irq, disk' = disk,
           logdiskbuf' = logdiskbuf \/ \A d \in Client : d # c => ~InLog(d)
    PROVE  ServesOne' /\ DriverInv' /\ DriveInv' /\ Transfers'
<1>1. hd.at # "receive" => hd.client # c /\ hd.client \in Client
  BY DEF IInv, ServesOne, TypeOK
<1>2. PICK n \in Nat : n = Len(hd_queue) /\ \A i \in 1 .. n : hd_queue[i] \in Client
  BY HdQueue
<1>3. /\ Len(hd_queue') = n + 1 /\ hd_queue'[n + 1] = c
      /\ \A i \in 1 .. n : hd_queue'[i] = hd_queue[i] /\ hd_queue[i] # c
  BY <1>2, HdQueue DEF IInv, ServesOne
<1>4. ServesOne'
  <2>1. ASSUME NEW i \in 1 .. n + 1 PROVE call'[hd_queue'[i]].at = "calling"
    BY <1>2, <1>3, <2>1 DEF IInv, ServesOne
  <2>2. ASSUME NEW i \in 1 .. n + 1, NEW j \in 1 .. n + 1, hd_queue'[i] = hd_queue'[j] PROVE i = j
    BY <1>2, <1>3, <2>2 DEF IInv, ServesOne
  <2>3. ASSUME hd'.at # "receive"
        PROVE  call'[hd'.client].at = "calling" /\ \A i \in 1 .. n + 1 : hd_queue'[i] # hd'.client
    BY <1>1, <1>2, <1>3, <2>3 DEF IInv, ServesOne
  <2>. QED BY <1>3, <2>1, <2>2, <2>3 DEF ServesOne
<1>5. hd.at # "receive" => call'[hd.client] = call[hd.client]
  BY <1>1
<1>6. DriverInv'
  BY <1>5 DEF IInv, DriverInv, Opens
<1>7. DriveInv'
  BY <1>5 DEF IInv, DriveInv, Commands
<1>8. Transfers'
  <2>1. ASSUME NEW d \in Client, InLog(d)', d # c
        PROVE  call'[d] = call[d] /\ logdiskbuf' = logdiskbuf /\ InLog(d)
    BY <2>1 DEF InLog
  <2>2. ~Served(c)' /\ ~(hd'.at \in Commands /\ hd'.client = c)
    BY <1>1 DEF Served, Commands
  <2>. QED BY <2>1, <2>2 DEF IInv, Transfers, Served, ReadIn, Wrote, Commands
<1>. QED BY <1>4, <1>6, <1>7, <1>8
-----------------------------------------------------------------------------
\* The driver.

LEMMA DriverStep ==
    ASSUME IInv, TypeOK', SamePlaces, todo' = todo,
           Answers,
           disk' = disk, logdiskbuf' = logdiskbuf \/ BufferFree, pos' = pos, written' = written,
           crashes' = crashes, log_buf' = log_buf, records' = records,
           Len(log_queue') + Due' <= Len(log_queue) + Due,
           ServesOne' /\ DriverInv' /\ DriveInv' /\ Transfers', Reporters'
    PROVE  IInv'
<1>1. Due \in Nat /\ Due' \in Nat
  <2>1. TypeOK => Due \in Nat
    BY DueIsNat
  <2>2. (TypeOK => Due \in Nat)'
    BY DueIsNat, PTL
  <2>. QED BY <2>1, <2>2 DEF IInv
<1>2. Lengths'
  <2>1. Fresh' => Fresh
    BY DEF Fresh, SamePlaces
  <2>. QED BY <1>1, <2>1, LengthsFrame
<1>3. (\A c \in Client : Request(c))' /\ Turns'
  BY RequestFrame
<1>4. (\A c \in Client : Content(c))' /\ Begun' /\ OnDiskBelow' /\ HeaderCovers'
  BY ContentFrame
<1>. QED BY <1>2, <1>3, <1>4 DEF IInv

LEMMA Facts ==
    ASSUME IInv, NEW c \in Client
    PROVE  /\ TypeOK /\ Request(c) /\ call[c].sect \in 0 .. FILES
           /\ InLog(c) => call[c].sect <= SMAP /\ call[c].sect # FILES
           /\ call[c].at \in {"calling", "answered"} /\ call[c].op # "open" =>
                 call[c].n \in 1 .. MAX_IO /\ call[c].op \in {"read", "write"}
           /\ call[c].at \in {"calling", "answered"} =>
                 call[c].pc \in {"open", "file"} \/ InLog(c)
           /\ call[c].op = "open" => c = "FS" /\ call[c].pc = "open" /\ call[c].sect = FILES
           /\ call[c].at = "calling" /\ ~InLog(c) => call[c].sect = FILES
           /\ call[c].op = "open" => ~InLog(c)
<1>1. TypeOK /\ Request(c)
  BY DEF IInv
<1>2. /\ call[c].at \in {"idle", "calling", "answered", "sending"} /\ call[c].pc \in Pcs
      /\ call[c].sect \in 0 .. FILES /\ call[c].n \in Nat
  BY <1>1 DEF TypeOK
<1>3. InLog(c) => call[c].sect <= SMAP /\ call[c].sect # FILES
  <2>1. ASSUME InLog(c) PROVE call[c].sect <= LogSects
    <3>1. \/ call[c].pc \in {"smap read", "smap write"} \/ call[c].pc = "fill"
          \/ call[c].pc \in DataPcs \/ call[c].pc \in {"head read", "head write"}
          \/ call[c].pc = "last write"
      BY <2>1 DEF InLog, LogPcs, MapPcs, DataPcs, HeadPcs
    <3>2. CASE call[c].pc \in {"smap read", "smap write"}
      <4>1. call[c].sect = SMAP
        BY <1>1, <2>1, <3>2 DEF Request
      <4>. QED BY <4>1, Sizes DEF SMAP
    <3>3. CASE call[c].pc = "fill"
      <4>1. call[c].sect + MAX_IO <= LogSects
        BY <1>1, <2>1, <3>3 DEF Request
      <4>. QED BY <1>2, <4>1, Sizes
    <3>4. CASE call[c].pc \in DataPcs
      <4>1. call[c].sect < LogSects - 1
        BY <1>1, <2>1, <3>4 DEF Request
      <4>. QED BY <1>2, <4>1, Sizes
    <3>5. CASE call[c].pc \in {"head read", "head write"}
      <4>1. call[c].sect = 0
        BY <1>1, <2>1, <3>5 DEF Request
      <4>. QED BY <4>1, Sizes
    <3>6. CASE call[c].pc = "last write"
      <4>1. call[c].sect = LogSects - 1
        BY <1>1, <2>1, <3>6 DEF Request
      <4>. QED BY <4>1, Sizes
    <3>. QED BY <3>1, <3>2, <3>3, <3>4, <3>5, <3>6
  <2>. QED BY <1>2, <2>1, Sizes DEF SMAP, FILES
<1>4. call[c].at \in {"calling", "answered"} => call[c].pc \in {"open", "file"} \/ InLog(c)
  BY <1>1, <1>2 DEF Request, InLog, Pcs
<1>5. call[c].op = "open" => /\ c = "FS" /\ call[c].pc = "open" /\ call[c].sect = FILES
                             /\ ~InLog(c)
  BY <1>1, <1>2 DEF Request, InLog, LogPcs, MapPcs, DataPcs, HeadPcs
<1>6. call[c].at \in {"calling", "answered"} /\ call[c].op # "open" =>
         call[c].n \in 1 .. MAX_IO /\ call[c].op \in {"read", "write"}
  <2>1. ASSUME InLog(c) PROVE call[c].n \in 1 .. MAX_IO /\ call[c].op \in {"read", "write"}
    <3>1. call[c].n = (IF call[c].pc = "fill" THEN MAX_IO ELSE 1)
      BY <1>1, <2>1 DEF Request
    <3>2. call[c].op = (IF call[c].pc \in ReadPcs THEN "read" ELSE "write")
      BY <1>1, <2>1 DEF Request
    <3>. QED BY <3>1, <3>2, Sizes
  <2>2. ASSUME call[c].pc = "file" PROVE call[c].n \in 1 .. MAX_IO /\ call[c].op \in {"read", "write"}
    BY <1>1, <2>2 DEF Request
  <2>3. call[c].pc = "open" => call[c].op = "open"
    BY <1>1 DEF Request
  <2>. QED BY <1>4, <2>1, <2>2, <2>3
<1>7. call[c].at = "calling" /\ ~InLog(c) => call[c].sect = FILES
  BY <1>1, <1>4 DEF Request
<1>. QED BY <1>1, <1>2, <1>3, <1>4, <1>5, <1>6, <1>7

LEMMA HdTakeInv == ASSUME IInv, HdTake PROVE IInv'
<1>1. PICK c \in Client : c = Head(hd_queue) /\ hd_queue # <<>> /\ hd.at = "receive"
  BY HdQueue DEF HdTake
<1>2. /\ call' = call /\ disk' = disk /\ irq' = irq /\ logdiskbuf' = logdiskbuf /\ pos' = pos
      /\ log_buf' = log_buf /\ system_ready' = system_ready /\ todo' = todo
      /\ log_queue' = log_queue /\ records' = records /\ written' = written
      /\ stopped' = stopped /\ crashes' = crashes /\ hd_queue' = Tail(hd_queue)
  BY DEF HdTake, tasklog
<1>3. call[c].at = "calling" /\ ~drive.busy /\ ~irq
  BY <1>1, HdQueue DEF IInv, ServesOne, DriveInv
<1>4. /\ \A i \in 1 .. Len(hd_queue') : /\ call[hd_queue'[i]].at = "calling"
                                        /\ hd_queue'[i] # c
      /\ \A i, j \in 1 .. Len(hd_queue') : hd_queue'[i] = hd_queue'[j] => i = j
      /\ hd_queue' \in Seq(Client)
  <2>1. PICK n \in Nat : n = Len(hd_queue) - 1 /\ Len(hd_queue) = n + 1
    <3>1. Len(hd_queue) \in Nat /\ 1 \in 1 .. Len(hd_queue)
      BY <1>1, HdQueue
    <3>. QED BY <3>1
  <2>2. /\ Len(hd_queue') = n /\ \A i \in 1 .. n : hd_queue'[i] = hd_queue[i + 1]
        /\ c = hd_queue[1] /\ hd_queue' \in Seq(Client)
    BY <1>1, <1>2, <2>1, HdQueue
  <2>3. ASSUME NEW i \in 1 .. n PROVE call[hd_queue'[i]].at = "calling" /\ hd_queue'[i] # c
    <3>1. i + 1 \in 1 .. Len(hd_queue) /\ i + 1 # 1 /\ 1 \in 1 .. Len(hd_queue)
      BY <2>1
    <3>. QED BY <2>2, <3>1 DEF IInv, ServesOne
  <2>4. ASSUME NEW i \in 1 .. n, NEW j \in 1 .. n, hd_queue'[i] = hd_queue'[j] PROVE i = j
    <3>1. i + 1 \in 1 .. Len(hd_queue) /\ j + 1 \in 1 .. Len(hd_queue)
      BY <2>1
    <3>2. i + 1 = j + 1
      BY <2>2, <2>4, <3>1 DEF IInv, ServesOne
    <3>. QED BY <3>2
  <2>. QED BY <2>2, <2>3, <2>4
<1>5. SamePlaces /\ Answers
  BY <1>2 DEF SamePlaces, Answers
<1>6. CASE call[c].op = "open"
  <2>1. /\ hd' = [at |-> "script", client |-> c, op |-> "none", sect |-> FILES, left |-> 0,
                  script |-> ScriptFrom(Tables + 3)]
        /\ drive' = drive
    BY <1>1, <1>6, ScriptForm DEF HdTake, HdIdle
  <2>2. /\ hd'.at = "script" /\ hd'.client = c /\ hd'.script = ScriptFrom(Tables + 3)
        /\ hd'.sect = FILES /\ hd'.left = 0 /\ hd'.op = "none"
        /\ hd' \in [at : {"receive", "script", "interrupt", "transfer", "log", "reply"},
                   client : Client, op : Ops, sect : 0 .. FILES, left : Nat,
                   script : Seq({"command", "log"})]
    <3>1. Tables + 3 \in Nat
      BY Sizes
    <3>2. ScriptFrom(Tables + 3) \in Seq({"command", "log"})
      BY <3>1, ScriptForm
    <3>. QED BY <2>1, <3>2, Sizes DEF Ops, FILES
  <2>3. c = "FS" /\ call[c].pc = "open" /\ ~InLog(c)
    BY <1>6, Facts
  <2>4. TypeOK'
    BY <1>2, <1>4, <2>1, <2>2 DEF IInv, TypeOK
  <2>5. Len(hd'.script) = Tables + 3
    BY <2>2, ScriptForm, Sizes
  <2>6. log_queue' = log_queue /\ Due' = Due /\ Due \in Nat
    <3>1. HdDue = 2
      BY <1>1 DEF HdDue
    <3>2. HdDue' = 2
      BY <2>2, <2>3, <2>5, Sizes DEF HdDue
    <3>. QED BY <1>2, <3>1, <3>2, Facts, DueIsNat DEF Due, InLog
  <2>7. ServesOne'
    BY <1>2, <1>3, <1>4, <2>2 DEF ServesOne
  <2>8. DriverInv' /\ DriveInv'
    BY <1>2, <1>3, <1>6, <2>1, <2>2 DEF DriverInv, DriveInv, Opens, Commands
  <2>9. Transfers'
    BY <1>1, <1>2, <2>2, <2>3 DEF IInv, Transfers, Served, ReadIn, Wrote, InLog, Commands
  <2>10. Reporters'
    <3>1. \A i \in 1 .. Len(log_queue) : log_queue[i] # "HD"
      BY <1>1 DEF IInv, Reporters
    <3>. QED BY <1>2, <2>2, <2>5, <3>1, Sizes DEF IInv, Reporters
  <2>11. Len(log_queue') + Due' <= Len(log_queue) + Due
    BY <2>6, Facts DEF TypeOK
  <2>. QED BY <1>2, <1>5, <2>4, <2>7, <2>8, <2>9, <2>10, <2>11, DriverStep
<1>7. CASE call[c].op # "open"
  <2>1. /\ call[c].n \in 1 .. MAX_IO /\ call[c].op \in {"read", "write"} /\ call[c].op \in Ops
        /\ call[c].sect \in 0 .. FILES
    BY <1>3, <1>7, Facts DEF Ops
  <2>2. PICK at \in Commands : at = IF call[c].op = "read" THEN "interrupt" ELSE "transfer"
    BY DEF Commands
  <2>3. /\ hd' = [at |-> at, client |-> c, op |-> call[c].op, sect |-> call[c].sect,
                  left |-> call[c].n, script |-> <<>>]
        /\ drive' = Command(call[c].op, call[c].sect, call[c].n)
    BY <1>1, <1>7, <2>2 DEF HdTake
  <2>4. /\ hd'.at = at /\ hd'.client = c /\ hd'.op = call[c].op /\ hd'.sect = call[c].sect
        /\ hd'.left = call[c].n /\ hd'.script = <<>>
        /\ at \in {"interrupt", "transfer"}
    BY <2>2, <2>3 DEF Commands
  <2>5. /\ drive' \in [op : Ops, sect : 0 .. FILES, left : Nat, busy : BOOLEAN, data : Buffer]
        /\ drive'.op = call[c].op /\ drive'.sect = call[c].sect /\ drive'.left = call[c].n
        /\ drive'.busy = (call[c].op = "read")
    BY <2>1, <2>3, CommandType
  <2>6. call[c].n \in Nat /\ call[c].n >= 1
    BY <2>1, Sizes
  <2>7. TypeOK'
    <3>1. hd' \in [at : {"receive", "script", "interrupt", "transfer", "log", "reply"},
                   client : Client, op : Ops, sect : 0 .. FILES, left : Nat,
                   script : Seq({"command", "log"})]
      BY <2>1, <2>3, <2>4, <2>6
    <3>. QED BY <1>2, <1>4, <2>5, <3>1 DEF IInv, TypeOK
  <2>8. ServesOne'
    BY <1>2, <1>3, <1>4, <2>4 DEF ServesOne
  <2>9. DriverInv'
    BY <1>2, <1>7, <2>1, <2>2, <2>4, <2>6 DEF DriverInv, Opens
  <2>10. DriveInv'
    BY <1>2, <1>3, <2>1, <2>2, <2>4, <2>5, <2>6, Facts DEF DriveInv, Commands
  <2>11. Transfers'
    <3>1. ASSUME NEW d \in Client, InLog(d)'
          PROVE  /\ InLog(d) /\ (Served(d)' => Served(d))
                 /\ hd'.at \in Commands /\ hd'.client = d => d = c
      BY <1>2, <2>4, <3>1 DEF InLog, Served
    <3>2. \A t \in Sector : call[c].sect <= t /\ t < drive'.sect => FALSE
      BY <2>1, <2>5, Sizes DEF Sector, SMAP, FILES
    <3>3. call[c].op = "write" => ~drive'.busy
      BY <2>5
    <3>4. ~irq'
      BY <1>2, <1>3
    <3>. QED BY <1>2, <3>1, <3>2, <3>3, <3>4 DEF IInv, Transfers, ReadIn, Wrote
  <2>12. log_queue' = log_queue /\ Due' = Due /\ Due \in Nat
    <3>1. Request(c)
      BY Facts
    <3>2. HdDue = 2
      BY <1>1 DEF HdDue
    <3>3. call["FS"].pc = "open" => HdDue' = 2
      <4>1. call["FS"].pc = "open" => c # "FS"
        BY <1>7, <3>1 DEF Request
      <4>. QED BY <2>4, <4>1 DEF HdDue
    <3>4. Due' = Due
      <4>1. CASE call["FS"].pc = "open"
        BY <1>2, <3>2, <3>3, <4>1 DEF Due, InLog
      <4>2. CASE call["FS"].pc # "open"
        <5>1. DueCases /\ DueCases'
          BY <2>7, DueIs DEF IInv
        <5>. QED BY <1>2, <4>2, <5>1 DEF DueCases, InLog
      <4>. QED BY <4>1, <4>2
    <3>. QED BY <1>2, <3>4, Facts, DueIsNat
  <2>13. Reporters'
    <3>1. \A i \in 1 .. Len(log_queue) : log_queue[i] # "HD"
      BY <1>1 DEF IInv, Reporters
    <3>2. Len(<<>>) = 0 /\ <<>> = ScriptFrom(0)
      BY ScriptForm, EmptySeq
    <3>. QED BY <1>2, <2>4, <3>1, <3>2, Sizes DEF IInv, Reporters
  <2>14. Len(log_queue') + Due' <= Len(log_queue) + Due
    BY <2>12, Facts DEF TypeOK
  <2>. QED BY <1>2, <1>5, <2>7, <2>8, <2>9, <2>10, <2>11, <2>13, <2>14, DriverStep
<1>. QED BY <1>6, <1>7

\* What the driver reports, and what stays when it does not.
LEMMA ScriptIs ==
    ASSUME IInv
    PROVE  /\ Len(hd.script) \in Nat /\ hd.script = ScriptFrom(Len(hd.script))
           /\ hd.script = <<>> <=> Len(hd.script) = 0
           /\ hd.script # <<>> =>
                 /\ Tail(hd.script) = ScriptFrom(Len(hd.script) - 1)
                 /\ Len(Tail(hd.script)) = Len(hd.script) - 1
                 /\ Tail(hd.script) \in Seq({"command", "log"})
                 /\ Head(hd.script) = IF Len(hd.script) \in {1, Tables + 2} THEN "log" ELSE "command"
<1>1. hd.script \in Seq({"command", "log"}) /\ hd.script = ScriptFrom(Len(hd.script))
  BY DEF IInv, TypeOK, Reporters
<1>2. Len(hd.script) \in Nat /\ (hd.script = <<>> <=> Len(hd.script) = 0)
  BY <1>1, EmptySeq, LenProperties
<1>3. ASSUME hd.script # <<>>
      PROVE  /\ Tail(hd.script) = ScriptFrom(Len(hd.script) - 1)
             /\ Len(Tail(hd.script)) = Len(hd.script) - 1
             /\ Tail(hd.script) \in Seq({"command", "log"})
             /\ Head(hd.script) = IF Len(hd.script) \in {1, Tables + 2} THEN "log" ELSE "command"
  <2>1. PICK n \in Nat \ {0} : n = Len(hd.script) /\ n - 1 \in Nat /\ hd.script = ScriptFrom(n)
    BY <1>1, <1>2, <1>3
  <2>. QED BY <2>1, ScriptForm
<1>. QED BY <1>1, <1>2, <1>3

LEMMA DueFrame ==
    ASSUME IInv, TypeOK', call' = call, HdDue' = HdDue
    PROVE  Due' = Due
<1>1. DueCases /\ DueCases'
  BY DueIs DEF IInv
<1>. QED BY <1>1 DEF DueCases, InLog

\* The driver serves an open.
LEMMA Opening ==
    ASSUME IInv, hd.at \in {"script", "log"}
    PROVE  /\ hd.client = "FS" /\ call["FS"].op = "open" /\ call["FS"].at = "calling"
           /\ call["FS"].pc = "open" /\ ~InLog("FS") /\ hd.sect = FILES
           /\ Due = HdDue /\ ~irq /\ ~drive.busy
<1>1. Opens /\ hd.client \in Client /\ hd.sect = FILES /\ call[hd.client].at = "calling"
  BY DEF IInv, DriverInv, ServesOne, TypeOK
<1>2. call[hd.client].op = "open"
  BY <1>1 DEF Opens
<1>3. hd.client = "FS" /\ call[hd.client].pc = "open" /\ ~InLog(hd.client)
  BY <1>1, <1>2, Facts
<1>4. DueCases
  BY DueIs DEF IInv
<1>. QED BY <1>1, <1>2, <1>3, <1>4 DEF IInv, DriveInv, DueCases

LEMMA HdOpenCommandInv == ASSUME IInv, HdOpenCommand PROVE IInv'
<1>1. /\ hd.at = "script" /\ hd.script # <<>> /\ Head(hd.script) = "command"
      /\ drive' = Command("read", FILES, 1)
  BY DEF HdOpenCommand
<1>2. /\ call' = call /\ disk' = disk /\ irq' = irq /\ logdiskbuf' = logdiskbuf /\ pos' = pos
      /\ log_buf' = log_buf /\ system_ready' = system_ready /\ todo' = todo
      /\ log_queue' = log_queue /\ records' = records /\ written' = written
      /\ stopped' = stopped /\ crashes' = crashes /\ hd_queue' = hd_queue
  BY DEF HdOpenCommand, tasklog
<1>3. PICK n \in Nat : /\ n = Len(hd.script) /\ n >= 2 /\ n # Tables + 2
                       /\ Len(Tail(hd.script)) = n - 1 /\ Tail(hd.script) = ScriptFrom(n - 1)
                       /\ n <= Tables + 3 /\ Tail(hd.script) \in Seq({"command", "log"})
  <2>1. PICK n \in Nat \ {0} : n = Len(hd.script)
    BY <1>1, ScriptIs
  <2>2. /\ Tail(hd.script) = ScriptFrom(n - 1) /\ Len(Tail(hd.script)) = n - 1
        /\ Tail(hd.script) \in Seq({"command", "log"}) /\ n \notin {1, Tables + 2}
    BY <1>1, <2>1, ScriptIs
  <2>3. n <= Tables + 3
    BY <2>1 DEF IInv, Reporters
  <2>4. n >= 2 /\ n # Tables + 2
    BY <2>2
  <2>. WITNESS n \in Nat
  <2>. QED BY <2>1, <2>2, <2>3, <2>4
<1>4. /\ hd'.at = "interrupt" /\ hd'.client = "FS" /\ hd'.op = "read" /\ hd'.sect = FILES
      /\ hd'.left = 1 /\ hd'.script = Tail(hd.script)
      /\ hd' \in [at : {"receive", "script", "interrupt", "transfer", "log", "reply"},
                 client : Client, op : Ops, sect : 0 .. FILES, left : Nat,
                 script : Seq({"command", "log"})]
  <2>1. PICK a, o, l : a = "interrupt" /\ o = "read" /\ l = 1
    OBVIOUS
  <2>2. hd' = [at |-> a, client |-> hd.client, op |-> o, sect |-> hd.sect, left |-> l,
               script |-> Tail(hd.script)]
    BY <2>1 DEF HdOpenCommand, IInv, TypeOK
  <2>. QED BY <1>1, <1>3, <2>1, <2>2, Opening, Sizes DEF Ops, Client, FILES
<1>5. /\ drive' \in [op : Ops, sect : 0 .. FILES, left : Nat, busy : BOOLEAN, data : Buffer]
      /\ drive'.op = "read" /\ drive'.sect = FILES /\ drive'.left = 1 /\ drive'.busy = TRUE
  BY <1>1, CommandType, Sizes DEF Ops, FILES
<1>6. TypeOK'
  BY <1>2, <1>4, <1>5 DEF IInv, TypeOK
<1>7. SamePlaces /\ Answers
  BY <1>2 DEF SamePlaces, Answers
<1>8. /\ hd.client = "FS" /\ call["FS"].op = "open" /\ call["FS"].at = "calling" /\ ~irq
      /\ ~InLog("FS")
  BY <1>1, Opening
<1>9. ServesOne'
  BY <1>1, <1>2, <1>4, <1>8 DEF IInv, ServesOne
<1>10. DriverInv' /\ DriveInv'
  BY <1>2, <1>4, <1>5, <1>8 DEF DriverInv, DriveInv, Opens, Commands
<1>11. Transfers'
  BY <1>1, <1>2, <1>4, <1>8 DEF IInv, Transfers, Served, ReadIn, Wrote, InLog, Commands
<1>12. Reporters'
  <2>1. \A i \in 1 .. Len(log_queue) : log_queue[i] # "HD"
    BY <1>1 DEF IInv, Reporters
  <2>2. Len(hd'.script) <= Tables + 3 /\ hd'.script = ScriptFrom(Len(hd'.script))
    BY <1>3, <1>4, Sizes
  <2>. QED BY <1>2, <2>1, <2>2 DEF IInv, Reporters
<1>13. Due' = Due
  <2>1. HdDue' = HdDue
    <3>1. /\ hd.at # "receive" /\ hd.client = "FS" /\ hd.script # <<>> /\ Len(hd.script) = n
          /\ hd'.at # "receive" /\ hd'.client = "FS" /\ Len(hd'.script) = n - 1
      BY <1>1, <1>3, <1>4, <1>8
    <3>2. hd'.script # <<>>
      <4>1. n - 1 # 0
        <5>1. n >= 2
          BY <1>3
        <5>. QED BY ONLY <5>1
      <4>2. hd'.script \in Seq({"command", "log"})
        BY <1>3, <1>4
      <4>. QED BY <3>1, <4>1, <4>2, EmptySeq
    <3>3. n > Tables + 1 <=> n - 1 > Tables + 1
      <4>1. n # Tables + 2 /\ Tables \in Nat
        BY <1>3, Sizes
      <4>. QED BY ONLY <4>1
    <3>. QED BY <3>1, <3>2, <3>3 DEF HdDue
  <2>. QED BY <1>2, <1>6, <2>1, DueFrame
<1>14. Len(log_queue') + Due' <= Len(log_queue) + Due
  BY <1>2, <1>13, DueStays
<1>. QED BY <1>2, <1>6, <1>7, <1>9, <1>10, <1>11, <1>12, <1>14, DriverStep

LEMMA HdOpenReportInv == ASSUME IInv, HdOpenReport PROVE IInv'
<1>1. hd.at = "script" /\ hd.script # <<>> /\ Head(hd.script) = "log"
  BY DEF HdOpenReport
<1>2. /\ call' = call /\ disk' = disk /\ irq' = irq /\ logdiskbuf' = logdiskbuf /\ pos' = pos
      /\ log_buf' = log_buf /\ system_ready' = system_ready /\ todo' = todo
      /\ drive' = drive /\ records' = records /\ written' = written
      /\ stopped' = stopped /\ crashes' = crashes /\ hd_queue' = hd_queue
      /\ log_queue' = Append(log_queue, "HD")
  BY DEF HdOpenReport, tasklog
<1>3. PICK n \in Nat : n = Len(hd.script) /\ (n = 1 \/ n = Tables + 2) /\ Tables \in Nat
  BY <1>1, ScriptIs, Sizes
<1>4. /\ Len(Tail(hd.script)) = n - 1 /\ Tail(hd.script) = ScriptFrom(n - 1)
      /\ Tail(hd.script) \in Seq({"command", "log"}) /\ n - 1 <= Tables + 3 /\ n - 1 \in Nat
  <2>1. /\ Len(Tail(hd.script)) = n - 1 /\ Tail(hd.script) = ScriptFrom(n - 1)
        /\ Tail(hd.script) \in Seq({"command", "log"})
    BY <1>1, <1>3, ScriptIs
  <2>2. n - 1 <= Tables + 3
    <3>1. (n = 1 \/ n = Tables + 2) /\ Tables \in Nat
      BY <1>3
    <3>. QED BY ONLY <3>1
  <2>3. n - 1 \in Nat
    <3>1. (n = 1 \/ n = Tables + 2) /\ Tables \in Nat
      BY <1>3
    <3>. QED BY ONLY <3>1
  <2>. QED BY <2>1, <2>2, <2>3
<1>5. /\ hd'.at = "log" /\ hd'.client = "FS" /\ hd'.op = hd.op /\ hd'.sect = FILES
      /\ hd'.left = hd.left /\ hd'.script = Tail(hd.script)
      /\ hd' \in [at : {"receive", "script", "interrupt", "transfer", "log", "reply"},
                 client : Client, op : Ops, sect : 0 .. FILES, left : Nat,
                 script : Seq({"command", "log"})]
  <2>1. PICK a : a = "log"
    OBVIOUS
  <2>2. hd' = [at |-> a, client |-> hd.client, op |-> hd.op, sect |-> hd.sect, left |-> hd.left,
               script |-> Tail(hd.script)]
    BY <2>1 DEF HdOpenReport, IInv, TypeOK
  <2>3. hd.op \in Ops /\ hd.left \in Nat /\ FILES \in 0 .. FILES
    BY Sizes DEF IInv, TypeOK, FILES
  <2>. QED BY <1>1, <1>4, <2>1, <2>2, <2>3, Opening DEF Client
<1>6. PICK m \in Nat :
          /\ m = Len(log_queue) /\ Len(log_queue') = m + 1 /\ log_queue'[m + 1] = "HD"
          /\ \A i \in 1 .. m : log_queue'[i] = log_queue[i]
          /\ log_queue' \in Seq({"HD", "TTY", "USER", "FS"})
  <2>1. PICK m \in Nat : m = Len(log_queue)
    BY LogQueue
  <2>2. /\ Len(log_queue') = m + 1 /\ log_queue'[m + 1] = "HD"
        /\ \A i \in 1 .. m : log_queue'[i] = log_queue[i]
        /\ log_queue' \in Seq(Who)
    BY <1>2, <2>1, LogQueue DEF Who
  <2>. QED BY <2>1, <2>2 DEF Who
<1>7. TypeOK'
  BY <1>2, <1>5, <1>6 DEF IInv, TypeOK
<1>8. SamePlaces /\ Answers
  BY <1>2 DEF SamePlaces, Answers
<1>9. /\ hd.client = "FS" /\ call["FS"].op = "open" /\ call["FS"].at = "calling" /\ ~irq
      /\ ~InLog("FS") /\ ~drive.busy
  BY <1>1, Opening
<1>10. ServesOne'
  BY <1>1, <1>2, <1>5, <1>9 DEF IInv, ServesOne
<1>11. DriverInv' /\ DriveInv'
  BY <1>2, <1>5, <1>9 DEF DriverInv, DriveInv, Opens, Commands
<1>12. Transfers'
  BY <1>1, <1>2, <1>5, <1>9 DEF IInv, Transfers, Served, ReadIn, Wrote, InLog, Commands
<1>13. Reporters'
  <2>1. \A i \in 1 .. m : log_queue[i] # "HD"
    BY <1>1, <1>6 DEF IInv, Reporters
  <2>2. Len(hd'.script) <= Tables + 3 /\ hd'.script = ScriptFrom(Len(hd'.script))
    BY <1>3, <1>4, <1>5, Sizes
  <2>3. ASSUME NEW i \in 1 .. m + 1
        PROVE  /\ log_queue'[i] = "FS" => call'["FS"].at = "sending"
               /\ log_queue'[i] = "HD" => hd'.at = "log" /\ i = m + 1
    BY <1>2, <1>5, <1>6, <2>1 DEF IInv, Reporters
  <2>4. ASSUME NEW i \in 1 .. m + 1, NEW j \in 1 .. m + 1, log_queue'[i] = log_queue'[j],
               log_queue'[i] \in {"HD", "FS"}
        PROVE  i = j
    BY <1>6, <2>3, <2>4 DEF IInv, Reporters
  <2>. QED BY <1>6, <2>2, <2>3, <2>4 DEF Reporters
<1>14. Len(log_queue') + Due' <= Len(log_queue) + Due
  <2>1. HdDue' + 1 = HdDue /\ HdDue' \in Nat
    <3>1. Len(hd'.script) = n - 1 /\ (hd'.script = <<>> <=> n = 1)
      <4>1. hd'.script \in Seq({"command", "log"}) /\ Len(hd'.script) = n - 1
        BY <1>4, <1>5
      <4>2. hd'.script = <<>> <=> Len(hd'.script) = 0
        BY <4>1, EmptySeq
      <4>. QED BY <1>3, <4>1, <4>2
    <3>2. HdDue = IF n > Tables + 1 THEN 2 ELSE 1
      BY <1>1, <1>3, <1>9 DEF HdDue
    <3>3. HdDue' = IF n - 1 > Tables + 1 THEN 2 ELSE IF n = 1 THEN 0 ELSE 1
      BY <1>5, <3>1 DEF HdDue
    <3>4. CASE n = 1
      <4>1. HdDue = 1 /\ HdDue' = 0
        BY <1>3, <3>2, <3>3, <3>4
      <4>. QED BY <4>1
    <3>5. CASE n = Tables + 2
      <4>1. HdDue = 2 /\ HdDue' = 1
        BY <1>3, <3>2, <3>3, <3>5
      <4>. QED BY <4>1
    <3>. QED BY <1>3, <3>4, <3>5
  <2>2. DueCases /\ DueCases'
    BY <1>7, DueIs DEF IInv
  <2>3. Due = HdDue /\ Due' = HdDue'
    BY <1>1, <1>2, <2>2, Opening DEF DueCases
  <2>. QED BY <1>6, <2>1, <2>3
<1>. QED BY <1>2, <1>7, <1>8, <1>10, <1>11, <1>12, <1>13, <1>14, DriverStep

LEMMA HdOpenedInv == ASSUME IInv, HdOpened PROVE IInv'
<1>1. hd.at = "script" /\ hd.script = <<>>
  BY DEF HdOpened
<1>2. /\ call' = call /\ disk' = disk /\ irq' = irq /\ logdiskbuf' = logdiskbuf /\ pos' = pos
      /\ log_buf' = log_buf /\ system_ready' = system_ready /\ todo' = todo
      /\ drive' = drive /\ records' = records /\ written' = written /\ log_queue' = log_queue
      /\ stopped' = stopped /\ crashes' = crashes /\ hd_queue' = hd_queue
  BY DEF HdOpened, tasklog
<1>3. /\ hd'.at = "reply" /\ hd'.client = "FS" /\ hd'.op = hd.op /\ hd'.sect = FILES
      /\ hd'.left = hd.left /\ hd'.script = hd.script
      /\ hd' \in [at : {"receive", "script", "interrupt", "transfer", "log", "reply"},
                 client : Client, op : Ops, sect : 0 .. FILES, left : Nat,
                 script : Seq({"command", "log"})]
  BY <1>1, Opening DEF HdOpened, IInv, TypeOK
<1>4. TypeOK'
  BY <1>2, <1>3 DEF IInv, TypeOK
<1>5. SamePlaces /\ Answers
  BY <1>2 DEF SamePlaces, Answers
<1>6. /\ hd.client = "FS" /\ call["FS"].op = "open" /\ call["FS"].at = "calling" /\ ~irq
      /\ ~InLog("FS") /\ ~drive.busy
  BY <1>1, Opening
<1>7. ServesOne'
  BY <1>1, <1>2, <1>3, <1>6 DEF IInv, ServesOne
<1>8. DriverInv' /\ DriveInv'
  BY <1>2, <1>3, <1>6 DEF DriverInv, DriveInv, Opens, Commands
<1>9. Transfers'
  BY <1>1, <1>2, <1>3, <1>6 DEF IInv, Transfers, Served, ReadIn, Wrote, InLog, Commands
<1>10. Reporters'
  <2>1. \A i \in 1 .. Len(log_queue) : log_queue[i] # "HD"
    BY <1>1 DEF IInv, Reporters
  <2>. QED BY <1>2, <1>3, <2>1 DEF IInv, Reporters
<1>11. Due' = Due
  <2>1. HdDue' = HdDue
    BY <1>1, <1>3, <1>6 DEF HdDue
  <2>. QED BY <1>2, <1>4, <2>1, DueFrame
<1>12. Len(log_queue') + Due' <= Len(log_queue) + Due
  BY <1>2, <1>11, DueStays
<1>. QED BY <1>2, <1>4, <1>5, <1>7, <1>8, <1>9, <1>10, <1>12, DriverStep

\* The driver works on a command.
LEMMA Working ==
    ASSUME IInv, NEW c \in Client, hd.client = c, hd.at \in Commands
    PROVE  /\ call[c].at = "calling" /\ hd.left \in Nat \ {0}
           /\ hd.sect \in 0 .. FILES /\ drive.left \in Nat /\ drive.sect \in 0 .. FILES
           /\ drive.op = hd.op /\ hd.op \in Ops
           /\ hd.sect # FILES =>
                 /\ InLog(c) /\ ~Opens /\ hd.op = call[c].op /\ hd.sect = call[c].sect
                 /\ drive.sect + drive.left = call[c].sect + call[c].n
                 /\ call[c].n \in Nat \ {0}
                 /\ call[c].op = "read" => call[c].n = 1
                 /\ \A d \in Client : d # c => ~InLog(d)
           /\ hd.sect = FILES => ~InLog(c) /\ drive.sect = FILES
<1>1. /\ TypeOK /\ call[c].at = "calling"
      /\ hd.sect \in 0 .. FILES /\ drive.left \in Nat /\ drive.sect \in 0 .. FILES /\ hd.op \in Ops
      /\ hd.left \in Nat
  BY DEF IInv, ServesOne, Commands, TypeOK
<1>2. ~Opens => /\ hd.op = call[c].op /\ hd.sect = call[c].sect /\ hd.left \in Nat \ {0}
                /\ hd.left <= call[c].n /\ call[c].n \in 1 .. MAX_IO
  <2>. SUFFICES ASSUME ~Opens
                PROVE  /\ hd.op = call[c].op /\ hd.sect = call[c].sect /\ hd.left \in Nat \ {0}
                       /\ hd.left <= call[c].n /\ call[c].n \in 1 .. MAX_IO
    OBVIOUS
  <2>1. hd.op = call[c].op /\ hd.sect = call[c].sect /\ hd.left <= call[c].n /\ hd.left # 0
    BY DEF IInv, DriverInv, Commands
  <2>2. call[c].op # "open"
    BY DEF Opens
  <2>3. call[c].n \in 1 .. MAX_IO
    BY <1>1, <2>2, Facts
  <2>. QED BY <1>1, <2>1, <2>3
<1>3. Opens => hd.sect = FILES /\ ~InLog(c)
  BY Facts DEF IInv, DriverInv, Commands, Opens
<1>4. /\ drive.op = hd.op
      /\ IF hd.sect = FILES THEN drive.sect = FILES
         ELSE drive.sect + drive.left = hd.sect + call[c].n
  BY DEF IInv, DriveInv
<1>5. ASSUME hd.sect # FILES
      PROVE  /\ InLog(c) /\ ~Opens
             /\ call[c].op = "read" => call[c].n = 1
             /\ \A d \in Client : d # c => ~InLog(d)
  <2>1. ~Opens /\ InLog(c)
    BY <1>1, <1>2, <1>3, <1>5, Facts
  <2>2. Request(c)
    BY Facts
  <2>3. call[c].op = "read" => call[c].pc # "fill"
    BY <2>1, <2>2 DEF Request, ReadPcs
  <2>4. call[c].op = "read" => call[c].n = 1
    BY <2>1, <2>2, <2>3 DEF Request
  <2>5. \A d \in Client : d # c => ~InLog(d)
    BY <1>1, <2>1, Facts DEF IInv, Turns, Client, Request, InLog, LogPcs, MapPcs, DataPcs, HeadPcs
  <2>. QED BY <2>1, <2>4, <2>5
<1>6. ASSUME hd.sect = FILES PROVE ~InLog(c)
  BY <1>2, <1>3, <1>6, Facts
<1>7. call[c].n \in 1 .. MAX_IO => call[c].n \in Nat \ {0}
  BY Sizes
<1>8. hd.left \in Nat \ {0}
  <2>1. Opens => hd.left = 1
    BY DEF IInv, DriverInv, Commands
  <2>. QED BY <1>2, <2>1
<1>. QED BY <1>1, <1>2, <1>3, <1>4, <1>5, <1>6, <1>7, <1>8

LEMMA HdTransferInv == ASSUME IInv, HdTransfer PROVE IInv'
<1>1. /\ hd.at = "transfer" /\ drive.left > 0
      /\ drive' = [drive EXCEPT !.busy = TRUE,
                                !.data = IF hd.sect = FILES THEN Filled(0) ELSE logdiskbuf]
      /\ hd' = [hd EXCEPT !.at = "interrupt"]
  BY DEF HdTransfer
<1>2. /\ call' = call /\ disk' = disk /\ irq' = irq /\ logdiskbuf' = logdiskbuf /\ pos' = pos
      /\ log_buf' = log_buf /\ system_ready' = system_ready /\ todo' = todo
      /\ records' = records /\ written' = written /\ log_queue' = log_queue
      /\ stopped' = stopped /\ crashes' = crashes /\ hd_queue' = hd_queue
  BY DEF HdTransfer, tasklog
<1>3. PICK c \in Client : c = hd.client
  BY DEF IInv, TypeOK
<1>4. /\ hd'.at = "interrupt" /\ hd'.client = c /\ hd'.op = hd.op /\ hd'.sect = hd.sect
      /\ hd'.left = hd.left /\ hd'.script = hd.script
      /\ hd' \in [at : {"receive", "script", "interrupt", "transfer", "log", "reply"},
                 client : Client, op : Ops, sect : 0 .. FILES, left : Nat,
                 script : Seq({"command", "log"})]
  BY <1>1, <1>3 DEF IInv, TypeOK
<1>5. PICK b : b = (IF hd.sect = FILES THEN Filled(0) ELSE logdiskbuf) /\ b \in Buffer
  BY Constant DEF IInv, TypeOK
<1>6. /\ drive'.op = drive.op /\ drive'.sect = drive.sect /\ drive'.left = drive.left
      /\ drive'.busy = TRUE /\ drive'.data = b
      /\ drive' \in [op : Ops, sect : 0 .. FILES, left : Nat, busy : BOOLEAN, data : Buffer]
  <2>1. drive' = [op |-> drive.op, sect |-> drive.sect, left |-> drive.left, busy |-> TRUE,
                  data |-> b]
    BY <1>1, <1>5 DEF IInv, TypeOK
  <2>. QED BY <1>5, <2>1 DEF IInv, TypeOK
<1>7. TypeOK'
  BY <1>2, <1>4, <1>6 DEF IInv, TypeOK
<1>8. SamePlaces /\ Answers
  BY <1>2 DEF SamePlaces, Answers
<1>9. ServesOne'
  BY <1>1, <1>2, <1>3, <1>4 DEF IInv, ServesOne
<1>10. ~Opens /\ hd.left = drive.left /\ ~irq /\ hd.op = "write"
  BY <1>1 DEF IInv, DriverInv, DriveInv
<1>11. DriverInv'
  BY <1>1, <1>2, <1>3, <1>4, <1>10 DEF IInv, DriverInv, Opens
<1>12. DriveInv'
  BY <1>1, <1>2, <1>3, <1>4, <1>6, <1>10 DEF IInv, DriveInv, Commands
<1>13. Transfers'
  <2>1. ASSUME NEW d \in Client, InLog(d)'
        PROVE  /\ InLog(d) /\ (Served(d)' => Served(d))
    BY <1>1, <1>2, <1>4, <2>1 DEF InLog, Served
  <2>2. InLog(c) => b = logdiskbuf
    BY <1>1, <1>3, <1>5, Working DEF Commands
  <2>. QED BY <1>1, <1>2, <1>3, <1>4, <1>6, <1>10, <2>1, <2>2
       DEF IInv, Transfers, ReadIn, Wrote, Commands
<1>14. Reporters'
  <2>1. \A i \in 1 .. Len(log_queue) : log_queue[i] # "HD"
    BY <1>1 DEF IInv, Reporters
  <2>. QED BY <1>2, <1>4, <2>1 DEF IInv, Reporters
<1>15. Due' = Due
  <2>1. HdDue' = HdDue
    BY <1>1, <1>3, <1>4 DEF HdDue
  <2>. QED BY <1>2, <1>7, <2>1, DueFrame
<1>16. Len(log_queue') + Due' <= Len(log_queue) + Due
  BY <1>2, <1>15, DueStays
<1>. QED BY <1>2, <1>7, <1>8, <1>9, <1>11, <1>12, <1>13, <1>14, <1>16, DriverStep

LEMMA HdReplyInv == ASSUME IInv, HdReply PROVE IInv'
<1>1. /\ hd.at = "reply" /\ hd' = HdIdle
      /\ call' = [call EXCEPT ![hd.client].at = "answered"]
  BY DEF HdReply
<1>2. /\ disk' = disk /\ irq' = irq /\ logdiskbuf' = logdiskbuf /\ pos' = pos /\ drive' = drive
      /\ log_buf' = log_buf /\ system_ready' = system_ready /\ todo' = todo
      /\ records' = records /\ written' = written /\ log_queue' = log_queue
      /\ stopped' = stopped /\ crashes' = crashes /\ hd_queue' = hd_queue
  BY DEF HdReply, tasklog
<1>3. PICK c \in Client : c = hd.client
  BY DEF IInv, TypeOK
<1>4. call[c].at = "calling" /\ \A i \in 1 .. Len(hd_queue) : hd_queue[i] # c
  BY <1>1, <1>3 DEF IInv, ServesOne
<1>5. /\ call'[c].at = "answered" /\ call'[c].pc = call[c].pc /\ call'[c].op = call[c].op
      /\ call'[c].sect = call[c].sect /\ call'[c].n = call[c].n /\ call'[c].str = call[c].str
      /\ \A d \in Client : d # c => call'[d] = call[d]
      /\ call' \in [Client -> [at : {"idle", "calling", "answered", "sending"}, pc : Pcs, op : Ops,
                               sect : 0 .. FILES, n : Nat, str : Seq(Nat)]]
  <2>1. PICK r : r = [call[c] EXCEPT !.at = "answered"]
    OBVIOUS
  <2>4. PICK o : o = call[c]
    OBVIOUS
  <2>5. o \in [at : {"idle", "calling", "answered", "sending"}, pc : Pcs, op : Ops,
               sect : 0 .. FILES, n : Nat, str : Seq(Nat)]
    BY <2>4 DEF IInv, TypeOK
  <2>6. /\ r.at = "answered" /\ r.pc = o.pc /\ r.op = o.op /\ r.sect = o.sect
        /\ r.n = o.n /\ r.str = o.str
    BY ONLY <2>1, <2>4, <2>5
  <2>7. r \in [at : {"idle", "calling", "answered", "sending"}, pc : Pcs, op : Ops,
               sect : 0 .. FILES, n : Nat, str : Seq(Nat)]
    BY ONLY <2>1, <2>4, <2>5
  <2>2. /\ r.at = "answered" /\ r.pc = call[c].pc /\ r.op = call[c].op /\ r.sect = call[c].sect
        /\ r.n = call[c].n /\ r.str = call[c].str
        /\ r \in [at : {"idle", "calling", "answered", "sending"}, pc : Pcs, op : Ops,
                  sect : 0 .. FILES, n : Nat, str : Seq(Nat)]
    BY <2>4, <2>6, <2>7
  <2>3. call' = [call EXCEPT ![c] = r]
    BY <1>1, <1>3, <2>1
  <2>. QED BY <2>2, <2>3 DEF IInv, TypeOK
<1>6. hd'.at = "receive" /\ hd'.script = <<>>
  BY <1>1 DEF HdIdle
<1>7. TypeOK'
  BY <1>1, <1>2, <1>5, Constant DEF IInv, TypeOK
<1>8. SamePlaces /\ Answers
  BY <1>4, <1>5 DEF SamePlaces, Answers
<1>9. ServesOne'
  <2>1. ServesOne
    BY DEF IInv
  <2>2. ASSUME NEW i \in 1 .. Len(hd_queue) PROVE call'[hd_queue[i]].at = "calling"
    <3>1. hd_queue[i] \in Client /\ hd_queue[i] # c
      BY <1>4, HdQueue
    <3>2. call'[hd_queue[i]] = call[hd_queue[i]]
      BY <1>5, <3>1
    <3>. QED BY <2>1, <3>2 DEF ServesOne
  <2>. QED BY <1>2, <1>6, <2>1, <2>2 DEF ServesOne
<1>10. ~drive.busy /\ ~irq
  BY <1>1 DEF IInv, DriveInv
<1>11. DriverInv' /\ DriveInv'
  BY <1>2, <1>6, <1>10 DEF DriverInv, DriveInv, Commands
<1>12. Transfers'
  <2>1. ASSUME NEW d \in Client, InLog(d)'
        PROVE  /\ InLog(d) /\ (Served(d)' => Served(d))
               /\ call'[d].op = call[d].op /\ call'[d].sect = call[d].sect /\ call'[d].n = call[d].n
    BY <1>1, <1>3, <1>5, <1>6, <2>1 DEF InLog, Served
  <2>. QED BY <1>2, <1>6, <2>1 DEF IInv, Transfers, ReadIn, Wrote, Commands
<1>13. Reporters'
  <2>1. \A i \in 1 .. Len(log_queue) : log_queue[i] # "HD"
    BY <1>1 DEF IInv, Reporters
  <2>2. call["FS"].at = "sending" => call'["FS"] = call["FS"]
    BY <1>4, <1>5 DEF Client
  <2>3. Len(<<>>) = 0 /\ <<>> = ScriptFrom(0)
    BY ScriptForm, EmptySeq
  <2>. QED BY <1>2, <1>6, <2>1, <2>2, <2>3, Sizes DEF IInv, Reporters
<1>14. Len(log_queue') + Due' <= Len(log_queue) + Due
  <2>1. DueCases /\ DueCases'
    BY <1>7, DueIs DEF IInv
  <2>2. HdDue' = 2
    BY <1>6 DEF HdDue
  <2>3. c # "FS" => HdDue = 2
    BY <1>3 DEF HdDue
  <2>4. call'["FS"].pc = call["FS"].pc /\ InLog("FS")' = InLog("FS")
    BY <1>5 DEF InLog, Client
  <2>5. Due' \in Nat /\ Due \in Nat /\ Len(log_queue) \in Nat
    BY <1>7, DueIsNat, LogQueue, <2>1, <2>2 DEF IInv, DueCases
  <2>6. Due' <= Due
    <3>1. CASE c = "FS"
      BY <1>5, <2>1, <2>4, <2>5, <3>1 DEF DueCases
    <3>2. CASE c # "FS"
      <4>1. call'["FS"] = call["FS"]
        BY <1>5, <3>2 DEF Client
      <4>. QED BY <2>1, <2>2, <2>3, <2>4, <2>5, <3>2, <4>1 DEF DueCases
    <3>. QED BY <3>1, <3>2
  <2>. QED BY <1>2, <2>5, <2>6
<1>. QED BY <1>2, <1>7, <1>8, <1>9, <1>11, <1>12, <1>13, <1>14, DriverStep

LEMMA HdInterruptInv == ASSUME IInv, HdInterrupt PROVE IInv'
<1>1. hd.at = "interrupt" /\ irq /\ irq' = FALSE
  BY DEF HdInterrupt
<1>2. /\ call' = call /\ disk' = disk /\ pos' = pos
      /\ log_buf' = log_buf /\ system_ready' = system_ready /\ todo' = todo
      /\ records' = records /\ written' = written /\ log_queue' = log_queue
      /\ stopped' = stopped /\ crashes' = crashes /\ hd_queue' = hd_queue
  BY DEF HdInterrupt, tasklog
<1>3. PICK c \in Client : c = hd.client
  BY DEF IInv, TypeOK
<1>4. PICK at : at = IF hd.left > 1
                     THEN IF hd.op = "read" THEN "interrupt" ELSE "transfer"
                     ELSE IF call[c].op = "open" THEN "script" ELSE "reply"
  OBVIOUS
<1>5. PICK left \in Nat : left = hd.left - 1 /\ hd.left = left + 1
  BY <1>1, <1>3, Working DEF Commands
<1>6. /\ hd'.at = at /\ hd'.client = c /\ hd'.op = hd.op /\ hd'.sect = hd.sect
      /\ hd'.left = left /\ hd'.script = hd.script
      /\ hd' \in [at : {"receive", "script", "interrupt", "transfer", "log", "reply"},
                 client : Client, op : Ops, sect : 0 .. FILES, left : Nat,
                 script : Seq({"command", "log"})]
  <2>1. hd' = [at |-> at, client |-> hd.client, op |-> hd.op, sect |-> hd.sect, left |-> left,
               script |-> hd.script]
    BY <1>3, <1>4, <1>5 DEF HdInterrupt, IInv, TypeOK
  <2>2. at \in {"interrupt", "transfer", "script", "reply"}
    BY <1>4
  <2>3. /\ hd.client \in Client /\ hd.op \in Ops /\ hd.sect \in 0 .. FILES
        /\ hd.script \in Seq({"command", "log"})
    BY DEF IInv, TypeOK
  <2>. QED BY <1>3, <2>1, <2>2, <2>3
<1>7. /\ drive.left = left /\ ~drive.busy /\ drive.op = hd.op /\ call[c].at = "calling"
      /\ hd.op = "read" => logdiskbuf' = (IF hd.sect = FILES THEN logdiskbuf ELSE drive.data)
      /\ hd.op # "read" => logdiskbuf' = logdiskbuf
      /\ drive'.op = drive.op /\ drive'.sect = drive.sect /\ drive'.left = drive.left
      /\ drive'.busy = (hd.op = "read" /\ left > 0) /\ drive'.data = drive.data
      /\ drive' \in [op : Ops, sect : 0 .. FILES, left : Nat, busy : BOOLEAN, data : Buffer]
  <2>1. drive.left = left /\ ~drive.busy /\ drive.op = hd.op
    BY <1>1, <1>5, <1>3, Working DEF IInv, DriveInv, Commands
  <2>2. PICK b : b = (drive.left > 0)
    OBVIOUS
  <2>3. CASE hd.op = "read"
    <3>1. drive' = [drive EXCEPT !.busy = b]
      BY <2>2, <2>3 DEF HdInterrupt
    <3>2. drive' = [op |-> drive.op, sect |-> drive.sect, left |-> drive.left, busy |-> b,
                    data |-> drive.data]
      BY <3>1 DEF IInv, TypeOK
    <3>3. logdiskbuf' = (IF hd.sect = FILES THEN logdiskbuf ELSE drive.data)
      BY <2>3 DEF HdInterrupt
    <3>4. b \in BOOLEAN
      BY <2>2
    <3>. QED BY <1>1, <1>3, <2>1, <2>2, <2>3, <3>2, <3>3, <3>4, Working DEF IInv, TypeOK, Commands
  <2>4. CASE hd.op # "read"
    <3>1. drive' = drive /\ logdiskbuf' = logdiskbuf
      BY <2>4 DEF HdInterrupt
    <3>. QED BY <1>1, <1>3, <2>1, <2>4, <3>1, Working DEF IInv, TypeOK, Commands
  <2>. QED BY <2>3, <2>4
<1>8. TypeOK'
  <2>1. logdiskbuf' \in Buffer
    BY <1>7 DEF IInv, TypeOK
  <2>. QED BY <1>1, <1>2, <1>6, <1>7, <2>1 DEF IInv, TypeOK
<1>9. SamePlaces /\ Answers
  BY <1>2 DEF SamePlaces, Answers
<1>10. hd.at \in Commands /\ hd.sect \in 0 .. FILES
  BY <1>1, <1>3, Working DEF Commands
<1>11. hd.op = "read" /\ hd.sect # FILES =>
           /\ InLog(c) /\ call[c].op = "read" /\ left = 0 /\ call[c].pc \in ReadPcs
           /\ drive.data = disk[call[c].sect] /\ \A d \in Client : d # c => ~InLog(d)
  <2>. SUFFICES ASSUME hd.op = "read", hd.sect # FILES
                PROVE  /\ InLog(c) /\ call[c].op = "read" /\ left = 0 /\ call[c].pc \in ReadPcs
                       /\ drive.data = disk[call[c].sect] /\ \A d \in Client : d # c => ~InLog(d)
    OBVIOUS
  <2>1. /\ InLog(c) /\ call[c].op = "read" /\ call[c].n = 1 /\ ~Opens
        /\ \A d \in Client : d # c => ~InLog(d)
    BY <1>3, <1>10, Working
  <2>2. hd.left <= call[c].n
    BY <1>1, <1>3, <2>1 DEF IInv, DriverInv
  <2>3. call[c].pc \in ReadPcs
    BY <2>1, Facts DEF Request
  <2>4. drive.data = disk[call[c].sect]
    BY <1>1, <1>3, <1>10, <2>1 DEF IInv, Transfers
  <2>. QED BY <1>5, <2>1, <2>2, <2>3, <2>4
<1>12. logdiskbuf' = logdiskbuf \/ BufferFree
  BY <1>7, <1>11 DEF BufferFree
<1>13. ServesOne'
  <2>1. at # "receive"
    BY <1>4
  <2>. QED BY <1>1, <1>2, <1>3, <1>6, <2>1 DEF IInv, ServesOne
<1>14. DriverInv'
  <2>1. CASE Opens
    <3>1. hd.sect = FILES /\ hd.op = "read" /\ hd.left = 1 /\ call[c].op = "open"
      BY <1>1, <1>3, <2>1 DEF IInv, DriverInv, Opens
    <3>2. hd'.at = "script" /\ Opens'
      BY <1>2, <1>4, <1>6, <3>1 DEF Opens
    <3>. QED BY <1>6, <3>1, <3>2 DEF DriverInv
  <2>2. CASE ~Opens
    <3>1. /\ hd.op = call[c].op /\ hd.sect = call[c].sect /\ hd.left <= call[c].n
          /\ call[c].op # "open" /\ call[c].n \in 1 .. MAX_IO /\ call[c].op \in {"read", "write"}
      BY <1>1, <1>3, <1>7, <2>2, Facts DEF IInv, DriverInv, Opens
    <3>2. ~Opens' /\ hd'.at \notin {"script", "log"}
      BY <1>2, <1>4, <1>6, <3>1 DEF Opens
    <3>3. hd'.at = "reply" <=> left = 0
      <4>1. hd.left > 1 <=> left # 0
        BY <1>5
      <4>2. CASE left = 0
        BY <1>4, <1>6, <3>1, <4>1, <4>2
      <4>3. CASE left # 0
        BY <1>4, <1>6, <3>1, <4>1, <4>3
      <4>. QED BY <4>2, <4>3
    <3>4. left <= call[c].n
      BY <1>5, <3>1, Sizes
    <3>5. hd'.at = "transfer" => hd.op = "write"
      BY <1>4, <1>6, <3>1
    <3>. QED BY <1>2, <1>6, <3>1, <3>2, <3>3, <3>4, <3>5 DEF DriverInv
  <2>. QED BY <2>1, <2>2
<1>15. DriveInv'
  <2>1. drive'.busy => hd'.at = "interrupt" /\ drive'.left = hd'.left
    <3>1. left > 0 => hd.left > 1
      BY <1>5
    <3>. QED BY <1>4, <1>6, <1>7, <3>1
  <2>2. IF hd.sect = FILES THEN drive.sect = FILES
        ELSE drive.sect + drive.left = hd.sect + call[c].n
    BY <1>3, <1>10 DEF IInv, DriveInv
  <2>. QED BY <1>1, <1>2, <1>6, <1>7, <2>1, <2>2 DEF DriveInv, Commands
<1>16. Transfers'
  <2>1. ASSUME NEW d \in Client, InLog(d)', d # c
        PROVE  /\ InLog(d) /\ (Served(d)' => Served(d)) /\ hd'.client # d
               /\ logdiskbuf' = logdiskbuf
    BY <1>2, <1>6, <1>7, <1>11, <2>1 DEF InLog, Served
  <2>2. ASSUME InLog(c)
        PROVE  /\ Served(c)' /\ call[c].op = "read" => logdiskbuf' = disk[call[c].sect]
               /\ Served(c)' /\ call[c].op = "write" =>
                      /\ logdiskbuf' = logdiskbuf
                      /\ \A s \in Sector : call[c].sect <= s /\ s < call[c].sect + call[c].n =>
                                               disk[s] = logdiskbuf
               /\ hd'.at \in Commands =>
                      /\ call[c].op = "write" =>
                            /\ ~drive'.busy /\ logdiskbuf' = logdiskbuf
                            /\ \A s \in Sector : call[c].sect <= s /\ s < drive.sect =>
                                                     disk[s] = logdiskbuf
                      /\ ~irq'
    <3>1. /\ hd.sect # FILES /\ hd.op = call[c].op /\ drive.sect + left = call[c].sect + call[c].n
          /\ drive.sect \in 0 .. FILES /\ hd.op \in {"read", "write"}
      BY <1>3, <1>7, <1>10, <2>2, Working, Facts
    <3>2. Served(c)' => at = "reply" /\ left = 0
      <4>1. Served(c)' => at = "reply"
        BY <1>2, <1>6, <1>7 DEF Served
      <4>2. at = "reply" => left = 0
        BY <1>4, <1>5
      <4>. QED BY <4>1, <4>2
    <3>3. call[c].op = "write" =>
              \A s \in Sector : call[c].sect <= s /\ s < drive.sect => disk[s] = logdiskbuf
      BY <1>3, <1>10, <2>2 DEF IInv, Transfers
    <3>4. Served(c)' => drive.sect = call[c].sect + call[c].n
      BY <3>1, <3>2, Sizes DEF FILES
    <3>5. call[c].op = "write" => ~drive'.busy /\ logdiskbuf' = logdiskbuf
      BY <1>7, <3>1
    <3>6. call[c].op = "read" => logdiskbuf' = disk[call[c].sect]
      BY <1>7, <1>11, <3>1
    <3>. QED BY <1>1, <3>3, <3>4, <3>5, <3>6
  <2>3. ASSUME NEW d \in Client, InLog(d)'
        PROVE  /\ Served(d)' /\ call'[d].op = "read" => ReadIn(d)'
               /\ Served(d)' /\ call'[d].op = "write" =>
                     \A s \in Sector : call'[d].sect <= s /\ s < call'[d].sect + call'[d].n =>
                                           disk'[s] = logdiskbuf'
               /\ hd'.at \in Commands /\ hd'.client = d =>
                     /\ call'[d].op = "write" =>
                           /\ \A s \in Sector : call'[d].sect <= s /\ s < drive'.sect =>
                                                    disk'[s] = logdiskbuf'
                           /\ drive'.busy => drive'.data = logdiskbuf'
                     /\ ~(call'[d].op = "read" /\ irq')
    <3>1. CASE d = c
      <4>1. InLog(c)
        BY <1>2, <2>3, <3>1 DEF InLog
      <4>. QED BY <1>1, <1>2, <1>7, <2>2, <3>1, <4>1 DEF ReadIn
    <3>2. CASE d # c
      <4>1. InLog(d) /\ (Served(d)' => Served(d)) /\ hd'.client # d /\ logdiskbuf' = logdiskbuf
        BY <2>1, <2>3, <3>2
      <4>. QED BY <1>1, <1>2, <4>1 DEF IInv, Transfers, ReadIn, Wrote
    <3>. QED BY <3>1, <3>2
  <2>. QED BY <2>3 DEF Transfers, Wrote
<1>17. Reporters'
  <2>1. \A i \in 1 .. Len(log_queue) : log_queue[i] # "HD"
    BY <1>1 DEF IInv, Reporters
  <2>. QED BY <1>2, <1>6, <2>1 DEF IInv, Reporters
<1>18. Due' = Due
  <2>1. HdDue' = HdDue
    BY <1>1, <1>3, <1>4, <1>6 DEF HdDue
  <2>. QED BY <1>2, <1>8, <2>1, DueFrame
<1>19. Len(log_queue') + Due' <= Len(log_queue) + Due
  BY <1>2, <1>18, DueStays
<1>. QED BY <1>2, <1>8, <1>9, <1>12, <1>13, <1>14, <1>15, <1>16, <1>17, <1>19, DriverStep
-----------------------------------------------------------------------------
\* The drive writes a sector for disklog().

LEMMA FilledDiffer == Filled(1) # Filled(0)
<1>1. 0 \in 0 .. SectorSize - 1
  BY Sizes
<1>2. Filled(1)[0] = 1 /\ Filled(0)[0] = 0
  BY <1>1 DEF Filled
<1>. QED BY <1>2

\* A position below another one is in a sector before it, or before it in its sector.
LEMMA HeaderAt == 0 \div SectorSize = 0 /\ 0 % SectorSize = 0 /\ Header = OnDisk(0)
<1>1. 0 = (0 * SectorSize) + 0 /\ 0 \in 0 .. SectorSize - 1
  BY Sizes
<1>2. 0 \div SectorSize = 0 /\ 0 % SectorSize = 0
  BY <1>1, Sizes, DivisionOnce
<1>. QED BY <1>2 DEF Header, OnDisk

\* The log of this session never reaches the last sector.
LEMMA RoomFor ==
    ASSUME IInv, pos > 0
    PROVE  /\ Given <= Chars(MaxRecords) /\ Len(written) <= Chars(MaxRecords) /\ Given \in Nat
           /\ Chars(MaxRecords) \in Nat /\ Len(written) \in Nat
<1>1. Fresh
  BY DEF Fresh
<1>2. Given + Chars(Len(log_queue) + Due) <= Chars(MaxRecords)
  BY <1>1 DEF IInv, Lengths
<1>3. Len(log_queue) + Due \in Nat
  <2>1. Due \in Nat
    BY DueIsNat DEF IInv
  <2>2. Len(log_queue) \in Nat
    BY LogQueue
  <2>. QED BY <2>1, <2>2
<1>4. Chars(Len(log_queue) + Due) \in Nat /\ Chars(MaxRecords) \in Nat
  BY <1>3, CharsAdd, Sizes
<1>5. /\ Len(Pending("LOG")) \in Nat /\ Len(Pending("FS")) \in Nat /\ Len(Todo(1)) \in Nat
      /\ Len(Todo(2)) \in Nat /\ Len(log_buf) \in Nat /\ Len(written) \in Nat
  BY Strings, LenProperties DEF IInv
<1>. QED BY <1>2, <1>4, <1>5 DEF Given

LEMMA HeaderIsNat == ASSUME TypeOK PROVE Header \in Nat
<1>1. 0 \in Sector /\ 0 \in 0 .. SectorSize - 1
  BY Sizes DEF Sector, SMAP
<1>2. disk[0] \in Buffer
  BY <1>1 DEF TypeOK
<1>. QED BY <1>1, <1>2 DEF Header, Buffer

LEMMA SectorWritten ==
    ASSUME IInv, NEW c \in Client, InLog(c), call[c].op = "write",
           \A d \in Client : d # c => ~InLog(d),
           NEW ds \in Sector, call[c].sect <= ds, ds < call[c].sect + call[c].n,
           disk' = [disk EXCEPT ![ds] = logdiskbuf],
           call' = call, logdiskbuf' = logdiskbuf, pos' = pos, written' = written,
           crashes' = crashes
    PROVE  (\A d \in Client : Content(d))' /\ Begun' /\ OnDiskBelow' /\ HeaderCovers'
           /\ (Fresh' => Fresh)
<1>1. /\ TypeOK /\ Request(c) /\ Content(c) /\ Begun /\ OnDiskBelow /\ HeaderCovers
      /\ pos \in Nat /\ call[c].sect \in 0 .. FILES
      /\ disk \in [Sector -> Buffer] /\ logdiskbuf \in Buffer /\ 0 \in Sector /\ SMAP \in Sector
      /\ written \in Seq(Nat) /\ Len(written) \in Nat
  <2>1. /\ TypeOK /\ Request(c) /\ Content(c) /\ Begun /\ OnDiskBelow /\ HeaderCovers
        /\ call[c].sect \in 0 .. FILES
    BY Facts DEF IInv
  <2>2. /\ pos \in Nat /\ disk \in [Sector -> Buffer] /\ logdiskbuf \in Buffer
        /\ written \in Seq(Nat)
    BY <2>1 DEF TypeOK
  <2>3. 0 \in Sector /\ SMAP \in Sector
    BY Sizes DEF Sector, SMAP
  <2>4. Len(written) \in Nat
    BY <2>2
  <2>. QED BY <2>1, <2>2, <2>3, <2>4
<1>2. /\ disk'[ds] = logdiskbuf
      /\ \A s \in Sector : s # ds => disk'[s] = disk[s]
  BY <1>1
<1>3. \/ call[c].pc = "smap write" \/ call[c].pc = "fill" \/ call[c].pc = "data write"
      \/ call[c].pc = "head write" \/ call[c].pc = "last write"
  BY <1>1 DEF Request, InLog, LogPcs, MapPcs, DataPcs, HeadPcs, ReadPcs
<1>4. ASSUME NEW d \in Client, d # c PROVE Content(d)'
  BY <1>4 DEF Content, InLog, LogPcs, MapPcs, DataPcs, HeadPcs
<1>5. InLog(c)'
  BY DEF InLog
<1>6. CASE call[c].pc = "smap write"
  <2>1. call[c].sect = SMAP /\ call[c].n = 1
    BY <1>1, <1>6 DEF Request
  <2>2. ds = SMAP
    BY <2>1, Sizes DEF Sector, SMAP
  <2>3. pos = 0 /\ logdiskbuf = Filled(1) /\ written = <<>>
    BY <1>1, <1>6 DEF Content
  <2>4. Header = 0 /\ Header' = Header
    <3>1. SMAP # 0
      BY Sizes DEF SMAP
    <3>. QED BY <1>1, <1>2, <2>2, <2>3, <3>1 DEF Header, Begun
  <2>5. disk'[SMAP] = Filled(1) /\ disk'[SMAP] # Filled(0)
    BY <1>2, <2>2, <2>3, FilledDiffer
  <2>6. Content(c)'
    BY <1>1, <1>6 DEF Content, Rest, MapPcs, DataPcs, HeadPcs
  <2>7. Begun'
    BY <1>6, <2>3, <2>4, <2>5 DEF Begun
  <2>8. OnDiskBelow' /\ HeaderCovers'
    BY <2>3, <2>4 DEF OnDiskBelow, HeaderCovers
  <2>9. Fresh
    BY <1>6 DEF Fresh
  <2>. QED BY <1>4, <2>6, <2>7, <2>8, <2>9
<1>7. CASE call[c].pc = "fill"
  <2>1. call[c].n = MAX_IO /\ call[c].sect + MAX_IO <= LogSects
    BY <1>1, <1>7 DEF Request
  <2>2. ds # SMAP
    BY <1>1, <2>1, Sizes DEF Sector, SMAP
  <2>3. pos = 1 /\ logdiskbuf = Filled(0) /\ written = <<>>
    BY <1>1, <1>7 DEF Content
  <2>4. Header = 0 /\ Header' = 0
    <3>1. Filled(0)[0] = 0
      BY Sizes DEF Filled
    <3>. QED BY <1>1, <1>2, <2>3, <3>1 DEF Header, Begun
  <2>5. disk'[SMAP] = disk[SMAP]
    BY <1>1, <1>2, <2>2
  <2>6. Content(c)'
    BY <1>1, <1>7 DEF Content, Rest, MapPcs, DataPcs, HeadPcs
  <2>7. Begun'
    BY <1>1, <2>3, <2>4, <2>5 DEF Begun
  <2>8. OnDiskBelow' /\ HeaderCovers'
    BY <1>5, <2>3, <2>4 DEF OnDiskBelow, HeaderCovers
  <2>9. Fresh
    BY <2>3 DEF Fresh
  <2>. QED BY <1>4, <2>6, <2>7, <2>8, <2>9
<1>8. ASSUME ds # SMAP, pos > 0, Content(c)', Header' = Header,
             \A k \in 1 .. pos - 1 : OnDisk(k)' = OnDisk(k)
      PROVE  Content(c)' /\ Begun' /\ OnDiskBelow' /\ HeaderCovers' /\ (Fresh' => Fresh)
  <2>1. disk'[SMAP] = disk[SMAP]
    BY <1>1, <1>2, <1>8
  <2>2. Begun'
    BY <1>1, <1>8, <2>1 DEF Begun
  <2>3. OnDiskBelow'
    BY <1>1, <1>5, <1>8 DEF OnDiskBelow
  <2>4. HeaderCovers'
    <3>1. Header <= pos /\ pos <= Len(written) + 1
      BY <1>1, <1>8 DEF OnDiskBelow
    <3>2. Header \in Nat
      BY <1>1, HeaderIsNat
    <3>3. \A k \in 1 .. Header - 1 : k \in 1 .. pos - 1
      BY <1>1, <3>1, <3>2
    <3>. QED BY <1>1, <1>8, <3>3 DEF HeaderCovers
  <2>5. Fresh
    BY <1>8 DEF Fresh
  <2>. QED BY <1>8, <2>2, <2>3, <2>4, <2>5
<1>9. CASE call[c].pc = "data write"
  <2>1. call[c].n = 1 /\ call[c].sect < LogSects - 1
    BY <1>1, <1>9 DEF Request, DataPcs
  <2>2. /\ pos > 0 /\ call[c].sect = pos \div SectorSize
        /\ \A i \in 0 .. Off - 1 : logdiskbuf[i] = disk[call[c].sect][i]
    BY <1>1, <1>9 DEF Content, DataPcs
  <2>3. ds = call[c].sect /\ ds # SMAP
    BY <1>1, <2>1, Sizes DEF Sector, SMAP
  <2>4. ASSUME NEW k \in 0 .. pos - 1 PROVE OnDisk(k)' = OnDisk(k)
    <3>1. k \in Nat /\ k < pos
      BY <1>1
    <3>2. PICK s : s = k \div SectorSize
      OBVIOUS
    <3>3. PICK o : o = k % SectorSize
      OBVIOUS
    <3>4. s \in Nat /\ o \in 0 .. SectorSize - 1
      BY <3>1, <3>2, <3>3, SectorOf
    <3>5. CASE s = ds
      <4>1. pos - (pos % SectorSize) <= k /\ k < pos - (pos % SectorSize) + SectorSize
        BY <1>1, <2>2, <2>3, <3>1, <3>2, <3>5, SectorOf
      <4>2. o = k - (pos - (pos % SectorSize))
        BY <1>1, <3>1, <3>3, <4>1, SectorOf
      <4>3. pos % SectorSize \in 0 .. SectorSize - 1
        BY <1>1, SectorOf
      <4>4. o \in 0 .. (pos % SectorSize) - 1
        BY <1>1, <3>1, <3>4, <4>2, <4>3
      <4>5. logdiskbuf[o] = disk[ds][o]
        BY <2>2, <2>3, <4>4 DEF Off
      <4>. QED BY <1>2, <3>2, <3>3, <3>5, <4>5 DEF OnDisk
    <3>6. CASE s # ds
      <4>1. s \in Sector
        <5>0. pos <= Len(written) + 1
          BY <1>1, <2>2 DEF OnDiskBelow
        <5>1. k <= Chars(MaxRecords)
          BY <1>1, <2>2, <3>1, <5>0, RoomFor
        <5>2. s < LogSects - 1
          BY <3>1, <3>2, <5>1, LogHasRoom
        <5>. QED BY <3>4, <5>2, Sizes DEF Sector, SMAP
      <4>. QED BY <1>2, <3>2, <3>3, <3>6, <4>1 DEF OnDisk
    <3>. QED BY <3>5, <3>6
  <2>5. Header' = Header
    <3>1. OnDisk(0)' = OnDisk(0)
      BY <1>1, <2>2, <2>4
    <3>2. Header = OnDisk(0) /\ Header' = OnDisk(0)'
      BY HeaderAt DEF Header, OnDisk
    <3>. QED BY <3>1, <3>2
  <2>6. Content(c)'
    <3>1. Part(Rest(c))' = Part(Rest(c)) /\ Off' = Off /\ Rest(c)' = Rest(c)
      BY DEF Part, Off, Rest
    <3>. QED BY <1>1, <1>2, <1>9, <2>3, <3>1 DEF Content, MapPcs, DataPcs, HeadPcs
  <2>7. \A k \in 1 .. pos - 1 : OnDisk(k)' = OnDisk(k)
    BY <2>4
  <2>. QED BY <1>4, <1>8, <2>2, <2>3, <2>5, <2>6, <2>7
<1>10. CASE call[c].pc = "head write"
  <2>1. call[c].n = 1 /\ call[c].sect = 0
    BY <1>1, <1>10 DEF Request
  <2>2. ds = 0 /\ ds # SMAP
    BY <1>1, <2>1, Sizes DEF Sector, SMAP
  <2>3. /\ pos = Len(written) + 1 /\ written # <<>> /\ logdiskbuf[0] = pos
        /\ \A i \in 1 .. SectorSize - 1 : logdiskbuf[i] = disk[0][i]
    BY <1>1, <1>10 DEF Content, HeadPcs
  <2>4. Header' = pos
    BY <1>2, <2>2, <2>3 DEF Header
  <2>5. ASSUME NEW k \in 1 .. pos - 1 PROVE OnDisk(k)' = OnDisk(k)
    <3>1. k \in Nat /\ k > 0 /\ k < pos
      BY <1>1
    <3>2. PICK s : s = k \div SectorSize
      OBVIOUS
    <3>3. PICK o : o = k % SectorSize
      OBVIOUS
    <3>4. s \in Nat /\ o \in 0 .. SectorSize - 1
      BY <3>1, <3>2, <3>3, SectorOf
    <3>5. CASE s = 0
      <4>1. k = ((k \div SectorSize) * SectorSize) + (k % SectorSize)
        BY <3>1, Sizes, Division
      <4>2. k = (0 * SectorSize) + o
        BY <3>2, <3>3, <3>5, <4>1
      <4>3. o = k
        BY <3>1, <3>4, <4>2, Sizes
      <4>4. logdiskbuf[o] = disk[0][o]
        BY <2>3, <3>1, <3>4, <4>3
      <4>. QED BY <1>2, <2>2, <3>2, <3>3, <3>5, <4>4 DEF OnDisk
    <3>6. CASE s # 0
      <4>1. s \in Sector
        <5>1. k <= Chars(MaxRecords)
          <6>1. pos > 0 /\ pos = Len(written) + 1
            BY <1>1, <2>3
          <6>. QED BY <1>1, <3>1, <6>1, RoomFor
        <5>2. s < LogSects - 1
          BY <3>1, <3>2, <5>1, LogHasRoom
        <5>. QED BY <3>4, <5>2, Sizes DEF Sector, SMAP
      <4>. QED BY <1>2, <2>2, <3>2, <3>3, <3>6, <4>1 DEF OnDisk
    <3>. QED BY <3>5, <3>6
  <2>6. disk'[SMAP] = disk[SMAP] /\ pos > 0
    BY <1>1, <1>2, <2>2, <2>3
  <2>7. Content(c)'
    BY <1>1, <1>2, <1>10, <2>2, <2>3 DEF Content, Rest, MapPcs, DataPcs, HeadPcs
  <2>8. Begun'
    BY <1>1, <2>3, <2>6 DEF Begun
  <2>9. \A k \in 1 .. pos - 1 : OnDisk(k)' = written[k]
    BY <1>1, <2>5, <2>6 DEF OnDiskBelow
  <2>10. OnDiskBelow'
    BY <1>1, <1>5, <2>3, <2>4, <2>9 DEF OnDiskBelow
  <2>11. HeaderCovers'
    BY <1>1, <2>3, <2>4, <2>9 DEF HeaderCovers
  <2>12. Fresh
    BY <2>6 DEF Fresh
  <2>. QED BY <1>4, <2>7, <2>8, <2>10, <2>11, <2>12
<1>11. CASE call[c].pc = "last write"
  <2>1. call[c].n = 1 /\ call[c].sect = LogSects - 1
    BY <1>1, <1>11 DEF Request
  <2>2. ds = LogSects - 1 /\ ds # SMAP /\ ds # 0
    BY <1>1, <2>1, Sizes DEF Sector, SMAP
  <2>3. pos = Len(written) + 1 /\ pos > 0
    <3>1. pos = Len(written) + 1
      BY <1>1, <1>11 DEF Content, HeadPcs
    <3>. QED BY <1>1, <3>1
  <2>4. Header' = Header
    BY <1>1, <1>2, <2>2 DEF Header
  <2>5. ASSUME NEW k \in 1 .. pos - 1 PROVE OnDisk(k)' = OnDisk(k)
    <3>1. k \in Nat /\ k <= Chars(MaxRecords)
      BY <1>1, <2>3, RoomFor
    <3>2. PICK s : s = k \div SectorSize
      OBVIOUS
    <3>3. s \in Nat /\ s < LogSects - 1
      BY <3>1, <3>2, LogHasRoom, SectorOf
    <3>4. s \in Sector /\ s # ds
      BY <2>2, <3>3, Sizes DEF Sector, SMAP
    <3>. QED BY <1>2, <3>2, <3>4 DEF OnDisk
  <2>6. Content(c)'
    BY <1>1, <1>11, <2>4 DEF Content, Rest, MapPcs, DataPcs, HeadPcs
  <2>. QED BY <1>4, <1>8, <2>2, <2>3, <2>4, <2>5, <2>6
<1>. QED BY <1>3, <1>6, <1>7, <1>9, <1>10, <1>11

LEMMA DriveInterruptInv == ASSUME IInv, DriveInterrupt PROVE IInv'
<1>1. /\ drive.busy /\ irq' = TRUE
      /\ IF drive.op = "write" /\ drive.sect # FILES
         THEN disk' = [disk EXCEPT ![drive.sect] = drive.data]
         ELSE disk' = disk
  BY DEF DriveInterrupt
<1>2. /\ call' = call /\ hd' = hd /\ pos' = pos /\ logdiskbuf' = logdiskbuf
      /\ log_buf' = log_buf /\ system_ready' = system_ready /\ todo' = todo
      /\ records' = records /\ written' = written /\ log_queue' = log_queue
      /\ stopped' = stopped /\ crashes' = crashes /\ hd_queue' = hd_queue
  BY DEF DriveInterrupt, tasklog
<1>3. PICK c \in Client : c = hd.client
  BY DEF IInv, TypeOK
<1>4. hd.at = "interrupt" /\ hd.at \in Commands /\ ~irq /\ drive.left = hd.left
  BY <1>1 DEF IInv, DriveInv, Commands
<1>5. PICK left \in Nat : left = drive.left - 1 /\ drive.left = left + 1
  BY <1>3, <1>4, Working
<1>6. hd.sect # FILES =>
         /\ InLog(c) /\ drive.sect \in Sector /\ drive.sect \in Nat /\ drive.sect # FILES
         /\ call[c].sect <= drive.sect /\ drive.sect < call[c].sect + call[c].n
         /\ (drive.sect + 1) + left = call[c].sect + call[c].n
         /\ call[c].op = "read" => drive.sect = call[c].sect
         /\ drive.op = call[c].op /\ call[c].op \in {"read", "write"}
         /\ \A d \in Client : d # c => ~InLog(d)
  <2>. SUFFICES ASSUME hd.sect # FILES
                PROVE  /\ InLog(c) /\ drive.sect \in Sector /\ drive.sect \in Nat
                       /\ drive.sect # FILES
                       /\ call[c].sect <= drive.sect /\ drive.sect < call[c].sect + call[c].n
                       /\ (drive.sect + 1) + left = call[c].sect + call[c].n
                       /\ call[c].op = "read" => drive.sect = call[c].sect
                       /\ drive.op = call[c].op /\ call[c].op \in {"read", "write"}
                       /\ \A d \in Client : d # c => ~InLog(d)
    OBVIOUS
  <2>1. /\ InLog(c) /\ ~Opens /\ drive.op = call[c].op
        /\ drive.sect + drive.left = call[c].sect + call[c].n
        /\ call[c].n \in Nat \ {0} /\ (call[c].op = "read" => call[c].n = 1)
        /\ drive.sect \in 0 .. FILES /\ call[c].at = "calling"
        /\ \A d \in Client : d # c => ~InLog(d)
    BY <1>3, <1>4, Working
  <2>2. call[c].sect \in 0 .. FILES /\ call[c].sect <= SMAP /\ call[c].op \in {"read", "write"}
    BY <1>3, <2>1, Facts DEF Opens
  <2>3. hd.left <= call[c].n
    BY <1>3, <1>4, <2>1 DEF IInv, DriverInv
  <2>4. Request(c)
    BY Facts
  <2>5. call[c].sect + call[c].n <= SMAP + 1
    <3>1. CASE call[c].pc = "fill"
      <4>1. call[c].n = MAX_IO /\ call[c].sect + MAX_IO <= LogSects
        BY <2>1, <2>4, <3>1 DEF Request
      <4>. QED BY <2>2, <4>1, Sizes DEF SMAP
    <3>2. CASE call[c].pc # "fill"
      <4>1. call[c].n = 1
        BY <2>1, <2>4, <3>2 DEF Request
      <4>. QED BY <2>2, <4>1, Sizes DEF SMAP
    <3>. QED BY <3>1, <3>2
  <2>6. PICK a \in Nat, n \in Nat, t \in Nat : a = call[c].sect /\ n = call[c].n /\ t = drive.sect
    BY <2>1, <2>2, Sizes DEF FILES
  <2>7. t + (left + 1) = a + n /\ left + 1 <= n
    BY <1>4, <1>5, <2>1, <2>3, <2>6
  <2>8. a <= t /\ t < a + n /\ (t + 1) + left = a + n /\ (n = 1 => t = a)
    BY <2>7
  <2>9. t \in Sector /\ t # FILES
    BY <2>5, <2>6, <2>8, Sizes DEF Sector, SMAP, FILES
  <2>. QED BY <2>1, <2>2, <2>6, <2>8, <2>9
<1>7. drive.op = "write" /\ drive.sect # FILES =>
         hd.sect # FILES /\ drive.data = logdiskbuf /\ call[c].op = "write"
  <2>1. drive.sect # FILES => hd.sect # FILES
    BY <1>3, <1>4, Working
  <2>2. InLog(c) /\ call[c].op = "write" => drive.data = logdiskbuf
    BY <1>1, <1>3, <1>4 DEF IInv, Transfers
  <2>. QED BY <1>6, <2>1, <2>2
<1>8. disk' \in [Sector -> Buffer]
  BY <1>1, <1>6, <1>7 DEF IInv, TypeOK
<1>9. /\ drive'.op = drive.op /\ drive'.busy = FALSE /\ drive'.left = left
      /\ drive'.sect = IF drive.sect = FILES THEN FILES ELSE drive.sect + 1
      /\ drive.op = "read" /\ drive.sect # FILES => drive'.data = disk[drive.sect]
      /\ drive' \in [op : Ops, sect : 0 .. FILES, left : Nat, busy : BOOLEAN, data : Buffer]
  <2>1. PICK t : t = IF drive.sect = FILES THEN FILES ELSE drive.sect + 1
    OBVIOUS
  <2>2. PICK b : b = IF drive.op = "read" /\ drive.sect # FILES THEN disk[drive.sect]
                     ELSE drive.data
    OBVIOUS
  <2>3. drive' = [op |-> drive.op, sect |-> t, left |-> left, busy |-> FALSE, data |-> b]
    <3>1. drive' = [drive EXCEPT !.busy = FALSE, !.left = left, !.sect = t, !.data = b]
      BY <1>5, <2>1, <2>2 DEF DriveInterrupt
    <3>. QED BY <3>1 DEF IInv, TypeOK
  <2>4. t \in 0 .. FILES
    <3>1. drive.sect # FILES => drive.sect \in Sector
      BY <1>3, <1>4, <1>6, Working
    <3>. QED BY <2>1, <3>1, Sizes DEF Sector, SMAP, FILES
  <2>5. b \in Buffer
    <3>1. drive.sect # FILES => drive.sect \in Sector
      BY <1>3, <1>4, <1>6, Working
    <3>. QED BY <2>2, <3>1 DEF IInv, TypeOK
  <2>6. drive.op \in Ops
    BY DEF IInv, TypeOK
  <2>. QED BY <2>1, <2>2, <2>3, <2>4, <2>5, <2>6
<1>10. TypeOK'
  BY <1>1, <1>2, <1>8, <1>9 DEF IInv, TypeOK
<1>11. SamePlaces /\ Answers
  BY <1>2 DEF SamePlaces, Answers
<1>12. /\ (\A d \in Client : Content(d))' /\ Begun' /\ OnDiskBelow' /\ HeaderCovers'
       /\ (Fresh' => Fresh)
  <2>1. CASE drive.op = "write" /\ drive.sect # FILES
    BY <1>1, <1>2, <1>6, <1>7, <2>1, SectorWritten
  <2>2. CASE ~(drive.op = "write" /\ drive.sect # FILES)
    <3>1. disk' = disk
      BY <1>1, <2>2
    <3>2. Fresh' => Fresh
      BY <1>2, <3>1 DEF Fresh
    <3>. QED BY <1>2, <1>11, <3>1, <3>2, ContentFrame
  <2>. QED BY <2>1, <2>2
<1>13. ServesOne' /\ DriverInv'
  BY <1>2 DEF IInv, ServesOne, DriverInv, Opens
<1>14. DriveInv'
  <2>1. IF hd.sect = FILES THEN drive.sect = FILES
        ELSE drive.sect + drive.left = hd.sect + call[c].n
    BY <1>3, <1>4 DEF IInv, DriveInv
  <2>2. IF hd.sect = FILES THEN drive'.sect = FILES
        ELSE drive'.sect + drive'.left = hd.sect + call[c].n
    <3>1. CASE hd.sect = FILES
      BY <1>9, <2>1, <3>1
    <3>2. CASE hd.sect # FILES
      <4>1. hd.sect = call[c].sect
        BY <1>3, <1>4, <3>2, Working
      <4>. QED BY <1>6, <1>9, <3>2, <4>1
    <3>. QED BY <3>1, <3>2
  <2>3. drive.op = hd.op
    BY <1>4 DEF IInv, DriveInv
  <2>4. drive'.left + 1 = hd.left
    BY <1>4, <1>5, <1>9
  <2>. QED BY <1>2, <1>3, <1>4, <1>9, <2>2, <2>3, <2>4 DEF DriveInv, Commands
<1>15. Transfers'
  <2>1. ASSUME NEW d \in Client, InLog(d)', d # c
        PROVE  InLog(d) /\ disk' = disk /\ Served(d)' = Served(d)
    <3>1. InLog(d)
      BY <1>2, <2>1 DEF InLog
    <3>. QED BY <1>1, <1>2, <1>6, <1>7, <2>1, <3>1 DEF Served
  <2>2. ~Served(c)'
    BY <1>2, <1>3, <1>4, Working DEF Served
  <2>3. ASSUME InLog(c)
        PROVE  /\ call[c].op = "write" =>
                      \A s \in Sector : call[c].sect <= s /\ s < drive'.sect => disk'[s] = logdiskbuf
               /\ call[c].op = "read" => drive'.data = disk'[call[c].sect]
    <3>1. hd.sect # FILES
      BY <1>3, <1>4, <2>3, Working
    <3>2. drive'.sect = drive.sect + 1
      BY <1>6, <1>9, <3>1
    <3>3. CASE call[c].op = "write"
      <4>1. disk' = [disk EXCEPT ![drive.sect] = logdiskbuf]
        BY <1>1, <1>6, <1>7, <3>1, <3>3
      <4>2. \A s \in Sector : call[c].sect <= s /\ s < drive.sect => disk[s] = logdiskbuf
        BY <1>3, <1>4, <2>3, <3>3 DEF IInv, Transfers
      <4>3. ASSUME NEW s \in Sector, call[c].sect <= s, s < drive'.sect
            PROVE  disk'[s] = logdiskbuf
        <5>1. s < drive.sect \/ s = drive.sect
          BY <1>6, <3>1, <3>2, <4>3, Sizes DEF Sector, SMAP
        <5>. QED BY <1>6, <3>1, <4>1, <4>2, <4>3, <5>1 DEF IInv, TypeOK
      <4>. QED BY <3>3, <4>3
    <3>4. CASE call[c].op = "read"
      BY <1>1, <1>6, <1>9, <3>1, <3>4
    <3>. QED BY <1>6, <3>1, <3>3, <3>4
  <2>4. ASSUME NEW d \in Client, InLog(d)'
        PROVE  /\ Served(d)' /\ call'[d].op = "read" => ReadIn(d)'
               /\ Served(d)' /\ call'[d].op = "write" =>
                     \A s \in Sector : call'[d].sect <= s /\ s < call'[d].sect + call'[d].n =>
                                           disk'[s] = logdiskbuf'
               /\ hd'.at \in Commands /\ hd'.client = d =>
                     /\ call'[d].op = "write" =>
                           /\ \A s \in Sector : call'[d].sect <= s /\ s < drive'.sect =>
                                                    disk'[s] = logdiskbuf'
                           /\ ~drive'.busy
                     /\ call'[d].op = "read" => drive'.data = disk'[call'[d].sect]
    <3>1. CASE d = c
      <4>1. InLog(c)
        BY <1>2, <2>4, <3>1 DEF InLog
      <4>. QED BY <1>2, <1>9, <2>2, <2>3, <3>1, <4>1
    <3>2. CASE d # c
      <4>1. InLog(d) /\ disk' = disk /\ Served(d)' = Served(d) /\ hd'.client # d
        BY <1>2, <1>3, <2>1, <2>4, <3>2
      <4>. QED BY <1>2, <4>1 DEF IInv, Transfers, ReadIn, Wrote
    <3>. QED BY <3>1, <3>2
  <2>. QED BY <2>4 DEF Transfers, Wrote
<1>16. Reporters'
  BY <1>2 DEF IInv, Reporters
<1>17. Due' = Due
  BY <1>2, <1>10, DueFrame DEF HdDue
<1>18. Due \in Nat /\ Len(log_queue') + Due' <= Len(log_queue) + Due
  BY <1>2, <1>17, DueStays
<1>19. Lengths'
  BY <1>2, <1>10, <1>11, <1>12, <1>17, <1>18, LengthsFrame
<1>20. (\A d \in Client : Request(d))' /\ Turns'
  BY <1>2, <1>11, RequestFrame
<1>. QED BY <1>10, <1>12, <1>13, <1>14, <1>15, <1>16, <1>19, <1>20 DEF IInv
-----------------------------------------------------------------------------
\* disklog().

\* Who is in disklog() has the buffer for itself.
LEMMA Alone ==
    ASSUME IInv, NEW c \in Client, InLog(c)
    PROVE  call[c].at # "idle" /\ call[c].at # "sending" /\ \A d \in Client : d # c => ~InLog(d)
<1>1. \A d \in Client : InLog(d) => call[d].at \notin {"idle", "sending"}
  BY DEF IInv, Request, InLog, LogPcs, MapPcs, DataPcs, HeadPcs
<1>. QED BY <1>1 DEF IInv, Turns, Client

\* A client asks the driver for disklog().
LEMMA AskStep ==
    ASSUME IInv, NEW c \in Client, call[c].at \notin {"calling", "sending"},
           \A d \in Client : d # c => ~InLog(d),
           NEW r, r.at = "calling", call'[c] = r, \A d \in Client : d # c => call'[d] = call[d],
           hd_queue' = Append(hd_queue, c), log_queue' = log_queue,
           hd' = hd, drive' = drive, irq' = irq, disk' = disk,
           TypeOK', Request(c)', Content(c)', Turns', Lengths', Begun', OnDiskBelow', HeaderCovers'
    PROVE  IInv'
<1>1. ServesOne' /\ DriverInv' /\ DriveInv' /\ Transfers'
  BY AskInv
<1>2. ASSUME NEW d \in Client, d # c PROVE Request(d)' /\ Content(d)'
  <2>1. call'[d] = call[d] /\ ~InLog(d) /\ Request(d)
    BY <1>2 DEF IInv
  <2>2. Request(d)'
    BY <2>1 DEF Request, InLog
  <2>3. Content(d)'
    BY <2>1 DEF Content, InLog, LogPcs, MapPcs, DataPcs, HeadPcs
  <2>. QED BY <2>2, <2>3
<1>3. Reporters'
  <2>1. call["FS"].at = "sending" => call'["FS"] = call["FS"]
    BY DEF Client
  <2>. QED BY <2>1 DEF IInv, Reporters
<1>. QED BY <1>1, <1>2, <1>3 DEF IInv

\* A client that is in disklog() goes on.
LEMMA LogStep ==
    ASSUME IInv, NEW c \in Client, call[c].at = "answered", InLog(c),
           NEW r, r.at = "calling", r.pc \in LogPcs, call'[c] = r,
           \A d \in Client : d # c => call'[d] = call[d],
           hd_queue' = Append(hd_queue, c), log_queue' = log_queue,
           hd' = hd, drive' = drive, irq' = irq, disk' = disk,
           todo' = todo, records' = records, crashes' = crashes,
           Given' = Given, GivenSet' = GivenSet, Fresh' => Fresh,
           TypeOK', Request(c)', Content(c)', Begun', OnDiskBelow', HeaderCovers'
    PROVE  IInv'
<1>1. \A d \in Client : d # c => ~InLog(d)
  BY Alone
<1>2. \A d \in Client : InLog(d)' = InLog(d)
  <2>1. InLog(c)'
    BY DEF InLog
  <2>2. ASSUME NEW d \in Client, d # c PROVE InLog(d)' = InLog(d)
    BY <2>2 DEF InLog
  <2>3. InLog(c)' = InLog(c)
    BY <2>1 DEF InLog
  <2>. QED BY <2>2, <2>3
<1>3. Turns'
  <2>1. "LOG" \in Client /\ "FS" \in Client
    BY DEF Client
  <2>2. InLog("FS") => c = "FS"
    BY <1>1, <2>1
  <2>3. InLog("FS") => call["LOG"].at = "idle" /\ todo = <<>>
    BY DEF IInv, Turns
  <2>4. call["LOG"].at # "sending" /\ (call["FS"].at # "idle" \/ call["FS"].pc = "none")
    BY DEF IInv, Turns
  <2>5. InLog("FS")' => call'["LOG"].at = "idle" /\ todo' = <<>>
    BY <1>2, <2>1, <2>2, <2>3
  <2>6. call'["LOG"].at # "sending" /\ (call'["FS"].at # "idle" \/ call'["FS"].pc = "none")
    BY <2>1, <2>4
  <2>. QED BY <2>5, <2>6 DEF Turns
<1>4. Due' = Due
  <2>1. DueCases /\ DueCases'
    BY DueIs DEF IInv
  <2>2. HdDue' = HdDue
    BY DEF HdDue
  <2>3. CASE c = "FS"
    BY <1>2, <2>1, <2>3 DEF DueCases, InLog, LogPcs, MapPcs, DataPcs, HeadPcs
  <2>4. CASE c # "FS"
    <3>1. call'["FS"] = call["FS"] /\ InLog("FS")' = InLog("FS")
      BY <1>2, <2>4 DEF Client
    <3>. QED BY <2>1, <2>2, <3>1 DEF DueCases
  <2>. QED BY <2>3, <2>4
<1>5. Lengths'
  BY <1>4 DEF IInv, Lengths
<1>. QED BY <1>1, <1>3, <1>5, AskStep

\* disklog() begins to write behind all that was written.
RoomLeft == pos <= Chars(MaxRecords)
BeginsWith(c, str) ==
    /\ call'[c] = Asked(c, "read", pos \div SectorSize, 1, "data read", str)
    /\ written' = written \o str

LEMMA WriteContent ==
    ASSUME IInv, NEW c \in Client, pos > 0, pos = Len(written) + 1, RoomLeft,
           NEW str \in Seq(Nat), str # <<>>, BeginsWith(c, str),
           pos' = pos, disk' = disk, crashes' = crashes
    PROVE  /\ Request(c)' /\ Content(c)' /\ Begun' /\ OnDiskBelow' /\ HeaderCovers'
           /\ written' \in Seq(Nat) /\ Len(written') = Len(written) + Len(str)
           /\ pos \div SectorSize \in 0 .. FILES
<1>1. /\ call'[c].at = "calling" /\ call'[c].pc = "data read" /\ call'[c].op = "read"
      /\ call'[c].sect = pos \div SectorSize /\ call'[c].n = 1 /\ call'[c].str = str
  <2>1. call'[c] = Asked(c, "read", pos \div SectorSize, 1, "data read", str)
    BY DEF BeginsWith
  <2>2. PICK r, q : r = call'[c] /\ q = pos \div SectorSize
    OBVIOUS
  <2>3. r = Asked(c, "read", q, 1, "data read", str)
    BY <2>1, <2>2
  <2>4. /\ r.at = "calling" /\ r.pc = "data read" /\ r.op = "read" /\ r.sect = q /\ r.n = 1
        /\ r.str = str
    BY ONLY <2>3 DEF Asked
  <2>. QED BY <2>2, <2>4
<1>2. pos \in Nat /\ written \in Seq(Nat) /\ Header \in Nat
  BY HeaderIsNat DEF IInv, TypeOK
<1>3. pos \div SectorSize \in Nat /\ pos \div SectorSize < LogSects - 1
  BY <1>2, LogHasRoom, SectorOf DEF RoomLeft
<1>4. PICK l \in Nat : l = Len(written)
  BY <1>2
<1>5. PICK n \in Nat : n = Len(str) /\ n > 0
  BY EmptySeq
<1>6. /\ written' \in Seq(Nat) /\ Len(written') = l + n
      /\ \A i \in 1 .. l : written'[i] = written[i]
      /\ \A i \in 1 .. n : written'[l + i] = str[i]
  <2>0. written' = written \o str
    BY DEF BeginsWith
  <2>1. written \o str \in Seq(Nat) /\ Len(written \o str) = l + n
    BY <1>2, <1>4, <1>5, ConcatProperties
  <2>2. ASSUME NEW i \in 1 .. l PROVE (written \o str)[i] = written[i]
    BY <1>2, <1>4, <1>5, ConcatProperties
  <2>3. ASSUME NEW i \in 1 .. n PROVE (written \o str)[l + i] = str[i]
    <3>1. l + i \in 1 .. l + n /\ ~(l + i <= l) /\ (l + i) - l = i
      OBVIOUS
    <3>2. (written \o str)[l + i] = str[(l + i) - l]
      BY <1>2, <1>4, <1>5, <3>1, ConcatProperties
    <3>. QED BY <3>1, <3>2
  <2>. QED BY <2>0, <2>1, <2>2, <2>3
<1>7. Request(c)'
  BY <1>1, <1>3 DEF Request, InLog, LogPcs, MapPcs, DataPcs, HeadPcs, ReadPcs
<1>8. Content(c)'
  <2>1. \A i \in 1 .. n : str[i] = written'[pos - 1 + i]
    <3>1. \A i \in 1 .. n : pos - 1 + i = l + i
      BY <1>4, <1>2
    <3>. QED BY <1>6, <3>1
  <2>2. pos + n = Len(written') + 1
    BY <1>4, <1>6
  <2>. QED BY <1>1, <1>5, <2>1, <2>2 DEF Content, Rest, MapPcs, DataPcs, HeadPcs
<1>9. written' # <<>>
  <2>1. Len(written') # 0
    BY <1>4, <1>5, <1>6
  <2>. QED BY <2>1, <1>6, EmptySeq
<1>10. Begun'
  <2>0. Begun /\ pos # 0
    BY <1>2 DEF IInv
  <2>1. disk[SMAP] \in {Filled(0), Filled(1)} /\ disk[SMAP] # Filled(0) /\ pos # 0
    BY <2>0 DEF Begun
  <2>. QED BY <1>9, <2>1 DEF Begun
<1>11. /\ Header <= pos /\ \A k \in 1 .. pos - 1 : OnDisk(k) = written[k]
       /\ Header' = Header /\ \A k : OnDisk(k)' = OnDisk(k)
  BY DEF IInv, OnDiskBelow, Header, OnDisk
<1>12. \A k \in 1 .. pos - 1 : OnDisk(k)' = written'[k]
  <2>1. \A k \in 1 .. pos - 1 : k \in 1 .. l
    BY <1>2, <1>4
  <2>. QED BY <1>6, <1>11, <2>1
<1>13. pos <= Len(written') + 1
  BY <1>2, <1>4, <1>5, <1>6
<1>14. InLog(c)'
  BY <1>1 DEF InLog, LogPcs, DataPcs
<1>15. OnDiskBelow'
  BY <1>11, <1>12, <1>13, <1>14 DEF OnDiskBelow
<1>16. HeaderCovers'
  <2>1. Header - 1 <= Len(written')
    BY <1>2, <1>11, <1>13
  <2>2. \A k \in 1 .. Header - 1 : k \in 1 .. pos - 1
    BY <1>2, <1>11
  <2>. QED BY <1>11, <1>12, <2>1, <2>2 DEF HeaderCovers
<1>17. pos \div SectorSize \in 0 .. FILES
  BY <1>3, Sizes DEF FILES
<1>. QED BY <1>4, <1>5, <1>6, <1>7, <1>8, <1>10, <1>15, <1>16, <1>17

LEMMA ToSetConcat ==
    ASSUME NEW s \in Seq(Nat), NEW t \in Seq(Nat)
    PROVE  ToSet(s \o t) = ToSet(s) \cup ToSet(t)
<1>1. PICK m \in Nat, n \in Nat : m = Len(s) /\ n = Len(t)
  OBVIOUS
<1>2. PICK u : u = s \o t
  OBVIOUS
<1>3. /\ u \in Seq(Nat) /\ Len(u) = m + n
      /\ \A i \in 1 .. m + n : u[i] = IF i <= m THEN s[i] ELSE t[i - m]
  BY <1>1, <1>2, ConcatProperties
<1>4. DOMAIN u = 1 .. m + n /\ DOMAIN s = 1 .. m /\ DOMAIN t = 1 .. n
  BY <1>1, <1>3
<1>5. ASSUME NEW i \in 1 .. m + n PROVE u[i] \in ToSet(s) \cup ToSet(t)
  <2>1. CASE i <= m
    <3>1. i \in DOMAIN s
      BY <1>4, <2>1
    <3>. QED BY <1>3, <2>1, <3>1 DEF ToSet
  <2>2. CASE ~(i <= m)
    <3>1. i - m \in DOMAIN t
      BY <1>4, <2>2
    <3>. QED BY <1>3, <2>2, <3>1 DEF ToSet
  <2>. QED BY <2>1, <2>2
<1>6. ASSUME NEW i \in 1 .. m PROVE s[i] \in ToSet(u)
  <2>1. i \in 1 .. m + n /\ i <= m
    OBVIOUS
  <2>. QED BY <1>3, <1>4, <2>1 DEF ToSet
<1>7. ASSUME NEW i \in 1 .. n PROVE t[i] \in ToSet(u)
  <2>1. m + i \in 1 .. m + n /\ ~(m + i <= m) /\ (m + i) - m = i
    OBVIOUS
  <2>2. u[m + i] = t[i]
    BY <1>3, <2>1
  <2>. QED BY <1>4, <2>1, <2>2 DEF ToSet
<1>8. ToSet(u) = ToSet(s) \cup ToSet(t)
  <2>1. ASSUME NEW x \in ToSet(u) PROVE x \in ToSet(s) \cup ToSet(t)
    <3>1. PICK i \in 1 .. m + n : x = u[i]
      BY <1>4 DEF ToSet
    <3>. QED BY <1>5, <3>1
  <2>2. ASSUME NEW x \in ToSet(s) PROVE x \in ToSet(u)
    <3>1. PICK i \in 1 .. m : x = s[i]
      BY <1>4 DEF ToSet
    <3>. QED BY <1>6, <3>1
  <2>3. ASSUME NEW x \in ToSet(t) PROVE x \in ToSet(u)
    <3>1. PICK i \in 1 .. n : x = t[i]
      BY <1>4 DEF ToSet
    <3>. QED BY <1>7, <3>1
  <2>. QED BY <2>1, <2>2, <2>3
<1>. QED BY <1>2, <1>8

\* disklog() is called: nobody is in it.
LEMMA Disklog ==
    ASSUME IInv, NEW c \in Client, \A d \in Client : ~InLog(d),
           NEW str \in Seq(Nat), str # <<>>, disklog(c, str), pos > 0 => RoomLeft,
           pos' = pos, disk' = disk, crashes' = crashes
    PROVE  /\ call'[c].at = "calling" /\ call'[c].pc \in {"smap read", "data read"}
           /\ \A d \in Client : d # c => call'[d] = call[d]
           /\ hd_queue' = Append(hd_queue, c)
           /\ hd_queue' \in Seq(Client) /\ written' \in Seq(Nat)
           /\ call' \in [Client -> [at : {"idle", "calling", "answered", "sending"}, pc : Pcs,
                                   op : Ops, sect : 0 .. FILES, n : Nat, str : Seq(Nat)]]
           /\ Request(c)' /\ Content(c)' /\ Begun' /\ OnDiskBelow' /\ HeaderCovers'
           /\ Pending(c)' \in Seq(Nat)
           /\ Len(written') + Len(Pending(c)') = Len(written) + Len(str)
           /\ ToSet(written') \cup ToSet(Pending(c)') = ToSet(written) \cup ToSet(str)
           /\ (Fresh' => Fresh)
<1>1. TypeOK /\ pos \in Nat /\ written \in Seq(Nat) /\ Len(written) \in Nat
  <2>1. TypeOK
    BY DEF IInv
  <2>2. pos \in Nat /\ written \in Seq(Nat)
    BY <2>1 DEF TypeOK
  <2>. QED BY <2>1, <2>2, LenProperties
<1>2. ASSUME \A d \in Client : d # c => call'[d] = call[d],
             call'[c].pc \in {"smap read", "data read"}
      PROVE  Fresh' => Fresh
  BY <1>2 DEF Fresh
<1>3. CASE pos = 0
  <2>1. Ask(c, "read", SMAP, 1, "smap read", str) /\ written' = written
    BY <1>3 DEF disklog
  <2>2. SMAP \in 0 .. FILES /\ "read" \in Ops /\ "smap read" \in Pcs /\ 1 \in Nat
    BY Sizes DEF SMAP, FILES, Ops, Pcs, LogPcs, MapPcs
  <2>3. /\ call'[c].at = "calling" /\ call'[c].pc = "smap read" /\ call'[c].op = "read"
        /\ call'[c].sect = SMAP /\ call'[c].n = 1 /\ call'[c].str = str
        /\ \A d \in Client : d # c => call'[d] = call[d]
        /\ hd_queue' = Append(hd_queue, c) /\ hd_queue' \in Seq(Client)
        /\ call' \in [Client -> [at : {"idle", "calling", "answered", "sending"}, pc : Pcs,
                                op : Ops, sect : 0 .. FILES, n : Nat, str : Seq(Nat)]]
    <3>1. Asks(c, "read", SMAP, 1, "smap read", str)
      BY <1>1, <2>1, <2>2, AskType, Zenon
    <3>. QED BY <3>1 DEF Asks
  <2>4. Request(c)'
    BY <2>3 DEF Request, InLog, LogPcs, MapPcs, DataPcs, HeadPcs, ReadPcs
  <2>5. Content(c)'
    BY <1>3, <2>3 DEF Content, Rest, MapPcs, DataPcs, HeadPcs
  <2>6. Begun'
    BY <1>3, <2>1, <2>3 DEF IInv, Begun, Header, InLog, LogPcs, MapPcs
  <2>7. OnDiskBelow' /\ HeaderCovers'
    BY <1>3, <2>1 DEF IInv, OnDiskBelow, HeaderCovers, Header, OnDisk
  <2>8. Pending(c)' = str /\ Pending(c)' \in Seq(Nat)
    BY <2>3 DEF Pending, MapPcs
  <2>. QED BY <1>1, <1>2, <2>1, <2>3, <2>4, <2>5, <2>6, <2>7, <2>8
<1>4. CASE pos # 0
  <2>1. Ask(c, "read", pos \div SectorSize, 1, "data read", str) /\ written' = written \o str
    BY <1>4 DEF disklog, WriteFrom
  <2>2. pos > 0 /\ pos = Len(written) + 1 /\ RoomLeft
    BY <1>1, <1>4 DEF IInv, OnDiskBelow
  <2>3. pos \div SectorSize \in 0 .. FILES
    <3>1. pos \div SectorSize \in Nat /\ pos \div SectorSize < LogSects - 1
      BY <1>1, <2>2, LogHasRoom, SectorOf DEF RoomLeft
    <3>. QED BY <3>1, Sizes DEF FILES
  <2>4. "read" \in Ops /\ "data read" \in Pcs /\ 1 \in Nat
    BY DEF Ops, Pcs, LogPcs, DataPcs
  <2>5. /\ call'[c] = Asked(c, "read", pos \div SectorSize, 1, "data read", str)
        /\ call'[c].at = "calling" /\ call'[c].pc = "data read"
        /\ \A d \in Client : d # c => call'[d] = call[d]
        /\ hd_queue' = Append(hd_queue, c) /\ hd_queue' \in Seq(Client)
        /\ call' \in [Client -> [at : {"idle", "calling", "answered", "sending"}, pc : Pcs,
                                op : Ops, sect : 0 .. FILES, n : Nat, str : Seq(Nat)]]
    <3>1. Asks(c, "read", pos \div SectorSize, 1, "data read", str)
      BY <1>1, <2>1, <2>3, <2>4, AskType, Zenon
    <3>. QED BY <3>1, Zenon DEF Asks
  <2>6. BeginsWith(c, str)
    BY <2>1, <2>5 DEF BeginsWith
  <2>7. /\ Request(c)' /\ Content(c)' /\ Begun' /\ OnDiskBelow' /\ HeaderCovers'
        /\ written' \in Seq(Nat) /\ Len(written') = Len(written) + Len(str)
    BY <2>2, <2>6, WriteContent
  <2>8. Pending(c)' = <<>> /\ Pending(c)' \in Seq(Nat)
    <3>1. Pending(c)' = <<>>
      BY <2>5 DEF Pending, MapPcs
    <3>2. <<>> \in Seq(Nat)
      OBVIOUS
    <3>. QED BY <3>1, <3>2, Zenon
  <2>9. ToSet(written') = ToSet(written) \cup ToSet(str) /\ ToSet(<<>>) = {} /\ Len(<<>>) = 0
    <3>1. ToSet(written') = ToSet(written) \cup ToSet(str)
      BY <1>1, <2>1, ToSetConcat
    <3>2. Len(<<>>) = 0 /\ DOMAIN <<>> = {}
      OBVIOUS
    <3>. QED BY <3>1, <3>2 DEF ToSet
  <2>10. Len(written') \in Nat
    BY <2>7
  <2>11. Len(written') + Len(Pending(c)') = Len(written) + Len(str)
    BY <2>7, <2>8, <2>9, <2>10
  <2>12. ToSet(written') \cup ToSet(Pending(c)') = ToSet(written) \cup ToSet(str)
    BY <2>8, <2>9
  <2>13. Fresh' => Fresh
    BY <1>2, <2>5
  <2>. QED BY <2>5, <2>7, <2>8, <2>11, <2>12, <2>13
<1>. QED BY <1>3, <1>4

LEMMA TodoTail ==
    ASSUME TypeOK, todo # <<>>, todo' = Tail(todo)
    PROVE  /\ Head(todo) = Todo(1) /\ Head(todo) \in Seq(Nat) /\ Head(todo) # <<>>
           /\ Todo(1)' = Todo(2) /\ Todo(2)' = <<>>
           /\ todo' \in Seq(Seq(Nat) \ {<<>>}) /\ Len(todo') <= 2
<1>1. PICK S : S = Seq(Nat) \ {<<>>}
  OBVIOUS
<1>2. todo \in Seq(S) /\ Len(todo) <= 2
  BY <1>1 DEF TypeOK
<1>3. PICK n \in Nat : n = Len(todo) /\ n > 0
  <2>1. Len(todo) \in Nat /\ Len(todo) # 0
    BY <1>2, EmptySeq, LenProperties
  <2>. QED BY <2>1
<1>4. /\ Head(todo) = todo[1] /\ todo' \in Seq(S) /\ Len(todo') = n - 1
      /\ \A i \in 1 .. n - 1 : todo'[i] = todo[i + 1]
  BY <1>2, <1>3, HeadTailProperties
<1>5. todo[1] \in S
  <2>1. 1 \in 1 .. n
    BY <1>3
  <2>. QED BY <1>2, <1>3, <2>1, ElementOfSeq
<1>6. Todo(1) = todo[1]
  BY <1>3 DEF Todo
<1>7. Todo(1)' = Todo(2)
  <2>1. CASE n = 2
    <3>1. todo'[1] = todo[2] /\ Len(todo') = 1
      <4>1. PICK i : i = 1
        OBVIOUS
      <4>2. i \in 1 .. n - 1 /\ i + 1 = 2
        BY <2>1, <4>1
      <4>3. todo'[i] = todo[i + 1]
        BY <1>4, <4>2
      <4>4. Len(todo') = 1
        BY <1>4, <2>1
      <4>. QED BY <4>1, <4>2, <4>3, <4>4
    <3>. QED BY <1>3, <2>1, <3>1 DEF Todo
  <2>2. CASE n = 1
    <3>1. Len(todo') = 0
      BY <1>4, <2>2
    <3>. QED BY <1>3, <2>2, <3>1 DEF Todo
  <2>. QED BY <1>2, <1>3, <2>1, <2>2
<1>8. Todo(2)' = <<>> /\ Len(todo') <= 2
  <2>1. Len(todo') <= 1
    BY <1>2, <1>3, <1>4
  <2>. QED BY <1>3, <1>4, <2>1 DEF Todo
<1>. QED BY <1>1, <1>4, <1>5, <1>6, <1>7, <1>8

LEMMA LogCallsInv == ASSUME IInv, LogCalls PROVE IInv'
<1>1. /\ call["LOG"].at = "idle" /\ todo # <<>> /\ disklog("LOG", Head(todo))
      /\ todo' = Tail(todo) /\ disk' = disk /\ drive' = drive /\ irq' = irq /\ hd' = hd
      /\ logdiskbuf' = logdiskbuf /\ pos' = pos /\ log_buf' = log_buf
      /\ system_ready' = system_ready /\ log_queue' = log_queue /\ records' = records
      /\ stopped' = stopped /\ crashes' = crashes
  BY DEF LogCalls, hardware, Busy
<1>2. "LOG" \in Client /\ "FS" \in Client /\ TypeOK /\ Request("LOG")
  BY DEF IInv, Client
<1>3. call["LOG"].pc = "none" /\ ~InLog("LOG")
  BY <1>1, <1>2 DEF Request, InLog, LogPcs, MapPcs, DataPcs, HeadPcs
<1>4. ~InLog("FS")
  BY <1>1 DEF IInv, Turns
<1>5. \A d \in Client : ~InLog(d)
  BY <1>3, <1>4 DEF Client
<1>6. PICK str : str = Head(todo)
  OBVIOUS
<1>7. /\ str = Todo(1) /\ str \in Seq(Nat) /\ str # <<>>
      /\ Todo(1)' = Todo(2) /\ Todo(2)' = <<>>
      /\ todo' \in Seq(Seq(Nat) \ {<<>>}) /\ Len(todo') <= 2
  BY <1>1, <1>2, <1>6, TodoTail
<1>8. ASSUME pos > 0 PROVE RoomLeft
  <2>1. pos = Len(written) + 1
    BY <1>5, <1>8 DEF IInv, OnDiskBelow
  <2>2. Given <= Chars(MaxRecords) /\ Given \in Nat /\ Chars(MaxRecords) \in Nat
    BY <1>8, RoomFor
  <2>3. /\ Len(Pending("LOG")) \in Nat /\ Len(Pending("FS")) \in Nat /\ Len(Todo(1)) \in Nat
        /\ Len(Todo(2)) \in Nat /\ Len(log_buf) \in Nat /\ Len(written) \in Nat
    BY <1>2, Strings, LenProperties
  <2>4. Len(Todo(1)) > 0
    BY <1>7, <2>3, EmptySeq
  <2>. QED BY <2>1, <2>2, <2>3, <2>4 DEF Given, RoomLeft
<1>9. disklog("LOG", str)
  BY <1>1, <1>6
<1>10. /\ call'["LOG"].at = "calling" /\ call'["LOG"].pc \in {"smap read", "data read"}
       /\ \A d \in Client : d # "LOG" => call'[d] = call[d]
       /\ hd_queue' = Append(hd_queue, "LOG")
       /\ hd_queue' \in Seq(Client) /\ written' \in Seq(Nat)
       /\ call' \in [Client -> [at : {"idle", "calling", "answered", "sending"}, pc : Pcs,
                               op : Ops, sect : 0 .. FILES, n : Nat, str : Seq(Nat)]]
       /\ Request("LOG")' /\ Content("LOG")' /\ Begun' /\ OnDiskBelow' /\ HeaderCovers'
       /\ Pending("LOG")' \in Seq(Nat)
       /\ Len(written') + Len(Pending("LOG")') = Len(written) + Len(str)
       /\ ToSet(written') \cup ToSet(Pending("LOG")') = ToSet(written) \cup ToSet(str)
       /\ (Fresh' => Fresh)
  BY <1>1, <1>2, <1>5, <1>7, <1>8, <1>9, Disklog
<1>11. TypeOK'
  BY <1>1, <1>2, <1>7, <1>10 DEF TypeOK
<1>12. call'["FS"] = call["FS"]
  BY <1>2, <1>10
<1>13. Turns'
  BY <1>4, <1>10, <1>12 DEF IInv, Turns, InLog
<1>14. Due' = Due
  BY <1>1, <1>12 DEF Due, HdDue, InLog
<1>15. Pending("LOG") = <<>> /\ Pending("FS")' = Pending("FS")
  BY <1>3, <1>12 DEF Pending, MapPcs
<1>16. Given' = Given
  <2>1. /\ Len(Pending("LOG")) \in Nat /\ Len(Pending("FS")) \in Nat /\ Len(Todo(1)) \in Nat
        /\ Len(Todo(2)) \in Nat /\ Len(log_buf) \in Nat /\ Len(written) \in Nat
    BY <1>2, Strings, LenProperties
  <2>2. Pending("LOG")' \in Seq(Nat) /\ written' \in Seq(Nat)
    BY <1>10
  <2>3. Len(written') + Len(Pending("LOG")') = Len(written) + Len(str)
    BY <1>10
  <2>5. Len(Pending("LOG")') \in Nat /\ Len(written') \in Nat
    BY <2>2, LenProperties
  <2>4. Len(<<>>) = 0
    OBVIOUS
  <2>6. Given' = Len(written') + Len(Pending("LOG")') + Len(Pending("FS")) + Len(Todo(2))
                    + 0 + Len(log_buf)
    BY <1>1, <1>7, <1>15, <2>4 DEF Given
  <2>7. Given = Len(written) + 0 + Len(Pending("FS")) + Len(str) + Len(Todo(2)) + Len(log_buf)
    BY <1>7, <1>15, <2>4 DEF Given
  <2>8. PICK w \in Nat, v \in Nat, x \in Nat, z \in Nat :
           w = Len(written) /\ v = Len(written') /\ x = Len(Pending("LOG")') /\ z = Len(str)
    BY <1>7, <2>1, <2>5
  <2>9. PICK a \in Nat, e \in Nat, f \in Nat :
           a = Len(Pending("FS")) /\ e = Len(Todo(2)) /\ f = Len(log_buf)
    BY <2>1
  <2>10. v + x = w + z
    BY <2>3, <2>8
  <2>11. PICK g, h : g = Given /\ h = Given'
    OBVIOUS
  <2>12. h = v + x + a + e + 0 + f /\ g = w + 0 + a + z + e + f
    BY <2>6, <2>7, <2>8, <2>9, <2>11
  <2>13. h = g
    BY <2>10, <2>12
  <2>. QED BY <2>11, <2>13
<1>17. GivenSet' = GivenSet
  <2>1. ToSet(<<>>) = {}
    <3>1. DOMAIN <<>> = {}
      OBVIOUS
    <3>. QED BY <3>1 DEF ToSet
  <2>. QED BY <1>1, <1>7, <1>10, <1>15, <2>1 DEF GivenSet
<1>18. Lengths'
  BY <1>1, <1>10, <1>14, <1>16, <1>17 DEF IInv, Lengths
<1>. QED BY <1>1, <1>2, <1>5, <1>10, <1>11, <1>13, <1>18, AskStep

\* A record has the characters of its number.
LEMMA RecordIs ==
    ASSUME TypeOK
    PROVE  /\ Record \in Seq(Nat) /\ Len(Record) = RecordLen /\ Record # <<>>
           /\ ToSet(Record) = {records + 1} /\ ToSet(<<>>) = {}
<1>1. PICK n \in Nat \ {0} : n = RecordLen
  BY Sizes
<1>2. PICK m \in Nat : m = records + 1
  BY DEF TypeOK
<1>3. PICK u : u = Record
  OBVIOUS
<1>4. u = [k \in 1 .. n |-> m]
  BY <1>1, <1>2, <1>3 DEF Record
<1>5. u \in Seq(Nat) /\ Len(u) = n /\ DOMAIN u = 1 .. n /\ \A k \in 1 .. n : u[k] = m
  BY <1>4
<1>6. u # <<>>
  BY <1>5, EmptySeq
<1>7. ToSet(u) = {m}
  <2>1. 1 \in 1 .. n
    OBVIOUS
  <2>. QED BY <1>5, <2>1 DEF ToSet
<1>8. ToSet(<<>>) = {}
  <2>1. DOMAIN <<>> = {}
    OBVIOUS
  <2>. QED BY <2>1 DEF ToSet
<1>. QED BY <1>1, <1>2, <1>3, <1>5, <1>6, <1>7, <1>8

\* What another record, given to LOG or FS, adds to what was given.
LEMMA Recorded ==
    ASSUME IInv, records' = records + 1, crashes' = crashes, log_queue' \in Seq(Who),
           NEW l \in Nat, l = Len(log_queue') + Due', l + 1 <= Len(log_queue) + Due,
           Due \in Nat,
           Given' = Given + RecordLen, GivenSet' = GivenSet \cup {records + 1}, Fresh' => Fresh
    PROVE  Lengths'
<1>1. PICK r \in Nat, g \in Nat, q \in Nat, n \in Nat \ {0} :
         r = records /\ g = Given /\ q = Len(log_queue) + Due /\ n = RecordLen
  <2>1. records \in Nat
    BY DEF IInv, TypeOK
  <2>2. Given \in Nat
    BY Strings DEF IInv
  <2>3. Len(log_queue) + Due \in Nat
    <3>1. Len(log_queue) \in Nat
      BY LogQueue
    <3>. QED BY <3>1
  <2>. QED BY <2>1, <2>2, <2>3, Sizes
<1>2. Chars(r + 1) = Chars(r) + n /\ Chars(r) \in Nat
  BY <1>1, CharsAdd
<1>3. Chars(l + 1) = Chars(l) + n /\ Chars(l) \in Nat
  BY <1>1, CharsAdd
<1>4. Chars(l + 1) <= Chars(q) /\ Chars(q) \in Nat /\ Chars(MaxRecords) \in Nat
  <2>1. l + 1 \in Nat /\ l + 1 <= q
    BY <1>1
  <2>. QED BY <2>1, CharsAdd, Sizes
<1>5. g <= Chars(r) /\ (Fresh => g + Chars(q) <= Chars(MaxRecords))
  BY <1>1 DEF IInv, Lengths
<1>6. crashes = 0 => g = Chars(r) /\ GivenSet = 1 .. r
  BY <1>1 DEF IInv, Lengths
<1>7. Given' = g + n /\ records' = r + 1
  BY <1>1
<1>8. Given' <= Chars(records') /\ (crashes = 0 => Given' = Chars(records'))
  BY <1>2, <1>5, <1>6, <1>7
<1>9. crashes = 0 => GivenSet' = 1 .. records'
  <2>1. 1 .. r + 1 = (1 .. r) \cup {r + 1}
    OBVIOUS
  <2>. QED BY <1>1, <1>6, <1>7, <2>1
<1>10. Fresh' => Given' + Chars(l) <= Chars(MaxRecords)
  <2>1. PICK x \in Nat, y \in Nat, m \in Nat :
           x = Chars(l) /\ y = Chars(q) /\ m = Chars(MaxRecords)
    BY <1>3, <1>4
  <2>2. x + n <= y
    BY <1>3, <1>4, <2>1
  <2>3. g + y <= m => (g + n) + x <= m
    BY <2>2
  <2>4. Fresh' => g + y <= m
    BY <1>5, <2>1
  <2>. QED BY <1>7, <2>1, <2>3, <2>4
<1>11. Fresh' => Given' + Chars(Len(log_queue') + Due') <= Chars(MaxRecords)
  BY <1>10
<1>. QED BY <1>8, <1>9, <1>11 DEF Lengths

LEMMA FsDumpInv == ASSUME IInv, OneAtATime, FsDump PROVE IInv'
<1>1. /\ call["FS"].at = "answered" /\ call["FS"].pc = "file"
      /\ call["LOG"].at = "idle" /\ todo = <<>> /\ disklog("FS", Record)
      /\ records' = records + 1
      /\ todo' = todo /\ disk' = disk /\ drive' = drive /\ irq' = irq /\ hd' = hd
      /\ logdiskbuf' = logdiskbuf /\ pos' = pos /\ log_buf' = log_buf
      /\ system_ready' = system_ready /\ log_queue' = log_queue
      /\ stopped' = stopped /\ crashes' = crashes
  BY DEF FsDump, hardware, Busy, Returned, OneAtATime
<1>2. "LOG" \in Client /\ "FS" \in Client /\ TypeOK /\ Request("LOG")
  BY DEF IInv, Client
<1>3. call["LOG"].pc = "none" /\ ~InLog("LOG")
  BY <1>1, <1>2 DEF Request, InLog, LogPcs, MapPcs, DataPcs, HeadPcs
<1>4. ~InLog("FS")
  BY <1>1 DEF InLog, LogPcs, MapPcs, DataPcs, HeadPcs
<1>5. \A d \in Client : ~InLog(d)
  BY <1>3, <1>4 DEF Client
<1>6. PICK str : str = Record
  OBVIOUS
<1>7. /\ str \in Seq(Nat) /\ str # <<>> /\ Len(str) = RecordLen /\ ToSet(str) = {records + 1}
  BY <1>2, <1>6, RecordIs
<1>8. Due = 2
  <2>1. DueCases
    BY <1>2, DueIs
  <2>. QED BY <1>1, <1>4, <2>1 DEF DueCases
<1>9. PICK q \in Nat : q = Len(log_queue)
  BY LogQueue
<1>10. ASSUME pos > 0 PROVE RoomLeft
  <2>1. pos = Len(written) + 1
    BY <1>5, <1>10 DEF IInv, OnDiskBelow
  <2>2. Given + Chars(q + 2) <= Chars(MaxRecords)
    BY <1>8, <1>9, <1>10 DEF IInv, Lengths, Fresh
  <2>3. /\ Len(Pending("LOG")) \in Nat /\ Len(Pending("FS")) \in Nat /\ Len(Todo(1)) \in Nat
        /\ Len(Todo(2)) \in Nat /\ Len(log_buf) \in Nat /\ Len(written) \in Nat
    BY <1>2, Strings, LenProperties
  <2>4. Chars(q + 2) >= 1 /\ Chars(q + 2) \in Nat
    <3>1. Chars(1) <= Chars(q + 2) /\ Chars(1) = RecordLen /\ Chars(q + 2) \in Nat
      BY <1>9, CharsAdd
    <3>. QED BY <3>1, Sizes
  <2>5. Given \in Nat /\ Chars(MaxRecords) \in Nat /\ Len(written) <= Given
    <3>1. Chars(MaxRecords) \in Nat
      BY CharsAdd, Sizes
    <3>. QED BY <2>3, <3>1 DEF Given
  <2>. QED BY <2>1, <2>2, <2>3, <2>4, <2>5 DEF RoomLeft
<1>11. disklog("FS", str)
  BY <1>1, <1>6
<1>12. /\ call'["FS"].at = "calling" /\ call'["FS"].pc \in {"smap read", "data read"}
       /\ \A d \in Client : d # "FS" => call'[d] = call[d]
       /\ hd_queue' = Append(hd_queue, "FS")
       /\ hd_queue' \in Seq(Client) /\ written' \in Seq(Nat)
       /\ call' \in [Client -> [at : {"idle", "calling", "answered", "sending"}, pc : Pcs,
                               op : Ops, sect : 0 .. FILES, n : Nat, str : Seq(Nat)]]
       /\ Request("FS")' /\ Content("FS")' /\ Begun' /\ OnDiskBelow' /\ HeaderCovers'
       /\ Pending("FS")' \in Seq(Nat)
       /\ Len(written') + Len(Pending("FS")') = Len(written) + Len(str)
       /\ ToSet(written') \cup ToSet(Pending("FS")') = ToSet(written) \cup ToSet(str)
       /\ (Fresh' => Fresh)
  BY <1>1, <1>2, <1>5, <1>7, <1>10, <1>11, Disklog
<1>13. TypeOK'
  <2>1. records' \in Nat
    BY <1>1, <1>2 DEF TypeOK
  <2>. QED BY <1>1, <1>2, <1>12, <2>1 DEF TypeOK
<1>14. call'["LOG"] = call["LOG"]
  BY <1>2, <1>12
<1>15. Turns'
  BY <1>1, <1>12, <1>14 DEF IInv, Turns, InLog
<1>16. Due' = 1
  <2>1. DueCases'
    BY <1>13, DueIs
  <2>. QED BY <1>12, <2>1 DEF DueCases
<1>17. Pending("FS") = <<>> /\ Pending("LOG")' = Pending("LOG")
  BY <1>1, <1>14 DEF Pending, MapPcs
<1>18. Given' = Given + RecordLen
  <2>1. /\ Len(Pending("LOG")) \in Nat /\ Len(Pending("FS")) \in Nat /\ Len(Todo(1)) \in Nat
        /\ Len(Todo(2)) \in Nat /\ Len(log_buf) \in Nat /\ Len(written) \in Nat
    BY <1>2, Strings, LenProperties
  <2>2. Pending("FS")' \in Seq(Nat) /\ written' \in Seq(Nat)
    BY <1>12
  <2>3. Len(written') + Len(Pending("FS")') = Len(written) + Len(str)
    BY <1>12
  <2>4. Len(<<>>) = 0
    OBVIOUS
  <2>5. Len(Pending("FS")') \in Nat /\ Len(written') \in Nat
    BY <2>2, LenProperties
  <2>6. Todo(1)' = Todo(1) /\ Todo(2)' = Todo(2)
    BY <1>1 DEF Todo
  <2>7. Given' = Len(written') + Len(Pending("LOG")) + Len(Pending("FS")') + Len(Todo(1))
                    + Len(Todo(2)) + Len(log_buf)
    BY <1>1, <1>17, <2>6 DEF Given
  <2>8. Given = Len(written) + Len(Pending("LOG")) + 0 + Len(Todo(1)) + Len(Todo(2)) + Len(log_buf)
    BY <1>17, <2>4 DEF Given
  <2>9. PICK w \in Nat, v \in Nat, x \in Nat, z \in Nat :
           w = Len(written) /\ v = Len(written') /\ x = Len(Pending("FS")') /\ z = RecordLen
    BY <2>1, <2>5, Sizes
  <2>10. PICK a \in Nat, b \in Nat, e \in Nat, f \in Nat :
           /\ a = Len(Pending("LOG")) /\ b = Len(Todo(1)) /\ e = Len(Todo(2))
           /\ f = Len(log_buf)
    BY <2>1
  <2>11. v + x = w + z
    BY <1>7, <2>3, <2>9
  <2>12. PICK g, h : g = Given /\ h = Given'
    OBVIOUS
  <2>13. h = v + a + x + b + e + f /\ g = w + a + 0 + b + e + f
    BY <2>7, <2>8, <2>9, <2>10, <2>12
  <2>14. h = g + z
    BY <2>11, <2>13
  <2>. QED BY <2>9, <2>12, <2>14
<1>19. GivenSet' = GivenSet \cup {records + 1}
  <2>1. ToSet(<<>>) = {}
    BY <1>2, RecordIs
  <2>2. Todo(1)' = Todo(1) /\ Todo(2)' = Todo(2)
    BY <1>1 DEF Todo
  <2>. QED BY <1>1, <1>7, <1>12, <1>17, <2>1, <2>2 DEF GivenSet
<1>20. Lengths'
  <2>1. log_queue' \in Seq(Who) /\ Len(log_queue') = q
    BY <1>1, <1>9, LogQueue
  <2>2. q + 1 \in Nat /\ q + 1 = Len(log_queue') + Due' /\ (q + 1) + 1 <= Len(log_queue) + Due
    BY <1>8, <1>9, <1>16, <2>1
  <2>3. Due \in Nat
    BY <1>8
  <2>. QED BY <1>1, <1>12, <1>18, <1>19, <2>1, <2>2, <2>3, Recorded
<1>21. log_queue' = log_queue /\ call["FS"].at \notin {"calling", "sending"}
  BY <1>1
<1>. QED BY <1>1, <1>2, <1>5, <1>12, <1>13, <1>15, <1>20, <1>21, AskStep
-----------------------------------------------------------------------------
\* disklog(), from one answer of the driver to the next request.

LEMMA Going ==
    ASSUME IInv, NEW c \in Client, call[c].at = "answered", InLog(c),
           NEW op, NEW sect, NEW n, NEW pc \in LogPcs, NEW str, Asks(c, op, sect, n, pc, str),
           UNCHANGED <<hardware, tasklog, crashes>>,
           stopped' \in BOOLEAN, logdiskbuf' \in Buffer, pos' \in Nat, written' \in Seq(Nat),
           Given' = Given, GivenSet' = GivenSet, Fresh' => Fresh,
           Request(c)', Content(c)', Begun', OnDiskBelow', HeaderCovers'
    PROVE  IInv'
<1>1. /\ call'[c].at = "calling" /\ call'[c].pc \in LogPcs
      /\ \A d \in Client : d # c => call'[d] = call[d]
      /\ hd_queue' = Append(hd_queue, c) /\ hd_queue' \in Seq(Client)
      /\ call' \in [Client -> [at : {"idle", "calling", "answered", "sending"}, pc : Pcs,
                              op : Ops, sect : 0 .. FILES, n : Nat, str : Seq(Nat)]]
  BY DEF Asks
<1>2. /\ disk' = disk /\ drive' = drive /\ irq' = irq /\ hd' = hd
      /\ log_buf' = log_buf /\ system_ready' = system_ready /\ todo' = todo
      /\ log_queue' = log_queue /\ records' = records /\ crashes' = crashes
  BY DEF hardware, tasklog
<1>3. TypeOK
  BY DEF IInv
<1>4. TypeOK'
  BY <1>1, <1>2, <1>3 DEF TypeOK
<1>. QED BY <1>1, <1>2, <1>4, LogStep

LEMMA GivenSame ==
    ASSUME NEW c \in Client, \A d \in Client : d # c => call'[d] = call[d],
           UNCHANGED <<hardware, tasklog, crashes>>, written' = written,
           Pending(c)' = Pending(c)
    PROVE  Given' = Given /\ GivenSet' = GivenSet
<1>1. \A d \in Client : Pending(d)' = Pending(d)
  <2>1. ASSUME NEW d \in Client, d # c PROVE Pending(d)' = Pending(d)
    BY <2>1 DEF Pending
  <2>. QED BY <2>1
<1>2. Pending("LOG")' = Pending("LOG") /\ Pending("FS")' = Pending("FS")
  BY <1>1 DEF Client
<1>3. Todo(1)' = Todo(1) /\ Todo(2)' = Todo(2) /\ log_buf' = log_buf
  BY DEF Todo, tasklog
<1>. QED BY <1>2, <1>3 DEF Given, GivenSet

\* What a client in disklog() knows when it goes on.
LEMMA Answered ==
    ASSUME IInv, NEW c \in Client, NEW pc \in LogPcs, Returned(c, pc)
    PROVE  /\ call[c].at = "answered" /\ call[c].pc = pc /\ InLog(c) /\ Served(c)
           /\ TypeOK /\ Request(c) /\ Content(c) /\ Begun /\ OnDiskBelow /\ HeaderCovers
           /\ call[c].op = IF pc \in ReadPcs THEN "read" ELSE "write"
           /\ call[c].n = IF pc = "fill" THEN MAX_IO ELSE 1
           /\ pc \in ReadPcs => ReadIn(c)
           /\ pc \notin ReadPcs => Wrote(c, call[c].n)
           /\ call[c].str \in Seq(Nat) /\ call[c].sect \in Sector
           /\ pos \in Nat /\ logdiskbuf \in Buffer /\ disk \in [Sector -> Buffer]
           /\ written \in Seq(Nat) /\ stopped \in BOOLEAN
<1>1. call[c].at = "answered" /\ call[c].pc = pc /\ InLog(c) /\ Served(c)
  BY DEF Returned, InLog, Served
<1>2. TypeOK /\ Request(c) /\ Content(c) /\ Begun /\ OnDiskBelow /\ HeaderCovers
  BY DEF IInv
<1>3. /\ call[c].op = IF pc \in ReadPcs THEN "read" ELSE "write"
      /\ call[c].n = IF pc = "fill" THEN MAX_IO ELSE 1
  BY <1>1, <1>2 DEF Request
<1>4. (call[c].op = "read" => ReadIn(c)) /\ (call[c].op = "write" => Wrote(c, call[c].n))
  BY <1>1 DEF IInv, Transfers
<1>5. /\ pos \in Nat /\ logdiskbuf \in Buffer /\ disk \in [Sector -> Buffer]
      /\ written \in Seq(Nat) /\ stopped \in BOOLEAN /\ call[c].str \in Seq(Nat)
  BY <1>2 DEF TypeOK
<1>6. call[c].sect \in Sector
  <2>1. call[c].sect <= SMAP /\ call[c].sect \in 0 .. FILES
    BY <1>1, Facts
  <2>. QED BY <2>1, Sizes DEF Sector, SMAP, FILES
<1>. QED BY <1>1, <1>2, <1>3, <1>4, <1>5, <1>6

\* Nothing of what is on the disk changes in a step that asks.
LEMMA DiskSame ==
    ASSUME IInv, NEW c \in Client, InLog(c)', disk' = disk, pos' = pos, written' = written,
           crashes' = crashes, pos > 0
    PROVE  Begun' /\ OnDiskBelow' /\ HeaderCovers' /\ (Fresh' => Fresh)
<1>1. pos \in Nat
  BY DEF IInv, TypeOK
<1>2. Begun'
  <2>1. Begun /\ pos # 0 /\ pos' # 0 /\ Header' = Header
    BY <1>1 DEF IInv, Header
  <2>. QED BY <2>1 DEF Begun
<1>3. OnDiskBelow' /\ HeaderCovers'
  BY DEF IInv, OnDiskBelow, HeaderCovers, Header, OnDisk
<1>4. Fresh
  BY DEF Fresh
<1>. QED BY <1>2, <1>3, <1>4

LEMMA MapReadInv ==
    ASSUME IInv, NEW c \in Client, MapRead(c), UNCHANGED <<hardware, tasklog, crashes>>
    PROVE  IInv'
<1>0. "smap read" \in LogPcs /\ "smap write" \in LogPcs /\ Returned(c, "smap read")
  BY DEF LogPcs, MapPcs, MapRead
<1>1. /\ call[c].at = "answered" /\ call[c].pc = "smap read" /\ InLog(c)
      /\ TypeOK /\ Request(c) /\ Content(c) /\ Begun /\ OnDiskBelow /\ HeaderCovers
      /\ ReadIn(c) /\ call[c].str \in Seq(Nat)
      /\ pos \in Nat /\ written \in Seq(Nat) /\ stopped \in BOOLEAN /\ logdiskbuf \in Buffer
  BY <1>0, Answered DEF ReadPcs
<1>2. pos' = pos /\ written' = written /\ disk' = disk /\ crashes' = crashes
  BY DEF MapRead, hardware
<1>3. CASE logdiskbuf # Filled(0)
  <2>1. /\ stopped' = TRUE /\ logdiskbuf' = logdiskbuf /\ call' = call /\ hd_queue' = hd_queue
        /\ drive' = drive /\ irq' = irq /\ hd' = hd
        /\ log_buf' = log_buf /\ system_ready' = system_ready /\ todo' = todo
        /\ log_queue' = log_queue /\ records' = records
    BY <1>3 DEF MapRead, hardware, tasklog
  <2>2. TypeOK'
    BY <1>1, <1>2, <2>1 DEF TypeOK
  <2>3. ServesOne' /\ DriverInv'
    BY <2>1 DEF IInv, ServesOne, DriverInv, Opens
  <2>4. DriveInv' /\ Transfers'
    BY <1>2, <2>1 DEF IInv, DriveInv, Transfers, Commands, Served, ReadIn, Wrote, InLog
  <2>5. Reporters' /\ SamePlaces /\ Answers
    BY <2>1 DEF IInv, Reporters, SamePlaces, Answers
  <2>6. Due' = Due /\ Due \in Nat /\ Len(log_queue) \in Nat
    BY <1>1, <2>1, DueIsNat, LogQueue DEF Due, HdDue, InLog
  <2>7. Len(log_queue') + Due' <= Len(log_queue) + Due
    BY <2>1, <2>6
  <2>. QED BY <1>2, <2>1, <2>2, <2>3, <2>4, <2>5, <2>7, DriverStep
<1>4. CASE logdiskbuf = Filled(0)
  <2>1. /\ logdiskbuf' = Filled(1) /\ stopped' = stopped
        /\ Ask(c, "write", SMAP, 1, "smap write", call[c].str)
    BY <1>4 DEF MapRead
  <2>2. SMAP \in 0 .. FILES /\ "write" \in Ops /\ "smap write" \in Pcs /\ 1 \in Nat
    BY Sizes DEF SMAP, FILES, Ops, Pcs, LogPcs, MapPcs
  <2>3. Asks(c, "write", SMAP, 1, "smap write", call[c].str)
    BY <1>1, <2>1, <2>2, AskType, Zenon
  <2>4. /\ call'[c].at = "calling" /\ call'[c].pc = "smap write" /\ call'[c].op = "write"
        /\ call'[c].sect = SMAP /\ call'[c].n = 1 /\ call'[c].str = call[c].str
        /\ \A d \in Client : d # c => call'[d] = call[d]
    BY <2>3 DEF Asks
  <2>5. disk[SMAP] = Filled(0) /\ pos = 0 /\ call[c].str # <<>> /\ written = <<>>
    <3>1. call[c].sect = SMAP
      BY <1>1 DEF Request
    <3>2. disk[SMAP] = Filled(0)
      BY <1>1, <1>4, <3>1 DEF ReadIn
    <3>. QED BY <1>1, <3>2 DEF Content, Begun, Rest, MapPcs
  <2>6. Request(c)'
    BY <2>4 DEF Request, InLog, LogPcs, MapPcs, DataPcs, HeadPcs, ReadPcs
  <2>7. Content(c)'
    BY <1>2, <2>1, <2>4, <2>5 DEF Content, Rest, MapPcs, DataPcs, HeadPcs
  <2>8. Begun'
    BY <1>1, <1>2, <2>5 DEF Begun, Header
  <2>9. OnDiskBelow' /\ HeaderCovers'
    <3>1. pos' = 0 /\ ~(pos' > 0)
      BY <1>2, <2>5
    <3>2. HeaderCovers'
      BY <1>1, <1>2 DEF HeaderCovers, Header, OnDisk
    <3>. QED BY <3>1, <3>2 DEF OnDiskBelow
  <2>10. Fresh
    BY <2>5 DEF Fresh
  <2>11. Pending(c)' = Pending(c)
    BY <1>1, <2>4 DEF Pending, MapPcs
  <2>12. Given' = Given /\ GivenSet' = GivenSet
    BY <1>2, <2>4, <2>11, GivenSame
  <2>13. logdiskbuf' \in Buffer
    BY <2>1, Constant
  <2>14. stopped' \in BOOLEAN /\ pos' \in Nat /\ written' \in Seq(Nat)
    BY <1>1, <1>2, <2>1
  <2>. QED BY <1>0, <1>1, <2>3, <2>6, <2>7, <2>8, <2>9, <2>10, <2>12, <2>13, <2>14, Going
<1>. QED BY <1>3, <1>4

LEMMA OneFits == 1 <= Chars(MaxRecords)
<1>1. 1 \in Nat /\ MaxRecords \in Nat /\ 1 <= MaxRecords
  BY Sizes
<1>2. Chars(1) <= Chars(MaxRecords) /\ Chars(1) = RecordLen /\ Chars(MaxRecords) \in Nat
  BY <1>1, CharsAdd
<1>. QED BY <1>2, Sizes

\* What waited goes to the log.
LEMMA GivenMoved ==
    ASSUME TypeOK, NEW c \in Client, \A d \in Client : d # c => call'[d] = call[d],
           UNCHANGED <<hardware, tasklog, crashes>>,
           NEW str \in Seq(Nat), Pending(c) = str, Pending(c)' = <<>>, written' \in Seq(Nat),
           Len(written') = Len(written) + Len(str),
           ToSet(written') = ToSet(written) \cup ToSet(str)
    PROVE  Given' = Given /\ GivenSet' = GivenSet
<1>1. PICK d \in Client : d # c /\ {c, d} = {"LOG", "FS"}
  BY DEF Client
<1>2. Pending(d)' = Pending(d)
  BY <1>1 DEF Pending
<1>3. Todo(1)' = Todo(1) /\ Todo(2)' = Todo(2) /\ log_buf' = log_buf
  BY DEF Todo, tasklog
<1>4. /\ Len(Pending("LOG")) \in Nat /\ Len(Pending("FS")) \in Nat /\ Len(Todo(1)) \in Nat
      /\ Len(Todo(2)) \in Nat /\ Len(log_buf) \in Nat /\ Len(written) \in Nat
  BY Strings, LenProperties
<1>5. Len(<<>>) = 0 /\ ToSet(<<>>) = {} /\ Len(str) \in Nat
  <2>1. Len(<<>>) = 0
    OBVIOUS
  <2>. QED BY <2>1, RecordIs, LenProperties
<1>6. CASE c = "LOG"
  <2>1. d = "FS"
    BY <1>1, <1>6
  <2>2. Pending("LOG") = str /\ Pending("LOG")' = <<>> /\ Pending("FS")' = Pending("FS")
    BY <1>2, <1>6, <2>1
  <2>3. Given' = Len(written') + 0 + Len(Pending("FS")) + Len(Todo(1)) + Len(Todo(2))
                    + Len(log_buf)
    BY <1>3, <1>5, <2>2 DEF Given
  <2>4. Given = Len(written) + Len(str) + Len(Pending("FS")) + Len(Todo(1)) + Len(Todo(2))
                   + Len(log_buf)
    BY <2>2 DEF Given
  <2>5. Given' = Given
    BY <1>4, <1>5, <2>3, <2>4
  <2>. QED BY <1>3, <1>5, <2>2, <2>5 DEF GivenSet
<1>7. CASE c = "FS"
  <2>1. d = "LOG"
    BY <1>1, <1>7
  <2>2. Pending("FS") = str /\ Pending("FS")' = <<>> /\ Pending("LOG")' = Pending("LOG")
    BY <1>2, <1>7, <2>1
  <2>3. Given' = Len(written') + Len(Pending("LOG")) + 0 + Len(Todo(1)) + Len(Todo(2))
                    + Len(log_buf)
    BY <1>3, <1>5, <2>2 DEF Given
  <2>4. Given = Len(written) + Len(Pending("LOG")) + Len(str) + Len(Todo(1)) + Len(Todo(2))
                   + Len(log_buf)
    BY <2>2 DEF Given
  <2>5. Given' = Given
    BY <1>4, <1>5, <2>3, <2>4
  <2>. QED BY <1>3, <1>5, <2>2, <2>5 DEF GivenSet
<1>. QED BY <1>6, <1>7 DEF Client

LEMMA MapWrittenInv ==
    ASSUME IInv, NEW c \in Client, MapWritten(c), UNCHANGED <<hardware, tasklog, crashes>>
    PROVE  IInv'
<1>0. "smap write" \in LogPcs /\ "fill" \in LogPcs /\ Returned(c, "smap write")
  BY DEF LogPcs, MapPcs, MapWritten
<1>1. /\ call[c].at = "answered" /\ call[c].pc = "smap write" /\ InLog(c)
      /\ TypeOK /\ Request(c) /\ Content(c) /\ Begun /\ OnDiskBelow /\ HeaderCovers
      /\ call[c].n = 1 /\ Wrote(c, call[c].n) /\ call[c].str \in Seq(Nat)
      /\ written \in Seq(Nat) /\ stopped \in BOOLEAN
  BY <1>0, Answered DEF ReadPcs
<1>2. /\ written' = written /\ disk' = disk /\ crashes' = crashes /\ stopped' = stopped
      /\ pos' = 1 /\ logdiskbuf' = Filled(0)
      /\ Ask(c, "write", 0, MAX_IO, "fill", call[c].str)
  BY DEF MapWritten, hardware
<1>3. 0 \in 0 .. FILES /\ "write" \in Ops /\ "fill" \in Pcs /\ MAX_IO \in Nat
  BY Sizes DEF FILES, Ops, Pcs, LogPcs, MapPcs
<1>4. Asks(c, "write", 0, MAX_IO, "fill", call[c].str)
  BY <1>1, <1>2, <1>3, AskType, Zenon
<1>5. /\ call'[c].at = "calling" /\ call'[c].pc = "fill" /\ call'[c].op = "write"
      /\ call'[c].sect = 0 /\ call'[c].n = MAX_IO /\ call'[c].str = call[c].str
      /\ \A d \in Client : d # c => call'[d] = call[d]
  BY <1>4 DEF Asks
<1>6. disk[SMAP] = Filled(1) /\ written = <<>> /\ Header = 0 /\ call[c].str # <<>>
  <2>1. written = <<>> /\ logdiskbuf = Filled(1) /\ call[c].str # <<>>
    BY <1>1 DEF Content, Rest, MapPcs
  <2>2. call[c].sect = SMAP
    BY <1>1 DEF Request
  <2>3. SMAP \in Sector /\ SMAP \in Nat
    BY Sizes DEF Sector, SMAP
  <2>4. disk[SMAP] = logdiskbuf
    <3>1. SMAP <= SMAP /\ SMAP < SMAP + 1
      BY <2>3
    <3>. QED BY <1>1, <2>2, <2>3, <3>1 DEF Wrote
  <2>. QED BY <1>1, <2>1, <2>4 DEF Begun
<1>7. Request(c)'
  <2>1. ChunkStart(0) /\ 0 + MAX_IO <= LogSects
    <3>1. 0 = 0 * MAX_IO /\ MAX_IO <= LogSects /\ MAX_IO \in Nat
      BY FillSteps, Sizes
    <3>. QED BY <3>1 DEF ChunkStart
  <2>. QED BY <1>5, <2>1 DEF Request, InLog, LogPcs, MapPcs, DataPcs, HeadPcs, ReadPcs, ChunkStart
<1>8. Content(c)'
  BY <1>2, <1>5, <1>6 DEF Content, Rest, MapPcs, DataPcs, HeadPcs
<1>9. Begun'
  <2>1. Header' = 0 /\ disk'[SMAP] = Filled(1) /\ disk'[SMAP] # Filled(0) /\ pos' # 0
    BY <1>2, <1>6, FilledDiffer DEF Header
  <2>. QED BY <2>1 DEF Begun
<1>10. OnDiskBelow'
  <2>1. Header' = 0 /\ Len(written') = 0 /\ 1 .. pos' - 1 = {} /\ pos' <= 0 + 1 /\ 0 <= pos'
    BY <1>2, <1>6 DEF Header
  <2>2. InLog(c)'
    BY <1>5 DEF InLog, LogPcs, MapPcs
  <2>. QED BY <2>1, <2>2 DEF OnDiskBelow
<1>11. HeaderCovers'
  BY <1>2, <1>6 DEF HeaderCovers, Header
<1>12. Fresh
  BY <1>1 DEF Fresh
<1>13. Pending(c)' = Pending(c)
  BY <1>1, <1>5 DEF Pending, MapPcs
<1>14. Given' = Given /\ GivenSet' = GivenSet
  BY <1>2, <1>5, <1>13, GivenSame
<1>15. logdiskbuf' \in Buffer /\ pos' \in Nat /\ stopped' \in BOOLEAN /\ written' \in Seq(Nat)
  BY <1>1, <1>2, Constant
<1>. QED BY <1>0, <1>1, <1>4, <1>7, <1>8, <1>9, <1>10, <1>11, <1>12, <1>14, <1>15, Going

LEMMA ChunkFilledInv ==
    ASSUME IInv, NEW c \in Client, ChunkFilled(c), UNCHANGED <<hardware, tasklog, crashes>>
    PROVE  IInv'
<1>0. "fill" \in LogPcs /\ "data read" \in LogPcs /\ Returned(c, "fill")
  BY DEF LogPcs, MapPcs, DataPcs, ChunkFilled
<1>1. /\ call[c].at = "answered" /\ call[c].pc = "fill" /\ InLog(c)
      /\ TypeOK /\ Request(c) /\ Content(c)
      /\ call[c].str \in Seq(Nat) /\ call[c].sect \in Sector /\ logdiskbuf \in Buffer
      /\ written \in Seq(Nat) /\ stopped \in BOOLEAN
  BY <1>0, Answered
<1>2. /\ disk' = disk /\ crashes' = crashes /\ stopped' = stopped
      /\ pos' = pos /\ logdiskbuf' = logdiskbuf
  BY DEF ChunkFilled, hardware
<1>3. pos = 1 /\ written = <<>> /\ call[c].str # <<>> /\ logdiskbuf = Filled(0)
  BY <1>1 DEF Content, Rest, MapPcs
<1>4. PICK m \in Nat : call[c].sect = m * MAX_IO
  BY <1>1 DEF Request, ChunkStart
<1>5. logdiskbuf' \in Buffer /\ pos' \in Nat /\ stopped' \in BOOLEAN
  BY <1>1, <1>2, <1>3
<1>6. PICK s : s = call[c].sect + MAX_IO
  OBVIOUS
<1>7. CASE s < LogSects
  <2>1. Ask(c, "write", s, MAX_IO, "fill", call[c].str) /\ written' = written
    BY <1>6, <1>7 DEF ChunkFilled
  <2>2. s = (m + 1) * MAX_IO /\ s \in Nat /\ s + MAX_IO <= LogSects
    <3>1. s = (m + 1) * MAX_IO /\ m + 1 \in Nat
      BY <1>4, <1>6, FillSteps
    <3>2. (m + 1) * MAX_IO \in Nat
      BY Sizes
    <3>. QED BY <1>7, <3>1, <3>2, FillSteps
  <2>3. s \in 0 .. FILES /\ "write" \in Ops /\ "fill" \in Pcs /\ MAX_IO \in Nat
    BY <1>7, <2>2, Sizes DEF FILES, Ops, Pcs, LogPcs, MapPcs
  <2>4. Asks(c, "write", s, MAX_IO, "fill", call[c].str)
    BY <1>1, <2>1, <2>3, AskType, Zenon
  <2>5. /\ call'[c].at = "calling" /\ call'[c].pc = "fill" /\ call'[c].op = "write"
        /\ call'[c].sect = s /\ call'[c].n = MAX_IO /\ call'[c].str = call[c].str
        /\ \A d \in Client : d # c => call'[d] = call[d]
    BY <2>4 DEF Asks
  <2>6. Request(c)'
    <3>1. ChunkStart(s)
      BY <2>2 DEF ChunkStart
    <3>. QED BY <2>2, <2>5, <3>1 DEF Request, InLog, LogPcs, MapPcs, DataPcs, HeadPcs, ReadPcs,
                                     ChunkStart
  <2>7. Content(c)'
    BY <1>2, <1>3, <2>1, <2>5 DEF Content, Rest, MapPcs, DataPcs, HeadPcs
  <2>8. InLog(c)' /\ pos > 0
    BY <1>3, <2>5 DEF InLog, LogPcs, MapPcs
  <2>9. Begun' /\ OnDiskBelow' /\ HeaderCovers' /\ (Fresh' => Fresh)
    BY <1>2, <2>1, <2>8, DiskSame
  <2>10. Pending(c)' = Pending(c)
    BY <1>1, <2>5 DEF Pending, MapPcs
  <2>11. Given' = Given /\ GivenSet' = GivenSet
    BY <2>1, <2>5, <2>10, GivenSame
  <2>12. written' \in Seq(Nat)
    BY <1>1, <2>1
  <2>. QED BY <1>0, <1>1, <1>5, <2>4, <2>6, <2>7, <2>9, <2>11, <2>12, Going
<1>8. CASE ~(s < LogSects)
  <2>1. /\ Ask(c, "read", pos \div SectorSize, 1, "data read", call[c].str)
        /\ written' = written \o call[c].str
    BY <1>6, <1>8 DEF ChunkFilled, WriteFrom
  <2>2. PICK str \in Seq(Nat) : str = call[c].str /\ str # <<>>
    BY <1>1, <1>3
  <2>3. RoomLeft
    BY <1>3, OneFits, Zenon DEF RoomLeft
  <2>4. pos > 0 /\ pos = Len(written) + 1
    BY <1>3
  <2>5. pos \div SectorSize \in 0 .. FILES
    <3>1. pos \div SectorSize \in Nat /\ pos \div SectorSize < LogSects - 1
      BY <1>3, <2>3, LogHasRoom, SectorOf DEF RoomLeft
    <3>. QED BY <3>1, Sizes DEF FILES
  <2>6. "read" \in Ops /\ "data read" \in Pcs /\ 1 \in Nat
    BY DEF Ops, Pcs, LogPcs, DataPcs
  <2>7. Asks(c, "read", pos \div SectorSize, 1, "data read", str)
    BY <1>1, <2>1, <2>2, <2>5, <2>6, AskType, Zenon
  <2>8. /\ BeginsWith(c, str) /\ call'[c].pc = "data read"
        /\ \A d \in Client : d # c => call'[d] = call[d]
    BY <2>1, <2>2, <2>7 DEF BeginsWith, Asks
  <2>9. /\ Request(c)' /\ Content(c)' /\ Begun' /\ OnDiskBelow' /\ HeaderCovers'
        /\ written' \in Seq(Nat) /\ Len(written') = Len(written) + Len(str)
    BY <1>2, <2>2, <2>3, <2>4, <2>8, WriteContent
  <2>10. Pending(c)' = <<>> /\ Pending(c) = str
    BY <1>1, <2>2, <2>8 DEF Pending, MapPcs, DataPcs
  <2>11. ToSet(written') = ToSet(written) \cup ToSet(str) /\ ToSet(<<>>) = {}
    <3>1. written' = written \o str
      BY <2>1, <2>2
    <3>. QED BY <1>1, <2>2, <3>1, ToSetConcat, RecordIs
  <2>12. Given' = Given /\ GivenSet' = GivenSet
    BY <1>1, <2>2, <2>8, <2>9, <2>10, <2>11, GivenMoved
  <2>13. Fresh
    BY <1>3 DEF Fresh
  <2>. QED BY <1>0, <1>1, <1>5, <2>7, <2>9, <2>12, <2>13, Going
<1>. QED BY <1>7, <1>8

\* The part of str that goes into the sector of pos.
LEMMA PartIs ==
    ASSUME TypeOK, NEW str \in Seq(Nat)
    PROVE  /\ Off \in 0 .. SectorSize - 1 /\ Part(str) \in Nat
           /\ Part(str) <= Len(str) /\ Off + Part(str) <= SectorSize
           /\ (str # <<>> => Part(str) > 0)
           /\ (Part(str) < Len(str) => Off + Part(str) = SectorSize)
           /\ Len(str) \in Nat
<1>1. PICK n \in Nat : n = Len(str)
  BY LenProperties
<1>2. PICK o \in 0 .. SectorSize - 1 : o = Off
  <2>1. pos \in Nat
    BY DEF TypeOK
  <2>. QED BY <2>1, SectorOf DEF Off
<1>3. PICK p : p = Part(str)
  OBVIOUS
<1>4. p = IF n < SectorSize - o THEN n ELSE SectorSize - o
  BY <1>1, <1>2, <1>3 DEF Part
<1>5. str # <<>> => n > 0
  BY <1>1, EmptySeq
<1>6. /\ p \in Nat /\ p <= n /\ o + p <= SectorSize
      /\ (n > 0 => p > 0) /\ (p < n => o + p = SectorSize)
  <2>1. CASE n < SectorSize - o
    BY <1>4, <2>1, Sizes
  <2>2. CASE ~(n < SectorSize - o)
    BY <1>4, <2>2, Sizes
  <2>. QED BY <2>1, <2>2
<1>. QED BY <1>1, <1>2, <1>3, <1>5, <1>6

LEMMA BufferIs ==
    ASSUME TypeOK, NEW str \in Seq(Nat)
    PROVE  /\ BufferWith(str) \in Buffer
           /\ \A i \in 0 .. Off - 1 : BufferWith(str)[i] = logdiskbuf[i]
           /\ \A i \in 1 .. Part(str) : BufferWith(str)[Off + i - 1] = str[i]
<1>1. PICK o \in 0 .. SectorSize - 1, p \in Nat :
         /\ o = Off /\ p = Part(str) /\ p <= Len(str) /\ o + p <= SectorSize
  BY PartIs
<1>2. PICK n \in Nat : n = Len(str) /\ p <= n
  BY <1>1, LenProperties
<1>3. PICK b : b = BufferWith(str)
  OBVIOUS
<1>4. b = [k \in 0 .. SectorSize - 1 |->
              IF k \in o .. o + p - 1 THEN str[k - o + 1] ELSE logdiskbuf[k]]
  BY <1>1, <1>3 DEF BufferWith
<1>5. logdiskbuf \in [0 .. SectorSize - 1 -> Nat]
  BY DEF TypeOK, Buffer
<1>6. ASSUME NEW k \in 0 .. SectorSize - 1 PROVE b[k] \in Nat
  <2>1. CASE k \in o .. o + p - 1
    <3>1. k - o + 1 \in 1 .. n
      BY <1>2, <2>1
    <3>2. str[k - o + 1] \in Nat
      BY <1>2, <3>1, ElementOfSeq
    <3>. QED BY <1>4, <2>1, <3>2
  <2>2. CASE ~(k \in o .. o + p - 1)
    BY <1>4, <1>5, <2>2
  <2>. QED BY <2>1, <2>2
<1>7. b \in Buffer
  BY <1>4, <1>6 DEF Buffer
<1>8. ASSUME NEW i \in 0 .. o - 1 PROVE b[i] = logdiskbuf[i]
  <2>1. i \in 0 .. SectorSize - 1 /\ ~(i \in o .. o + p - 1)
    BY Sizes
  <2>. QED BY <1>4, <2>1
<1>9. ASSUME NEW i \in 1 .. p PROVE b[o + i - 1] = str[i]
  <2>1. PICK k : k = o + i - 1
    OBVIOUS
  <2>2. k \in 0 .. SectorSize - 1 /\ k \in o .. o + p - 1 /\ k - o + 1 = i
    BY <1>1, <2>1, Sizes
  <2>3. b[k] = str[k - o + 1]
    BY <1>4, <2>2
  <2>. QED BY <2>1, <2>2, <2>3
<1>. QED BY <1>1, <1>3, <1>7, <1>8, <1>9

LEMMA DataReadInv ==
    ASSUME IInv, NEW c \in Client, DataRead(c), UNCHANGED <<hardware, tasklog, crashes>>
    PROVE  IInv'
<1>0. "data read" \in LogPcs /\ "data write" \in LogPcs /\ Returned(c, "data read")
  BY DEF LogPcs, DataPcs, DataRead
<1>1. /\ call[c].at = "answered" /\ call[c].pc = "data read" /\ InLog(c)
      /\ TypeOK /\ Request(c) /\ Content(c) /\ ReadIn(c)
      /\ call[c].str \in Seq(Nat) /\ call[c].sect \in Sector
      /\ written \in Seq(Nat) /\ stopped \in BOOLEAN /\ pos \in Nat
  BY <1>0, Answered DEF ReadPcs
<1>2. /\ disk' = disk /\ crashes' = crashes /\ stopped' = stopped /\ written' = written
      /\ pos' = pos /\ logdiskbuf' = BufferWith(call[c].str)
      /\ Ask(c, "write", call[c].sect, 1, "data write", call[c].str)
  BY DEF DataRead, hardware
<1>3. PICK s \in 0 .. FILES, str \in Seq(Nat) : s = call[c].sect /\ str = call[c].str
  BY <1>1, Facts
<1>4. "write" \in Ops /\ "data write" \in Pcs /\ 1 \in Nat
  BY DEF Ops, Pcs, LogPcs, DataPcs
<1>5. Asks(c, "write", s, 1, "data write", str)
  BY <1>1, <1>2, <1>3, <1>4, AskType, Zenon
<1>6. /\ call'[c].at = "calling" /\ call'[c].pc = "data write" /\ call'[c].op = "write"
      /\ call'[c].sect = s /\ call'[c].n = 1 /\ call'[c].str = str
      /\ \A d \in Client : d # c => call'[d] = call[d]
  BY <1>5 DEF Asks
<1>7. /\ pos > 0 /\ s = pos \div SectorSize /\ str # <<>> /\ pos + Len(str) = Len(written) + 1
      /\ \A i \in 1 .. Len(str) : str[i] = written[pos - 1 + i]
      /\ s < LogSects - 1
  BY <1>1, <1>3 DEF Content, Rest, DataPcs, Request
<1>8. Request(c)'
  BY <1>6, <1>7 DEF Request, InLog, LogPcs, MapPcs, DataPcs, HeadPcs, ReadPcs
<1>9. Content(c)'
  <2>1. Off' = Off /\ Part(str)' = Part(str)
    BY <1>2 DEF Off, Part
  <2>2. logdiskbuf = disk[s]
    BY <1>1, <1>3 DEF ReadIn
  <2>3. \A i \in 0 .. Off - 1 : logdiskbuf'[i] = disk'[s][i]
    BY <1>1, <1>2, <1>3, <2>2, BufferIs
  <2>4. \A i \in 1 .. Part(str) : logdiskbuf'[Off + i - 1] = str[i]
    BY <1>1, <1>2, <1>3, BufferIs
  <2>. QED BY <1>2, <1>6, <1>7, <2>1, <2>3, <2>4 DEF Content, Rest, MapPcs, DataPcs, HeadPcs
<1>10. InLog(c)'
  BY <1>0, <1>6 DEF InLog
<1>11. Begun' /\ OnDiskBelow' /\ HeaderCovers' /\ (Fresh' => Fresh)
  BY <1>2, <1>7, <1>10, DiskSame
<1>12. Pending(c)' = Pending(c)
  BY <1>1, <1>6 DEF Pending, MapPcs
<1>13. Given' = Given /\ GivenSet' = GivenSet
  BY <1>2, <1>6, <1>12, GivenSame
<1>14. logdiskbuf' \in Buffer /\ pos' \in Nat /\ stopped' \in BOOLEAN /\ written' \in Seq(Nat)
  BY <1>1, <1>2, BufferIs
<1>. QED BY <1>0, <1>1, <1>5, <1>8, <1>9, <1>11, <1>13, <1>14, Going

LEMMA HeadReadInv ==
    ASSUME IInv, NEW c \in Client, HeadRead(c), UNCHANGED <<hardware, tasklog, crashes>>
    PROVE  IInv'
<1>0. "head read" \in LogPcs /\ "head write" \in LogPcs /\ Returned(c, "head read")
  BY DEF LogPcs, HeadPcs, HeadRead
<1>1. /\ call[c].at = "answered" /\ call[c].pc = "head read" /\ InLog(c)
      /\ TypeOK /\ Request(c) /\ Content(c) /\ ReadIn(c) /\ logdiskbuf \in Buffer
      /\ written \in Seq(Nat) /\ stopped \in BOOLEAN /\ pos \in Nat
  BY <1>0, Answered DEF ReadPcs
<1>2. /\ disk' = disk /\ crashes' = crashes /\ stopped' = stopped /\ written' = written
      /\ pos' = pos /\ logdiskbuf' = [logdiskbuf EXCEPT ![0] = pos]
      /\ Ask(c, "write", 0, 1, "head write", <<>>)
  BY DEF HeadRead, hardware
<1>3. /\ "write" \in Ops /\ "head write" \in Pcs /\ 1 \in Nat /\ 0 \in 0 .. FILES
      /\ <<>> \in Seq(Nat)
  BY Sizes DEF Ops, Pcs, LogPcs, HeadPcs, FILES
<1>4. Asks(c, "write", 0, 1, "head write", <<>>)
  BY <1>1, <1>2, <1>3, AskType, Zenon
<1>5. /\ call'[c].at = "calling" /\ call'[c].pc = "head write" /\ call'[c].op = "write"
      /\ call'[c].sect = 0 /\ call'[c].n = 1
      /\ \A d \in Client : d # c => call'[d] = call[d]
  BY <1>4 DEF Asks
<1>6. pos = Len(written) + 1 /\ written # <<>> /\ logdiskbuf = disk[0] /\ pos > 0
  <2>1. pos = Len(written) + 1 /\ written # <<>>
    BY <1>1 DEF Content, HeadPcs
  <2>2. Len(written) \in Nat
    BY <1>1, LenProperties
  <2>3. logdiskbuf = disk[0]
    BY <1>1 DEF ReadIn, Request
  <2>. QED BY <2>1, <2>2, <2>3
<1>7. Request(c)'
  BY <1>5 DEF Request, InLog, LogPcs, MapPcs, DataPcs, HeadPcs, ReadPcs
<1>8. logdiskbuf' \in Buffer /\ logdiskbuf'[0] = pos
      /\ \A i \in 1 .. SectorSize - 1 : logdiskbuf'[i] = disk[0][i]
  <2>1. logdiskbuf \in [0 .. SectorSize - 1 -> Nat] /\ 0 \in 0 .. SectorSize - 1
    <3>1. logdiskbuf \in [0 .. SectorSize - 1 -> Nat]
      BY <1>1 DEF Buffer
    <3>2. 0 \in 0 .. SectorSize - 1
      BY Sizes
    <3>. QED BY <3>1, <3>2, Zenon
  <2>2. logdiskbuf' \in [0 .. SectorSize - 1 -> Nat] /\ logdiskbuf'[0] = pos
    BY <1>1, <1>2, <2>1
  <2>3. \A i \in 1 .. SectorSize - 1 : i \in 0 .. SectorSize - 1 /\ i # 0
    BY Sizes
  <2>4. \A i \in 1 .. SectorSize - 1 : logdiskbuf'[i] = logdiskbuf[i]
    BY <1>2, <2>1, <2>3
  <2>. QED BY <1>6, <2>2, <2>4 DEF Buffer
<1>9. Content(c)'
  BY <1>2, <1>5, <1>6, <1>8 DEF Content, MapPcs, DataPcs, HeadPcs
<1>10. InLog(c)'
  BY <1>0, <1>5 DEF InLog
<1>11. Begun' /\ OnDiskBelow' /\ HeaderCovers' /\ (Fresh' => Fresh)
  BY <1>2, <1>6, <1>10, DiskSame
<1>12. Pending(c)' = Pending(c)
  BY <1>1, <1>5 DEF Pending, MapPcs
<1>13. Given' = Given /\ GivenSet' = GivenSet
  BY <1>2, <1>5, <1>12, GivenSame
<1>14. pos' \in Nat /\ stopped' \in BOOLEAN /\ written' \in Seq(Nat)
  BY <1>1, <1>2
<1>. QED BY <1>0, <1>1, <1>4, <1>7, <1>8, <1>9, <1>11, <1>13, <1>14, Going

LEMMA HeadWrittenInv ==
    ASSUME IInv, NEW c \in Client, HeadWritten(c), UNCHANGED <<hardware, tasklog, crashes>>
    PROVE  IInv'
<1>0. "head write" \in LogPcs /\ "last write" \in LogPcs /\ Returned(c, "head write")
  BY DEF LogPcs, HeadPcs, HeadWritten
<1>1. /\ call[c].at = "answered" /\ call[c].pc = "head write" /\ InLog(c)
      /\ TypeOK /\ Request(c) /\ Content(c) /\ call[c].n = 1 /\ Wrote(c, call[c].n)
      /\ logdiskbuf \in Buffer
      /\ written \in Seq(Nat) /\ stopped \in BOOLEAN /\ pos \in Nat
  BY <1>0, Answered DEF ReadPcs
<1>2. /\ disk' = disk /\ crashes' = crashes /\ stopped' = stopped /\ written' = written
      /\ pos' = pos
      /\ logdiskbuf' = [k \in 0 .. SectorSize - 1 |-> IF k = 0 THEN logdiskbuf[0] ELSE 0]
      /\ Ask(c, "write", LogSects - 1, 1, "last write", <<>>)
  BY DEF HeadWritten, hardware
<1>3. /\ "write" \in Ops /\ "last write" \in Pcs /\ 1 \in Nat /\ LogSects - 1 \in 0 .. FILES
      /\ <<>> \in Seq(Nat)
  BY Sizes DEF Ops, Pcs, LogPcs, HeadPcs, FILES
<1>4. Asks(c, "write", LogSects - 1, 1, "last write", <<>>)
  BY <1>1, <1>2, <1>3, AskType, Zenon
<1>5. /\ call'[c].at = "calling" /\ call'[c].pc = "last write" /\ call'[c].op = "write"
      /\ call'[c].sect = LogSects - 1 /\ call'[c].n = 1
      /\ \A d \in Client : d # c => call'[d] = call[d]
  BY <1>4 DEF Asks
<1>6. pos = Len(written) + 1 /\ written # <<>> /\ Header = pos /\ pos > 0
  <2>1. pos = Len(written) + 1 /\ written # <<>> /\ logdiskbuf[0] = pos
    BY <1>1 DEF Content, HeadPcs
  <2>2. Len(written) \in Nat
    BY <1>1, LenProperties
  <2>3. call[c].sect = 0
    BY <1>1 DEF Request
  <2>5. 0 \in Sector /\ 0 <= 0 /\ 0 < 0 + 1
    BY Sizes DEF Sector, SMAP
  <2>4. disk[0] = logdiskbuf
    BY <1>1, <2>3, <2>5 DEF Wrote
  <2>. QED BY <2>1, <2>2, <2>4 DEF Header
<1>7. Request(c)'
  BY <1>5 DEF Request, InLog, LogPcs, MapPcs, DataPcs, HeadPcs, ReadPcs
<1>8. logdiskbuf' \in Buffer
  BY <1>1, <1>2, Sizes DEF Buffer
<1>9. Content(c)'
  <2>1. Header' = Header
    BY <1>2 DEF Header
  <2>. QED BY <1>2, <1>5, <1>6, <2>1 DEF Content, MapPcs, DataPcs, HeadPcs
<1>10. InLog(c)'
  BY <1>0, <1>5 DEF InLog
<1>11. Begun' /\ OnDiskBelow' /\ HeaderCovers' /\ (Fresh' => Fresh)
  BY <1>2, <1>6, <1>10, DiskSame
<1>12. Pending(c)' = Pending(c)
  BY <1>1, <1>5 DEF Pending, MapPcs
<1>13. Given' = Given /\ GivenSet' = GivenSet
  BY <1>2, <1>5, <1>12, GivenSame
<1>14. pos' \in Nat /\ stopped' \in BOOLEAN /\ written' \in Seq(Nat)
  BY <1>1, <1>2
<1>. QED BY <1>0, <1>1, <1>4, <1>7, <1>8, <1>9, <1>11, <1>13, <1>14, Going

\* What is left of str for the next sector.
LEMMA RestIs ==
    ASSUME NEW str \in Seq(Nat), NEW p \in Nat, p <= Len(str)
    PROVE  LET rest == SubSeq(str, p + 1, Len(str))
           IN  /\ rest \in Seq(Nat) /\ Len(rest) = Len(str) - p
               /\ \A i \in 1 .. Len(str) - p : rest[i] = str[p + i]
               /\ (rest = <<>> <=> p = Len(str))
<1>1. PICK n \in Nat : n = Len(str) /\ p <= n
  BY LenProperties
<1>2. PICK rest : rest = SubSeq(str, p + 1, n)
  OBVIOUS
<1>3. rest \in Seq(Nat) /\ Len(rest) = n - p /\ \A i \in 1 .. n - p : rest[i] = str[p + i]
  <2>1. \A i \in (p + 1) .. n : i \in 1 .. n
    OBVIOUS
  <2>2. \A i \in (p + 1) .. n : str[i] \in Nat
    BY <1>1, <2>1, ElementOfSeq
  <2>3. Len(rest) = IF p + 1 <= n THEN n - (p + 1) + 1 ELSE 0
    BY <1>1, <1>2, SubSeqProperties
  <2>4. Len(rest) = n - p
    BY <1>1, <2>3
  <2>5. rest \in Seq(Nat)
    BY <1>1, <1>2, <2>1, SubSeqProperties
  <2>6. ASSUME NEW i \in 1 .. n - p PROVE rest[i] = str[p + i]
    <3>1. i \in 1 .. n - (p + 1) + 1 /\ (p + 1) + i - 1 = p + i /\ p + 1 <= n
      BY <1>1
    <3>2. rest[i] = str[(p + 1) + i - 1]
      BY <1>1, <1>2, <3>1, SubSeqProperties
    <3>. QED BY <3>1, <3>2
  <2>. QED BY <2>4, <2>5, <2>6
<1>4. rest = <<>> <=> p = n
  <2>1. rest = <<>> <=> Len(rest) = 0
    BY <1>3, EmptySeq
  <2>. QED BY <1>1, <1>3, <2>1
<1>. QED BY <1>1, <1>2, <1>3, <1>4

\* The sector holds the part of str that was written.
LEMMA PartOnDisk ==
    ASSUME TypeOK, NEW s \in Sector, s = pos \div SectorSize, NEW str \in Seq(Nat),
           \A i \in 1 .. Len(str) : str[i] = written[pos - 1 + i],
           \A i \in 1 .. Part(str) : disk[s][Off + i - 1] = str[i],
           \A k \in 1 .. pos - 1 : OnDisk(k) = written[k], pos > 0
    PROVE  \A k \in 1 .. pos + Part(str) - 1 : OnDisk(k) = written[k]
<1>1. PICK x \in Nat : x = pos /\ x > 0
  BY DEF TypeOK
<1>2. PICK o \in 0 .. SectorSize - 1, p \in Nat, n \in Nat :
         o = Off /\ p = Part(str) /\ n = Len(str) /\ p <= n /\ o + p <= SectorSize
  BY PartIs
<1>3. ASSUME NEW k \in 1 .. x + p - 1, x <= k PROVE OnDisk(k) = written[k]
  <2>1. PICK b : b = x - (x % SectorSize)
    OBVIOUS
  <2>2. o = x % SectorSize /\ o <= x
    BY <1>1, <1>2, SectorOf DEF Off
  <2>3. b \in Nat /\ b + o = x
    BY <2>1, <2>2
  <2>4. PICK i \in 1 .. p : k = x + i - 1
    <3>1. k - x + 1 \in 1 .. p /\ k = x + (k - x + 1) - 1
      BY <1>3
    <3>. QED BY <3>1
  <2>5. b <= k /\ k < b + SectorSize /\ k \in Nat /\ k - b = o + i - 1
    <3>1. PICK d \in Nat : d = SectorSize /\ o + p <= d
      BY <1>2, Sizes
    <3>2. b <= k /\ k < b + d /\ k \in Nat /\ k - b = o + i - 1
      BY <2>3, <2>4, <3>1
    <3>. QED BY <3>1, <3>2
  <2>6. k \div SectorSize = s /\ k % SectorSize = k - b
    BY <1>1, <2>1, <2>5, SectorOf
  <2>7. OnDisk(k) = str[i]
    BY <1>2, <2>4, <2>5, <2>6 DEF OnDisk
  <2>8. i \in 1 .. n /\ str[i] = written[x - 1 + i] /\ x - 1 + i = k
    <3>1. i \in 1 .. n /\ x - 1 + i = k
      BY <1>2, <2>4
    <3>. QED BY <1>1, <1>2, <3>1
  <2>. QED BY <2>7, <2>8
<1>4. ASSUME NEW k \in 1 .. x + p - 1, ~(x <= k) PROVE OnDisk(k) = written[k]
  <2>1. k \in 1 .. x - 1
    BY <1>4
  <2>. QED BY <1>1, <2>1
<1>. QED BY <1>1, <1>2, <1>3, <1>4

LEMMA DataWrittenInv ==
    ASSUME IInv, NEW c \in Client, DataWritten(c), UNCHANGED <<hardware, tasklog, crashes>>
    PROVE  IInv'
<1>0. /\ "data write" \in LogPcs /\ "data read" \in LogPcs /\ "head read" \in LogPcs
      /\ Returned(c, "data write")
  BY DEF LogPcs, DataPcs, HeadPcs, DataWritten
<1>1. /\ call[c].at = "answered" /\ call[c].pc = "data write" /\ InLog(c)
      /\ TypeOK /\ Request(c) /\ Content(c) /\ Begun /\ OnDiskBelow /\ HeaderCovers
      /\ call[c].n = 1 /\ Wrote(c, call[c].n)
      /\ call[c].str \in Seq(Nat) /\ call[c].sect \in Sector /\ logdiskbuf \in Buffer
      /\ written \in Seq(Nat) /\ stopped \in BOOLEAN /\ pos \in Nat
  BY <1>0, Answered DEF ReadPcs
<1>2. PICK s \in Sector, str \in Seq(Nat) : s = call[c].sect /\ str = call[c].str
  BY <1>1
<1>3. PICK rest : rest = SubSeq(str, Part(str) + 1, Len(str))
  OBVIOUS
<1>4. /\ disk' = disk /\ crashes' = crashes /\ stopped' = stopped /\ written' = written
      /\ pos' = pos + Part(str) /\ logdiskbuf' = logdiskbuf
      /\ rest # <<>> => Ask(c, "read", s + 1, 1, "data read", rest)
      /\ rest = <<>> => Ask(c, "read", 0, 1, "head read", <<>>)
  BY <1>2, <1>3 DEF DataWritten, hardware
<1>5. /\ pos > 0 /\ s = pos \div SectorSize /\ str # <<>> /\ pos + Len(str) = Len(written) + 1
      /\ \A i \in 1 .. Len(str) : str[i] = written[pos - 1 + i]
      /\ \A i \in 1 .. Part(str) : logdiskbuf[Off + i - 1] = str[i]
      /\ s < LogSects - 1
  BY <1>1, <1>2 DEF Content, Rest, DataPcs, Request
<1>6. disk[s] = logdiskbuf
  <2>1. s \in Nat /\ s <= s /\ s < s + 1
    BY DEF Sector
  <2>. QED BY <1>1, <1>2, <2>1 DEF Wrote
<1>7. PICK x \in Nat, o \in 0 .. SectorSize - 1, p \in Nat, n \in Nat, l \in Nat :
         /\ x = pos /\ o = Off /\ p = Part(str) /\ n = Len(str) /\ l = Len(written)
         /\ p <= n /\ o + p <= SectorSize /\ p > 0 /\ (p < n => o + p = SectorSize)
  <2>1. Len(written) \in Nat
    BY <1>1, LenProperties
  <2>. QED BY <1>1, <1>5, <2>1, PartIs
<1>8. pos' = x + p /\ x + n = l + 1 /\ x > 0
  BY <1>4, <1>5, <1>7
<1>21. PICK y \in Nat : y = pos' /\ y = x + p /\ y > 1 /\ y <= l + 1
  BY <1>7, <1>8
<1>22. Len(written') = l
  BY <1>4, <1>7
<1>9. /\ rest \in Seq(Nat) /\ Len(rest) = n - p
      /\ \A i \in 1 .. n - p : rest[i] = str[p + i]
      /\ (rest = <<>> <=> p = n)
  BY <1>3, <1>7, RestIs
<1>10. \A k \in 1 .. pos' - 1 : OnDisk(k)' = written'[k]
  <2>1. \A k \in 1 .. pos - 1 : OnDisk(k) = written[k]
    BY <1>1, <1>5 DEF OnDiskBelow
  <2>2. \A i \in 1 .. Part(str) : disk[s][Off + i - 1] = str[i]
    BY <1>5, <1>6
  <2>3. \A k \in 1 .. pos + Part(str) - 1 : OnDisk(k) = written[k]
    BY <1>1, <1>5, <2>1, <2>2, PartOnDisk
  <2>4. \A k : OnDisk(k)' = OnDisk(k)
    BY <1>4 DEF OnDisk
  <2>5. \A k \in 1 .. y - 1 : OnDisk(k) = written[k]
    BY <1>7, <1>21, <2>3
  <2>6. written' = written
    BY <1>4
  <2>. QED BY <1>21, <2>4, <2>5, <2>6
<1>11. Header \in Nat /\ Header' = Header /\ Header <= pos
  BY <1>1, <1>4, <1>5, HeaderIsNat DEF OnDiskBelow, Header
<1>12. ASSUME InLog(c)' PROVE OnDiskBelow'
  <2>1. pos' <= Len(written') + 1 /\ Header' <= pos'
    BY <1>7, <1>11, <1>21, <1>22
  <2>. QED BY <1>10, <1>12, <2>1 DEF OnDiskBelow
<1>13. HeaderCovers'
  BY <1>1, <1>4 DEF HeaderCovers, Header, OnDisk
<1>14. Begun'
  <2>1. pos # 0 /\ pos' # 0
    BY <1>7, <1>8
  <2>. QED BY <1>1, <1>4, <1>11, <2>1 DEF Begun
<1>15. Fresh
  BY <1>5 DEF Fresh
<1>16. logdiskbuf' \in Buffer /\ pos' \in Nat /\ stopped' \in BOOLEAN /\ written' \in Seq(Nat)
  <2>1. logdiskbuf' = logdiskbuf /\ stopped' = stopped /\ written' = written
    BY <1>4
  <2>. QED BY <1>1, <1>21, <2>1
<1>17. "read" \in Ops /\ "data read" \in Pcs /\ "head read" \in Pcs /\ 1 \in Nat
  BY DEF Ops, Pcs, LogPcs, DataPcs, HeadPcs
<1>18. Pending(c) = <<>>
  BY <1>1 DEF Pending, MapPcs
<1>19. CASE rest # <<>>
  <2>1. p < n /\ o + p = SectorSize
    BY <1>7, <1>9, <1>19
  <2>2. pos' \div SectorSize = s + 1
    <3>1. x = (s * SectorSize) + o /\ s \in Nat /\ s * SectorSize \in Nat
      <4>1. x = ((x \div SectorSize) * SectorSize) + (x % SectorSize) /\ x \div SectorSize \in Nat
        BY <1>7, Sizes, Division
      <4>. QED BY <1>5, <1>7, <4>1, Sizes DEF Off
    <3>2. (s + 1) * SectorSize = (s * SectorSize) + SectorSize
      BY <3>1, Sizes
    <3>3. x + p = ((s + 1) * SectorSize) + 0 /\ x + p \in Nat /\ s + 1 \in Nat
          /\ 0 \in 0 .. SectorSize - 1
      BY <2>1, <3>1, <3>2, Sizes
    <3>4. (x + p) \div SectorSize = s + 1
      BY <3>3, Sizes, DivisionOnce
    <3>. QED BY <1>8, <3>4
  <2>3. s + 1 \in 0 .. FILES /\ s + 1 < LogSects - 1
    <3>1. l <= Chars(MaxRecords) /\ Chars(MaxRecords) \in Nat
      BY <1>5, <1>7, RoomFor
    <3>2. x + p \in Nat /\ x + p <= Chars(MaxRecords)
      BY <1>8, <2>1, <3>1
    <3>3. (x + p) \div SectorSize < LogSects - 1
      BY <3>2, LogHasRoom
    <3>. QED BY <1>8, <2>2, <3>3, Sizes DEF Sector, FILES
  <2>4. Asks(c, "read", s + 1, 1, "data read", rest)
    BY <1>1, <1>4, <1>9, <1>17, <1>19, <2>3, AskType, Zenon
  <2>5. /\ call'[c].at = "calling" /\ call'[c].pc = "data read" /\ call'[c].op = "read"
        /\ call'[c].sect = s + 1 /\ call'[c].n = 1 /\ call'[c].str = rest
        /\ \A d \in Client : d # c => call'[d] = call[d]
    BY <2>4 DEF Asks
  <2>6. Request(c)'
    BY <2>3, <2>5 DEF Request, InLog, LogPcs, MapPcs, DataPcs, HeadPcs, ReadPcs
  <2>7. Content(c)'
    <3>1. pos' > 0 /\ pos' + Len(rest) = Len(written') + 1
      <4>1. Len(rest) = n - p
        BY <1>9
      <4>. QED BY <1>8, <1>21, <1>22, <4>1
    <3>2. ASSUME NEW i \in 1 .. Len(rest) PROVE rest[i] = written'[pos' - 1 + i]
      <4>1. i \in 1 .. n - p /\ p + i \in 1 .. n /\ x - 1 + (p + i) = (x + p) - 1 + i
        BY <1>9, <2>1
      <4>2. rest[i] = str[p + i]
        BY <1>9, <4>1
      <4>3. str[p + i] = written[x - 1 + (p + i)]
        BY <1>5, <1>7, <4>1
      <4>. QED BY <1>4, <1>8, <4>1, <4>2, <4>3
    <3>. QED BY <1>19, <2>2, <2>5, <3>1, <3>2 DEF Content, Rest, MapPcs, DataPcs, HeadPcs
  <2>8. InLog(c)'
    BY <1>0, <2>5 DEF InLog
  <2>9. Pending(c)' = Pending(c)
    BY <1>18, <2>5 DEF Pending, MapPcs
  <2>10. Given' = Given /\ GivenSet' = GivenSet
    BY <1>4, <2>5, <2>9, GivenSame
  <2>. QED BY <1>0, <1>1, <1>12, <1>13, <1>14, <1>15, <1>16, <2>4, <2>6, <2>7, <2>8, <2>10, Going
<1>20. CASE rest = <<>>
  <2>1. p = n
    BY <1>9, <1>20
  <2>2. 0 \in 0 .. FILES /\ <<>> \in Seq(Nat)
    BY Sizes DEF FILES
  <2>3. Asks(c, "read", 0, 1, "head read", <<>>)
    BY <1>1, <1>4, <1>17, <1>20, <2>2, AskType, Zenon
  <2>4. /\ call'[c].at = "calling" /\ call'[c].pc = "head read" /\ call'[c].op = "read"
        /\ call'[c].sect = 0 /\ call'[c].n = 1
        /\ \A d \in Client : d # c => call'[d] = call[d]
    BY <2>3 DEF Asks
  <2>5. Request(c)'
    BY <2>4 DEF Request, InLog, LogPcs, MapPcs, DataPcs, HeadPcs, ReadPcs
  <2>6. Content(c)'
    <3>1. pos' = Len(written') + 1
      BY <1>8, <1>21, <1>22, <2>1
    <3>2. written' # <<>>
      <4>1. Len(written') # 0
        BY <1>8, <1>21, <1>22
      <4>. QED BY <4>1, EmptySeq
    <3>. QED BY <2>4, <3>1, <3>2 DEF Content, MapPcs, DataPcs, HeadPcs
  <2>7. InLog(c)'
    BY <1>0, <2>4 DEF InLog
  <2>8. Pending(c)' = Pending(c)
    BY <1>18, <2>4 DEF Pending, MapPcs
  <2>9. Given' = Given /\ GivenSet' = GivenSet
    BY <1>4, <2>4, <2>8, GivenSame
  <2>. QED BY <1>0, <1>1, <1>12, <1>13, <1>14, <1>15, <1>16, <2>3, <2>5, <2>6, <2>7, <2>9, Going
<1>. QED BY <1>19, <1>20

LEMMA disklogStepInv == ASSUME IInv, NEW c \in Client, disklogStep(c) PROVE IInv'
<1>1. UNCHANGED <<hardware, tasklog, crashes>>
  BY DEF disklogStep
<1>2. \/ MapRead(c) \/ MapWritten(c) \/ ChunkFilled(c) \/ DataRead(c) \/ DataWritten(c)
      \/ HeadRead(c) \/ HeadWritten(c)
  BY DEF disklogStep
<1>. QED BY <1>1, <1>2, MapReadInv, MapWrittenInv, ChunkFilledInv, DataReadInv, DataWrittenInv,
            HeadReadInv, HeadWrittenInv
-----------------------------------------------------------------------------
\* task_log, and what FS does outside disklog().

\* The driver does not see what a client does that does not wait for it.
LEMMA Aside ==
    ASSUME IInv, NEW c \in Client, call[c].at # "calling" \/ call' = call,
           \A d \in Client : d # c => call'[d] = call[d],
           hd_queue' = hd_queue, drive' = drive, irq' = irq,
           hd' = hd \/ (hd.at = "log" /\ hd' = [hd EXCEPT !.at = "script"])
    PROVE  ServesOne' /\ DriverInv' /\ DriveInv'
<1>1. /\ hd'.client = hd.client /\ hd'.op = hd.op /\ hd'.sect = hd.sect /\ hd'.left = hd.left
      /\ hd'.at = hd.at \/ (hd.at = "log" /\ hd'.at = "script")
  BY DEF IInv, TypeOK
<1>2. hd.at # "receive" => hd.client \in Client /\ call'[hd.client] = call[hd.client]
  BY DEF IInv, ServesOne, TypeOK
<1>3. \A i \in 1 .. Len(hd_queue) : call'[hd_queue[i]] = call[hd_queue[i]]
  <2>1. ASSUME NEW i \in 1 .. Len(hd_queue) PROVE call'[hd_queue[i]] = call[hd_queue[i]]
    <3>1. hd_queue[i] \in Client
      BY HdQueue
    <3>2. call[hd_queue[i]].at = "calling"
      BY DEF IInv, ServesOne
    <3>. QED BY <3>1, <3>2
  <2>. QED BY <2>1
<1>4. ServesOne'
  <2>1. ServesOne
    BY DEF IInv
  <2>2. hd'.at # "receive" => hd.at # "receive"
    BY <1>1
  <2>. QED BY <1>1, <1>2, <1>3, <2>1, <2>2 DEF ServesOne
<1>5. DriverInv'
  <2>1. DriverInv
    BY DEF IInv
  <2>2. hd.at # "receive" => (Opens <=> Opens')
    BY <1>1, <1>2 DEF Opens
  <2>3. CASE hd'.at = hd.at
    BY <1>1, <1>2, <2>1, <2>2, <2>3 DEF DriverInv
  <2>4. CASE hd.at = "log" /\ hd'.at = "script"
    BY <1>1, <1>2, <2>1, <2>2, <2>4 DEF DriverInv
  <2>. QED BY <1>1, <2>3, <2>4
<1>6. DriveInv'
  <2>1. DriveInv
    BY DEF IInv
  <2>2. CASE hd'.at = hd.at
    BY <1>1, <1>2, <2>1, <2>2 DEF DriveInv, Commands
  <2>3. CASE hd.at = "log" /\ hd'.at = "script"
    BY <1>1, <1>2, <2>1, <2>3 DEF DriveInv, Commands
  <2>. QED BY <1>1, <2>2, <2>3
<1>. QED BY <1>4, <1>5, <1>6

\* A client is not in disklog() afterwards: it was not, or it has finished.
LEMMA Leaves ==
    ASSUME IInv, NEW c \in Client, \A d \in Client : d # c => call'[d] = call[d],
           ~InLog(c)', ~InLog(c) \/ call[c].pc = "last write",
           disk' = disk, pos' = pos, written' = written, crashes' = crashes,
           logdiskbuf' = logdiskbuf
    PROVE  /\ (\A d \in Client : Content(d))' /\ Begun' /\ OnDiskBelow' /\ HeaderCovers'
           /\ (Fresh' => Fresh)
           /\ Pending("LOG")' = Pending("LOG") /\ Pending("FS")' = Pending("FS")
<1>1. \A d \in Client : d # c => (InLog(d)' <=> InLog(d))
  BY DEF InLog
<1>2. ASSUME NEW d \in Client PROVE Content(d)'
  <2>1. Content(d)
    BY DEF IInv
  <2>2. CASE d = c
    BY <2>2 DEF Content, InLog, LogPcs, MapPcs, DataPcs, HeadPcs
  <2>3. CASE d # c
    <3>1. call'[d].pc = call[d].pc /\ call'[d].sect = call[d].sect /\ call'[d].str = call[d].str
      BY <2>3
    <3>2. /\ Rest(d)' = Rest(d) /\ Off' = Off /\ Part(Rest(d))' = Part(Rest(d))
          /\ Header' = Header
      BY <3>1 DEF Rest, Off, Part, Header
    <3>. QED BY <2>1, <3>1, <3>2 DEF Content
  <2>. QED BY <2>2, <2>3
<1>3. \A d \in Client : call'[d].pc = "smap write" <=> call[d].pc = "smap write"
  <2>1. call'[c].pc # "smap write" /\ call[c].pc # "smap write"
    BY DEF InLog, LogPcs, MapPcs
  <2>. QED BY <2>1
<1>4. Begun'
  <2>1. Begun /\ Header' = Header
    BY DEF IInv, Header
  <2>. QED BY <1>3, <2>1 DEF Begun
<1>5. OnDiskBelow'
  <2>1. OnDiskBelow /\ Header' = Header /\ \A k : OnDisk(k)' = OnDisk(k)
    BY DEF IInv, Header, OnDisk
  <2>2. ASSUME pos > 0, \A d \in Client : ~InLog(d)'
        PROVE  pos = Len(written) + 1 /\ written # <<>> /\ Header = pos
    <3>1. CASE ~InLog(c)
      <4>1. \A d \in Client : ~InLog(d)
        BY <1>1, <2>2, <3>1
      <4>. QED BY <2>1, <2>2, <4>1 DEF OnDiskBelow
    <3>2. CASE call[c].pc = "last write"
      <4>1. Content(c)
        BY DEF IInv
      <4>. QED BY <3>2, <4>1 DEF Content, HeadPcs
    <3>. QED BY <3>1, <3>2
  <2>. QED BY <2>1, <2>2 DEF OnDiskBelow
<1>6. HeaderCovers'
  BY DEF IInv, HeaderCovers, Header, OnDisk
<1>7. Fresh' => Fresh
  BY <1>3 DEF Fresh
<1>8. \A d \in Client : Pending(d)' = Pending(d)
  <2>1. Pending(c)' = Pending(c)
    <3>1. call'[c].pc \notin MapPcs /\ call[c].pc \notin MapPcs
      BY DEF InLog, LogPcs, MapPcs
    <3>. QED BY <3>1 DEF Pending
  <2>2. ASSUME NEW d \in Client, d # c PROVE Pending(d)' = Pending(d)
    BY <2>2 DEF Pending
  <2>. QED BY <2>1, <2>2
<1>9. Pending("LOG")' = Pending("LOG") /\ Pending("FS")' = Pending("FS")
  BY <1>8 DEF Client
<1>. QED BY <1>2, <1>4, <1>5, <1>6, <1>7, <1>9

LEMMA TransfersSame ==
    ASSUME IInv, NEW c \in Client, \A d \in Client : d # c => call'[d] = call[d], ~InLog(c)',
           disk' = disk, logdiskbuf' = logdiskbuf, hd' = hd, drive' = drive, irq' = irq
    PROVE  Transfers'
<1>1. ASSUME NEW d \in Client, InLog(d)' PROVE d # c /\ call'[d] = call[d] /\ InLog(d)
  BY <1>1 DEF InLog
<1>. QED BY <1>1 DEF IInv, Transfers, Served, ReadIn, Wrote, Commands

\* A report less to come for each that comes.
LEMMA LengthsSame ==
    ASSUME IInv, TypeOK', Fresh' => Fresh, Given' = Given, GivenSet' = GivenSet,
           crashes' = crashes, records' = records, Due \in Nat, Due' \in Nat,
           Len(log_queue') + Due' <= Len(log_queue) + Due
    PROVE  Lengths'
<1>1. PICK a, b : a = Len(log_queue') + Due' /\ b = Len(log_queue) + Due
  OBVIOUS
<1>2. a \in Nat /\ b \in Nat /\ a <= b
  <2>1. Len(log_queue) \in Nat /\ Len(log_queue') \in Nat
    <3>1. TypeOK
      BY DEF IInv
    <3>2. /\ log_queue \in Seq({"HD", "TTY", "USER", "FS"})
          /\ log_queue' \in Seq({"HD", "TTY", "USER", "FS"})
      BY <3>1 DEF TypeOK
    <3>. QED BY <3>2, LenProperties
  <2>. QED BY <1>1, <2>1
<1>3. Chars(a) <= Chars(b) /\ Chars(a) \in Nat /\ Chars(b) \in Nat /\ Chars(MaxRecords) \in Nat
  BY <1>2, CharsAdd, Sizes
<1>4. Given \in Nat
  BY Strings DEF IInv
<1>. QED BY <1>1, <1>3, <1>4 DEF IInv, Lengths

\* A client has no call any more, or sends what it has done to LOG.
Ended(c, at) ==
    /\ call'[c].at = at /\ call'[c].pc = "none" /\ call'[c].op = "none"
    /\ \A d \in Client : d # c => call'[d] = call[d]
    /\ call' \in [Client -> [at : {"idle", "calling", "answered", "sending"}, pc : Pcs, op : Ops,
                             sect : 0 .. FILES, n : Nat, str : Seq(Nat)]]

LEMMA EndedIs ==
    ASSUME TypeOK, NEW c \in Client, NEW at \in {"idle", "sending"},
           call' = [call EXCEPT ![c] = [NoCall EXCEPT !.at = at]]
           \/ (at = "idle" /\ call' = [call EXCEPT ![c] = NoCall])
    PROVE  Ended(c, at)
<1>1. PICK r : r = [NoCall EXCEPT !.at = at]
  OBVIOUS
<1>2. /\ r \in [at : {"idle", "calling", "answered", "sending"}, pc : Pcs, op : Ops,
                sect : 0 .. FILES, n : Nat, str : Seq(Nat)]
      /\ r.at = at /\ r.pc = "none" /\ r.op = "none"
  BY <1>1, Constant DEF NoCall
<1>3. /\ NoCall \in [at : {"idle", "calling", "answered", "sending"}, pc : Pcs, op : Ops,
                     sect : 0 .. FILES, n : Nat, str : Seq(Nat)]
      /\ NoCall.at = "idle" /\ NoCall.pc = "none" /\ NoCall.op = "none"
  BY Constant DEF NoCall
<1>4. PICK q : /\ q \in [at : {"idle", "calling", "answered", "sending"}, pc : Pcs, op : Ops,
                         sect : 0 .. FILES, n : Nat, str : Seq(Nat)]
               /\ q.at = at /\ q.pc = "none" /\ q.op = "none"
               /\ call' = [call EXCEPT ![c] = q]
  BY <1>1, <1>2, <1>3
<1>5. call \in [Client -> [at : {"idle", "calling", "answered", "sending"}, pc : Pcs, op : Ops,
                           sect : 0 .. FILES, n : Nat, str : Seq(Nat)]]
  BY DEF TypeOK
<1>6. call'[c] = q /\ \A d \in Client : d # c => call'[d] = call[d]
  BY <1>4, <1>5
<1>7. call' \in [Client -> [at : {"idle", "calling", "answered", "sending"}, pc : Pcs, op : Ops,
                            sect : 0 .. FILES, n : Nat, str : Seq(Nat)]]
  BY <1>4, <1>5
<1>. QED BY <1>4, <1>6, <1>7 DEF Ended

\* One more waits for LOG.
Appended(w) == log_queue' = Append(log_queue, w)

LEMMA AppendedIs ==
    ASSUME IInv, NEW w \in Who, w # "HD", Appended(w), hd' = hd,
           w = "FS" => call["FS"].at # "sending" /\ call'["FS"].at = "sending",
           call["FS"].at = "sending" => call'["FS"].at = "sending"
    PROVE  Reporters' /\ log_queue' \in Seq(Who) /\ Len(log_queue') = Len(log_queue) + 1
<1>1. PICK n \in Nat : n = Len(log_queue)
  BY LogQueue
<1>2. /\ log_queue' \in Seq(Who) /\ Len(log_queue') = n + 1 /\ log_queue'[n + 1] = w
      /\ \A i \in 1 .. n : log_queue'[i] = log_queue[i]
  BY <1>1, LogQueue DEF Appended
<1>3. Reporters
  BY DEF IInv
<1>4. w = "FS" => \A i \in 1 .. n : log_queue[i] # "FS"
  BY <1>1, <1>3 DEF Reporters
<1>5. ASSUME NEW i \in 1 .. n + 1
      PROVE  /\ log_queue'[i] = "FS" => call'["FS"].at = "sending"
             /\ log_queue'[i] = "HD" => hd'.at = "log"
  <2>1. CASE i = n + 1
    BY <1>2, <2>1
  <2>2. CASE i # n + 1
    <3>1. i \in 1 .. n
      BY <2>2
    <3>. QED BY <1>1, <1>2, <1>3, <3>1 DEF Reporters
  <2>. QED BY <2>1, <2>2
<1>6. ASSUME NEW i \in 1 .. n + 1, NEW j \in 1 .. n + 1, log_queue'[i] = log_queue'[j],
             log_queue'[i] \in {"HD", "FS"}
      PROVE  i = j
  <2>1. i # n + 1 => i \in 1 .. n
    OBVIOUS
  <2>2. j # n + 1 => j \in 1 .. n
    OBVIOUS
  <2>3. CASE i = n + 1 \/ j = n + 1
    BY <1>2, <1>4, <1>6, <2>1, <2>2, <2>3
  <2>4. CASE i # n + 1 /\ j # n + 1
    BY <1>1, <1>2, <1>3, <1>6, <2>1, <2>2, <2>4 DEF Reporters
  <2>. QED BY <2>3, <2>4
<1>7. Len(hd'.script) <= Tables + 3 /\ hd'.script = ScriptFrom(Len(hd'.script))
  BY <1>3 DEF Reporters
<1>8. Reporters'
  BY <1>2, <1>5, <1>6, <1>7 DEF Reporters
<1>. QED BY <1>1, <1>2, <1>8

\* What it leaves alone.
Quiet == UNCHANGED <<hardware, hd_queue, logdiskbuf, pos, log_buf, system_ready, todo, records,
                     written, stopped, crashes>>

Reports(c, at) ==
    \/ log_queue' = log_queue
    \/ c = "FS" /\ at = "sending" /\ call[c].pc # "open" /\ Appended("FS")

Through(c) == ~InLog(c) \/ call[c].pc = "last write"

LEMMA EndedStep ==
    ASSUME IInv, NEW c \in Client, NEW at \in {"idle", "sending"}, Ended(c, at),
           c = "LOG" => at = "idle",
           call[c].at = "answered", Through(c), Quiet, Reports(c, at)
    PROVE  IInv'
<1>1. /\ call'[c].at = at /\ call'[c].pc = "none" /\ call'[c].op = "none"
      /\ \A d \in Client : d # c => call'[d] = call[d]
      /\ call' \in [Client -> [at : {"idle", "calling", "answered", "sending"}, pc : Pcs, op : Ops,
                              sect : 0 .. FILES, n : Nat, str : Seq(Nat)]]
  BY DEF Ended
<1>2. /\ disk' = disk /\ drive' = drive /\ irq' = irq /\ hd' = hd /\ hd_queue' = hd_queue
      /\ logdiskbuf' = logdiskbuf /\ pos' = pos /\ log_buf' = log_buf
      /\ system_ready' = system_ready /\ todo' = todo /\ records' = records
      /\ written' = written /\ stopped' = stopped /\ crashes' = crashes
  BY DEF hardware, Quiet
<1>3. TypeOK /\ "LOG" \in Client /\ "FS" \in Client
  BY DEF IInv, Client
<1>4. log_queue' \in Seq(Who) /\ Len(log_queue') \in Nat
  <2>1. log_queue' \in Seq(Who)
    BY LogQueue DEF Who, Appended, Reports
  <2>. QED BY <2>1, LenProperties
<1>5. TypeOK'
  BY <1>1, <1>2, <1>3, <1>4 DEF TypeOK, Who
<1>6. ~InLog(c)'
  BY <1>1 DEF InLog, LogPcs, MapPcs, DataPcs, HeadPcs
<1>7. ServesOne' /\ DriverInv' /\ DriveInv'
  BY <1>1, <1>2, Aside
<1>8. Transfers'
  BY <1>1, <1>2, <1>6, TransfersSame
<1>9. /\ (\A d \in Client : Content(d))' /\ Begun' /\ OnDiskBelow' /\ HeaderCovers'
      /\ (Fresh' => Fresh)
      /\ Pending("LOG")' = Pending("LOG") /\ Pending("FS")' = Pending("FS")
  BY <1>1, <1>2, <1>6, Leaves DEF Through
<1>10. ASSUME NEW d \in Client PROVE Request(d)'
  <2>1. CASE d = c
    BY <1>1, <1>6, <2>1 DEF Request, InLog
  <2>2. CASE d # c
    <3>1. call'[d] = call[d] /\ Request(d)
      BY <1>1, <2>2 DEF IInv
    <3>. QED BY <3>1 DEF Request, InLog
  <2>. QED BY <2>1, <2>2
<1>11. Turns'
  <2>1. Turns
    BY DEF IInv
  <2>2. CASE c = "FS"
    <3>1. call'["LOG"] = call["LOG"]
      BY <1>1, <1>3, <2>2
    <3>. QED BY <1>1, <1>6, <2>1, <2>2, <3>1 DEF Turns
  <2>3. CASE c = "LOG"
    <3>1. call'["FS"] = call["FS"] /\ (InLog("FS")' <=> InLog("FS"))
      BY <1>1, <1>3, <2>3 DEF InLog
    <3>. QED BY <1>1, <1>2, <2>1, <2>3, <3>1 DEF Turns
  <2>. QED BY <2>2, <2>3 DEF Client
<1>12. Reporters'
  <2>1. Reporters
    BY DEF IInv
  <2>2. call["FS"].at = "sending" => call'["FS"].at = "sending"
    <3>1. c # "FS" => call'["FS"] = call["FS"]
      BY <1>1, <1>3
    <3>. QED BY <3>1
  <2>3. CASE log_queue' = log_queue
    BY <1>2, <2>1, <2>2, <2>3 DEF Reporters
  <2>4. CASE c = "FS" /\ at = "sending" /\ Appended("FS")
    <3>1. "FS" \in Who /\ call["FS"].at # "sending" /\ call'["FS"].at = "sending"
      BY <1>1, <2>4 DEF Who
    <3>. QED BY <1>2, <2>2, <2>4, <3>1, AppendedIs
  <2>. QED BY <2>3, <2>4 DEF Reports
<1>13. Len(log_queue') + Due' <= Len(log_queue) + Due /\ Due \in Nat /\ Due' \in Nat
  <2>1. DueCases /\ DueCases' /\ Due \in Nat
    BY <1>3, <1>5, DueIs, DueIsNat
  <2>2. PICK n \in Nat, m \in Nat, d \in Nat :
           n = Len(log_queue) /\ m = Len(log_queue') /\ d = Due
    BY <1>4, <2>1, LogQueue
  <2>3. PICK e : e = Due'
    OBVIOUS
  <2>4. e \in Nat /\ m + e <= n + d
    <3>1. CASE c = "FS"
      <4>1. e = 0
        BY <1>1, <2>1, <2>3, <3>1 DEF DueCases, InLog, LogPcs, MapPcs, DataPcs, HeadPcs
      <4>2. CASE log_queue' = log_queue
        BY <2>2, <4>1, <4>2
      <4>3. CASE call[c].pc # "open" /\ Appended("FS")
        <5>1. m = n + 1
          BY <2>2, <4>3, LogQueue DEF Who, Appended
        <5>2. call["FS"].pc # "none"
          BY <3>1 DEF IInv, Request
        <5>3. d \in {1, 2}
          BY <2>1, <2>2, <3>1, <4>3, <5>2 DEF DueCases
        <5>. QED BY <4>1, <5>1, <5>3
      <4>. QED BY <4>2, <4>3 DEF Reports
    <3>2. CASE c = "LOG"
      <4>1. call'["FS"] = call["FS"] /\ log_queue' = log_queue
        BY <1>1, <1>3, <3>2 DEF Reports
      <4>2. Due' = Due
        BY <1>2, <4>1 DEF Due, HdDue, InLog
      <4>. QED BY <2>2, <2>3, <4>1, <4>2
    <3>. QED BY <3>1, <3>2 DEF Client
  <2>. QED BY <2>1, <2>2, <2>3, <2>4
<1>14. Lengths'
  <2>1. Todo(1)' = Todo(1) /\ Todo(2)' = Todo(2)
    BY <1>2 DEF Todo
  <2>2. Given' = Given /\ GivenSet' = GivenSet
    BY <1>2, <1>9, <2>1 DEF Given, GivenSet
  <2>. QED BY <1>2, <1>5, <1>9, <1>13, <2>2, LengthsSame
<1>. QED BY <1>5, <1>7, <1>8, <1>9, <1>10, <1>11, <1>12, <1>14 DEF IInv

LEMMA LogReturnsInv == ASSUME IInv, LogReturns PROVE IInv'
<1>1. /\ call["LOG"].at = "answered" /\ call["LOG"].pc = "last write" /\ "LOG" \in Client
      /\ call' = [call EXCEPT !["LOG"] = NoCall] /\ TypeOK
      /\ Quiet
      /\ log_queue' = log_queue
  BY DEF LogReturns, Returned, tasklog, Client, IInv, Quiet
<1>2. Ended("LOG", "idle")
  BY <1>1, EndedIs
<1>. QED BY <1>1, <1>2, EndedStep DEF Reports, Through

LEMMA OpenedInv == ASSUME IInv, Opened PROVE IInv'
<1>1. /\ call["FS"].at = "answered" /\ call["FS"].pc = "open" /\ "FS" \in Client
      /\ call' = [call EXCEPT !["FS"] = NoCall] /\ TypeOK
      /\ Quiet
      /\ log_queue' = log_queue
  BY DEF Opened, Returned, tasklog, Client, IInv, Quiet
<1>2. Ended("FS", "idle")
  BY <1>1, EndedIs
<1>3. ~InLog("FS")
  BY <1>1 DEF InLog, LogPcs, MapPcs, DataPcs, HeadPcs
<1>. QED BY <1>1, <1>2, <1>3, EndedStep DEF Reports, Through

LEMMA FsReportInv == ASSUME IInv, FsReport PROVE IInv'
<1>1. /\ call["FS"].at = "answered" /\ "FS" \in Client
      /\ call["FS"].pc = "file" \/ call["FS"].pc = "last write"
      /\ call' = [call EXCEPT !["FS"] = [NoCall EXCEPT !.at = "sending"]] /\ TypeOK
      /\ Quiet
      /\ Appended("FS")
  BY DEF FsReport, Returned, Client, IInv, Appended, Quiet
<1>2. Ended("FS", "sending")
  BY <1>1, EndedIs
<1>3. ~InLog("FS") \/ call["FS"].pc = "last write"
  BY <1>1 DEF InLog, LogPcs, MapPcs, DataPcs, HeadPcs
<1>4. call["FS"].pc # "open"
  BY <1>1
<1>. QED BY <1>1, <1>2, <1>3, <1>4, EndedStep DEF Reports, Through

\* There is room for all reports that may come.
LEMMA Room ==
    ASSUME IInv, NEW l \in Nat, NEW r \in Nat, r = records, r + l <= MaxRecords
    PROVE  Given + Chars(l) <= Chars(MaxRecords)
<1>1. PICK g \in Nat : g = Given
  BY Strings DEF IInv
<1>2. g <= Chars(r)
  BY <1>1 DEF IInv, Lengths
<1>3. /\ Chars(r + l) = Chars(r) + Chars(l) /\ Chars(r) \in Nat /\ Chars(l) \in Nat
      /\ Chars(r + l) <= Chars(MaxRecords) /\ Chars(r + l) \in Nat /\ Chars(MaxRecords) \in Nat
  <2>1. r + l \in Nat
    OBVIOUS
  <2>. QED BY <2>1, CharsAdd, Sizes
<1>. QED BY <1>1, <1>2, <1>3

LEMMA FsFileInv == ASSUME IInv, FsFile PROVE IInv'
<1>1. /\ call["FS"].at = "idle"
      /\ log_queue' = log_queue /\ disk' = disk /\ drive' = drive /\ irq' = irq /\ hd' = hd
      /\ logdiskbuf' = logdiskbuf /\ pos' = pos /\ log_buf' = log_buf
      /\ system_ready' = system_ready /\ todo' = todo /\ records' = records
      /\ written' = written /\ stopped' = stopped /\ crashes' = crashes
  BY DEF FsFile, Busy, hardware, tasklog
<1>2. PICK op \in {"read", "write"}, k \in 1 .. MaxCount : Ask("FS", op, FILES, k, "file", <<>>)
  BY DEF FsFile
<1>3. PICK c \in Client : c = "FS"
  BY DEF Client
<1>4. TypeOK /\ Turns /\ Reporters /\ Request(c)
  BY DEF IInv
<1>5. /\ op \in Ops /\ FILES \in 0 .. FILES /\ k \in Nat /\ k \in 1 .. MAX_IO
      /\ "file" \in Pcs /\ <<>> \in Seq(Nat)
  <2>1. MaxCount \in 1 .. MAX_IO /\ MAX_IO \in Nat
    BY DiskAssumption
  <2>2. k \in 1 .. MAX_IO /\ k \in Nat
    BY <2>1
  <2>. QED BY <2>2, Sizes DEF Ops, FILES, Pcs
<1>6. Asks(c, op, FILES, k, "file", <<>>)
  BY <1>2, <1>3, <1>4, <1>5, AskType, Zenon
<1>7. /\ call'[c].at = "calling" /\ call'[c].pc = "file" /\ call'[c].op = op
      /\ call'[c].sect = FILES /\ call'[c].n = k
      /\ \A d \in Client : d # c => call'[d] = call[d]
      /\ hd_queue' = Append(hd_queue, c) /\ hd_queue' \in Seq(Client)
      /\ call' \in [Client -> [at : {"idle", "calling", "answered", "sending"}, pc : Pcs, op : Ops,
                              sect : 0 .. FILES, n : Nat, str : Seq(Nat)]]
  BY <1>6 DEF Asks
<1>8. TypeOK'
  BY <1>1, <1>4, <1>7 DEF TypeOK
<1>9. call[c].pc = "none" /\ ~InLog(c) /\ ~InLog(c)'
  <2>1. call[c].pc = "none"
    BY <1>1, <1>3, <1>4 DEF Turns
  <2>. QED BY <1>7, <2>1 DEF InLog, LogPcs, MapPcs, DataPcs, HeadPcs
<1>10. ServesOne' /\ DriverInv' /\ DriveInv' /\ Transfers'
  BY <1>1, <1>3, <1>7, <1>8, AskInv
<1>11. /\ (\A d \in Client : Content(d))' /\ Begun' /\ OnDiskBelow' /\ HeaderCovers'
       /\ (Fresh' => Fresh)
       /\ Pending("LOG")' = Pending("LOG") /\ Pending("FS")' = Pending("FS")
  BY <1>1, <1>7, <1>9, Leaves
<1>12. ASSUME NEW d \in Client PROVE Request(d)'
  <2>1. CASE d = c
    BY <1>3, <1>5, <1>7, <1>9, <2>1 DEF Request, InLog
  <2>2. CASE d # c
    <3>1. call'[d] = call[d] /\ Request(d)
      BY <1>7, <2>2 DEF IInv
    <3>. QED BY <3>1 DEF Request, InLog
  <2>. QED BY <2>1, <2>2
<1>13. Turns'
  <2>1. call'["LOG"] = call["LOG"]
    BY <1>3, <1>7 DEF Client
  <2>. QED BY <1>3, <1>4, <1>7, <1>9, <2>1 DEF Turns
<1>14. Reporters'
  <2>1. \A i \in 1 .. Len(log_queue) : log_queue[i] # "FS"
    BY <1>1, <1>4 DEF Reporters
  <2>. QED BY <1>1, <1>4, <2>1 DEF Reporters
<1>15. Lengths'
  <2>1. Due' = 2
    <3>1. DueCases'
      BY <1>8, DueIs
    <3>. QED BY <1>3, <1>7, <1>9, <3>1 DEF DueCases
  <2>2. PICK r \in Nat, q \in Nat : r = records /\ q = Len(log_queue)
    BY <1>4, LogQueue DEF TypeOK
  <2>3. r + q + 1 < MaxRecords
    BY <2>2 DEF FsFile
  <2>4. q + 2 \in Nat /\ r + (q + 2) <= MaxRecords
    BY <2>3, Sizes
  <2>5. Given + Chars(q + 2) <= Chars(MaxRecords)
    BY <2>2, <2>4, Room
  <2>6. Todo(1)' = Todo(1) /\ Todo(2)' = Todo(2)
    BY <1>1 DEF Todo
  <2>7. Given' = Given /\ GivenSet' = GivenSet
    BY <1>1, <1>11, <2>6 DEF Given, GivenSet
  <2>. QED BY <1>1, <2>1, <2>2, <2>5, <2>7 DEF IInv, Lengths
<1>. QED BY <1>8, <1>10, <1>11, <1>12, <1>13, <1>14, <1>15 DEF IInv

LEMMA ReportInv == ASSUME IInv, NEW who \in {"TTY", "USER"}, Report(who) PROVE IInv'
<1>1. /\ disk' = disk /\ drive' = drive /\ irq' = irq /\ hd' = hd /\ hd_queue' = hd_queue
      /\ call' = call /\ logdiskbuf' = logdiskbuf /\ pos' = pos /\ log_buf' = log_buf
      /\ system_ready' = system_ready /\ todo' = todo /\ records' = records
      /\ written' = written /\ stopped' = stopped /\ crashes' = crashes
  BY DEF Report, hardware
<1>2. Appended(who) /\ who \in Who /\ who # "HD" /\ who # "FS"
  BY DEF Report, Appended, Who
<1>3. Reporters' /\ log_queue' \in Seq(Who) /\ Len(log_queue') = Len(log_queue) + 1
  BY <1>1, <1>2, AppendedIs
<1>4. TypeOK /\ TypeOK'
  <2>1. TypeOK
    BY DEF IInv
  <2>. QED BY <1>1, <1>3, <2>1 DEF TypeOK, Who
<1>5. ServesOne' /\ DriverInv'
  BY <1>1 DEF IInv, ServesOne, DriverInv, Opens
<1>6. DriveInv' /\ Transfers'
  BY <1>1 DEF IInv, DriveInv, Transfers, Commands, Served, ReadIn, Wrote, InLog
<1>7. SamePlaces /\ Answers
  BY <1>1 DEF SamePlaces, Answers
<1>8. (\A c \in Client : Request(c))' /\ Turns'
  BY <1>1, <1>7, RequestFrame
<1>9. (\A c \in Client : Content(c))' /\ Begun' /\ OnDiskBelow' /\ HeaderCovers'
  BY <1>1, <1>7, ContentFrame
<1>10. Lengths'
  <2>1. PICK r \in Nat, q \in Nat, d \in Nat : r = records /\ q = Len(log_queue) /\ d = Due
    BY <1>4, LogQueue, DueIsNat DEF TypeOK
  <2>2. Due' = d
    BY <1>1, <2>1 DEF Due, HdDue, InLog
  <2>3. d <= Reserved /\ Reserved \in {0, 2}
    <3>1. DueCases /\ Request("FS") /\ Reporters
      BY <1>4, DueIs DEF IInv, Client
    <3>2. d <= 2
      BY <2>1, <3>1 DEF DueCases, HdDue
    <3>3. CASE call["FS"].pc = "none"
      BY <2>1, <3>1, <3>3 DEF DueCases, Reserved
    <3>4. CASE call["FS"].pc # "none"
      <4>1. call["FS"].at \notin {"idle", "sending"}
        BY <3>1, <3>4 DEF Request
      <4>2. "FS" \notin ToSet(log_queue)
        <5>1. DOMAIN log_queue = 1 .. Len(log_queue)
          BY LogQueue
        <5>2. \A i \in 1 .. Len(log_queue) : log_queue[i] # "FS"
          BY <3>1, <4>1 DEF Reporters
        <5>. QED BY <5>1, <5>2 DEF ToSet
      <4>3. Reserved = 2
        BY <4>1, <4>2 DEF Reserved, Busy
      <4>. QED BY <3>2, <4>3
    <3>. QED BY <3>3, <3>4
  <2>4. r + q + Reserved < MaxRecords
    BY <2>1 DEF Report
  <2>5. q + 1 + d \in Nat /\ r + (q + 1 + d) <= MaxRecords
    BY <2>3, <2>4, Sizes
  <2>6. Given + Chars(q + 1 + d) <= Chars(MaxRecords)
    BY <2>1, <2>5, Room
  <2>7. Todo(1)' = Todo(1) /\ Todo(2)' = Todo(2) /\ Pending("LOG")' = Pending("LOG")
        /\ Pending("FS")' = Pending("FS")
    BY <1>1 DEF Todo, Pending
  <2>8. Given' = Given /\ GivenSet' = GivenSet
    BY <1>1, <2>7 DEF Given, GivenSet
  <2>9. Len(log_queue') + Due' = q + 1 + d
    BY <1>3, <2>1, <2>2
  <2>. QED BY <1>1, <2>6, <2>8, <2>9 DEF IInv, Lengths
<1>. QED BY <1>3, <1>4, <1>5, <1>6, <1>8, <1>9, <1>10 DEF IInv

\* What task_log makes of a record: it writes it, with what it kept, or keeps it.
LEMMA RecordTaken ==
    ASSUME TypeOK, todo = <<>>, DevLog \/ OtherLog
    PROVE  /\ todo' \in Seq(Seq(Nat) \ {<<>>}) /\ Len(todo') <= 2
           /\ log_buf' \in Seq(Nat) /\ system_ready' \in BOOLEAN
           /\ Todo(1)' \in Seq(Nat) /\ Todo(2)' \in Seq(Nat)
           /\ Todo(1) = <<>> /\ Todo(2) = <<>>
           /\ Len(Todo(1)') + Len(Todo(2)') + Len(log_buf') = Len(log_buf) + RecordLen
           /\ ToSet(Todo(1)') \cup ToSet(Todo(2)') \cup ToSet(log_buf')
                 = ToSet(log_buf) \cup {records + 1}
<1>1. PICK R \in Seq(Nat) : R = Record
  BY RecordIs
<1>2. Len(R) = RecordLen /\ R # <<>> /\ ToSet(R) = {records + 1} /\ ToSet(<<>>) = {}
  BY <1>1, RecordIs
<1>3. log_buf \in Seq(Nat) /\ system_ready \in BOOLEAN
  BY DEF TypeOK
<1>4. PICK B \in Seq(Nat) : B = log_buf \o R
  BY <1>3, ConcatProperties
<1>5. Len(B) = Len(log_buf) + Len(R) /\ ToSet(B) = ToSet(log_buf) \cup ToSet(R)
  BY <1>3, <1>4, ConcatProperties, ToSetConcat
<1>6. Len(log_buf) \in Nat /\ RecordLen \in Nat \ {0} /\ Len(R) \in Nat /\ Len(<<>>) = 0
      /\ <<>> \in Seq(Nat)
  BY <1>3, Sizes
<1>7. B # <<>>
  BY <1>2, <1>5, <1>6
<1>8. Todo(1) = <<>> /\ Todo(2) = <<>>
  BY DEF Todo
<1>9. CASE todo' = <<B>> /\ log_buf' = <<>> /\ system_ready' = system_ready
  <2>1. Todo(1)' = B /\ Todo(2)' = <<>> /\ log_buf' = <<>>
    BY <1>9 DEF Todo
  <2>2. todo' \in Seq(Seq(Nat) \ {<<>>}) /\ Len(todo') <= 2
    BY <1>7, <1>9
  <2>3. /\ log_buf' \in Seq(Nat) /\ system_ready' \in BOOLEAN
        /\ Todo(1)' \in Seq(Nat) /\ Todo(2)' \in Seq(Nat)
    BY <1>1, <1>3, <1>4, <1>6, <1>9, <2>1
  <2>4. Len(Todo(1)') + Len(Todo(2)') + Len(log_buf') = Len(log_buf) + RecordLen
    <3>1. Len(B) + Len(<<>>) + Len(<<>>) = Len(log_buf) + RecordLen
      BY <1>2, <1>5, <1>6
    <3>. QED BY <2>1, <3>1
  <2>5. ToSet(Todo(1)') \cup ToSet(Todo(2)') \cup ToSet(log_buf')
           = ToSet(log_buf) \cup {records + 1}
    BY <1>2, <1>5, <2>1
  <2>. QED BY <1>8, <2>2, <2>3, <2>4, <2>5
<1>10. CASE todo' = <<>> /\ log_buf' = B /\ system_ready' = system_ready
  <2>1. Todo(1)' = <<>> /\ Todo(2)' = <<>> /\ log_buf' = B
    BY <1>10 DEF Todo
  <2>2. todo' \in Seq(Seq(Nat) \ {<<>>}) /\ Len(todo') <= 2
    BY <1>10
  <2>3. /\ log_buf' \in Seq(Nat) /\ system_ready' \in BOOLEAN
        /\ Todo(1)' \in Seq(Nat) /\ Todo(2)' \in Seq(Nat)
    BY <1>1, <1>3, <1>4, <1>6, <1>10, <2>1
  <2>4. Len(Todo(1)') + Len(Todo(2)') + Len(log_buf') = Len(log_buf) + RecordLen
    <3>1. Len(<<>>) + Len(<<>>) + Len(B) = Len(log_buf) + RecordLen
      BY <1>2, <1>5, <1>6
    <3>. QED BY <2>1, <3>1
  <2>5. ToSet(Todo(1)') \cup ToSet(Todo(2)') \cup ToSet(log_buf')
           = ToSet(log_buf) \cup {records + 1}
    BY <1>2, <1>5, <2>1
  <2>. QED BY <1>8, <2>2, <2>3, <2>4, <2>5
<1>11. CASE todo' = <<log_buf, R>> /\ log_buf # <<>> /\ log_buf' = <<>> /\ system_ready' = TRUE
  <2>1. Todo(1)' = log_buf /\ Todo(2)' = R /\ log_buf' = <<>>
    BY <1>11 DEF Todo
  <2>2. todo' \in Seq(Seq(Nat) \ {<<>>}) /\ Len(todo') <= 2
    BY <1>2, <1>3, <1>11
  <2>3. /\ log_buf' \in Seq(Nat) /\ system_ready' \in BOOLEAN
        /\ Todo(1)' \in Seq(Nat) /\ Todo(2)' \in Seq(Nat)
    BY <1>1, <1>3, <1>4, <1>6, <1>11, <2>1
  <2>4. Len(Todo(1)') + Len(Todo(2)') + Len(log_buf') = Len(log_buf) + RecordLen
    <3>1. Len(log_buf) + Len(R) + Len(<<>>) = Len(log_buf) + RecordLen
      BY <1>2, <1>5, <1>6
    <3>. QED BY <2>1, <3>1
  <2>5. ToSet(Todo(1)') \cup ToSet(Todo(2)') \cup ToSet(log_buf')
           = ToSet(log_buf) \cup {records + 1}
    BY <1>2, <1>5, <2>1
  <2>. QED BY <1>8, <2>2, <2>3, <2>4, <2>5
<1>12. CASE todo' = <<R>> /\ log_buf' = log_buf /\ system_ready' = TRUE
  <2>1. Todo(1)' = R /\ Todo(2)' = <<>> /\ log_buf' = log_buf
    BY <1>12 DEF Todo
  <2>2. todo' \in Seq(Seq(Nat) \ {<<>>}) /\ Len(todo') <= 2
    BY <1>2, <1>3, <1>12
  <2>3. /\ log_buf' \in Seq(Nat) /\ system_ready' \in BOOLEAN
        /\ Todo(1)' \in Seq(Nat) /\ Todo(2)' \in Seq(Nat)
    BY <1>1, <1>3, <1>4, <1>6, <1>12, <2>1
  <2>4. Len(Todo(1)') + Len(Todo(2)') + Len(log_buf') = Len(log_buf) + RecordLen
    <3>1. Len(R) + Len(<<>>) + Len(log_buf) = Len(log_buf) + RecordLen
      BY <1>2, <1>5, <1>6
    <3>. QED BY <2>1, <3>1
  <2>5. ToSet(Todo(1)') \cup ToSet(Todo(2)') \cup ToSet(log_buf')
           = ToSet(log_buf) \cup {records + 1}
    BY <1>2, <1>5, <2>1
  <2>. QED BY <1>8, <2>2, <2>3, <2>4, <2>5
<1>13. CASE DevLog
  BY <1>1, <1>4, <1>9, <1>10, <1>13 DEF DevLog
<1>14. CASE OtherLog
  BY <1>1, <1>11, <1>12, <1>14 DEF OtherLog
<1>. QED BY <1>13, <1>14


LEMMA LogReceiveInv == ASSUME IInv, LogReceive PROVE IInv'
<1>1. /\ call["LOG"].at = "idle" /\ todo = <<>> /\ log_queue # <<>> /\ ~Frozen("LOG")
      /\ log_queue' = Tail(log_queue) /\ records' = records + 1 /\ (DevLog \/ OtherLog)
      /\ Released(Head(log_queue))
      /\ disk' = disk /\ drive' = drive /\ irq' = irq /\ hd_queue' = hd_queue
      /\ logdiskbuf' = logdiskbuf /\ pos' = pos /\ written' = written
      /\ stopped' = stopped /\ crashes' = crashes
  BY DEF LogReceive, LogReceives, Busy
<1>2. TypeOK /\ Turns /\ Reporters /\ "LOG" \in Client /\ "FS" \in Client
      /\ Request("LOG") /\ Request("FS")
  BY DEF IInv, Client
<1>3. ~InLog("FS")
  BY <1>1 DEF Frozen, InLog, LogPcs, MapPcs, DataPcs, HeadPcs
<1>4. call["LOG"].pc = "none" /\ ~InLog("LOG")
  BY <1>1, <1>2 DEF Request, InLog, LogPcs, MapPcs, DataPcs, HeadPcs
<1>5. PICK n \in Nat : n = Len(log_queue) - 1 /\ n + 1 = Len(log_queue)
  <2>1. PICK q \in Nat : q = Len(log_queue)
    BY LogQueue
  <2>2. 1 \in 1 .. q
    BY <1>1, <2>1, LogQueue
  <2>3. q - 1 \in Nat /\ (q - 1) + 1 = q
    BY <2>2
  <2>. QED BY <2>1, <2>3
<1>5a. PICK who : who = Head(log_queue) /\ who = log_queue[1]
  BY <1>1, LogQueue
<1>6. /\ log_queue' \in Seq(Who) /\ Len(log_queue') = n
      /\ \A i \in 1 .. n : log_queue'[i] = log_queue[i + 1]
  BY <1>1, <1>5, <1>5a, LogQueue
<1>7. 1 \in 1 .. n + 1 /\ \A i \in 1 .. n : i + 1 \in 1 .. n + 1
  OBVIOUS
<1>8. /\ who = "FS" => call["FS"].at = "sending"
      /\ who = "HD" => hd.at = "log"
      /\ who \in {"HD", "FS"} => \A i \in 1 .. n : log_queue'[i] # who
  BY <1>2, <1>5, <1>5a, <1>6, <1>7 DEF Reporters
<1>9. hd' = hd \/ (who = "HD" /\ hd.at = "log" /\ hd' = [hd EXCEPT !.at = "script"])
  BY <1>1, <1>5, <1>5a, <1>8 DEF Released
<1>10. /\ hd'.client = hd.client /\ hd'.script = hd.script
       /\ (hd'.at = "receive" <=> hd.at = "receive") /\ (who # "HD" => hd' = hd)
       /\ hd' \in [at : {"receive", "script", "interrupt", "transfer", "log", "reply"},
                   client : Client, op : Ops, sect : 0 .. FILES, left : Nat,
                   script : Seq({"command", "log"})]
  BY <1>2, <1>9 DEF TypeOK
<1>11. /\ call'["LOG"] = call["LOG"]
       /\ who # "FS" => call' = call
       /\ who = "FS" => /\ call["FS"].pc = "none" /\ call'["FS"].at = "idle"
                        /\ call'["FS"].pc = "none" /\ call'["FS"].op = "none"
       /\ call' \in [Client -> [at : {"idle", "calling", "answered", "sending"}, pc : Pcs, op : Ops,
                               sect : 0 .. FILES, n : Nat, str : Seq(Nat)]]
  <2>1. CASE who = "FS"
    <3>1. call' = [call EXCEPT !["FS"] = NoCall]
      BY <1>1, <1>5, <1>5a, <2>1 DEF Released
    <3>2. Ended("FS", "idle")
      BY <1>2, <3>1, EndedIs
    <3>3. call["FS"].pc = "none"
      BY <1>2, <1>8, <2>1 DEF Request
    <3>. QED BY <1>2, <2>1, <3>2, <3>3 DEF Ended
  <2>2. CASE who # "FS"
    <3>1. call' = call
      BY <1>1, <1>5, <1>5a, <2>2 DEF Released
    <3>. QED BY <1>2, <2>2, <3>1 DEF TypeOK
  <2>. QED BY <2>1, <2>2
<1>12. call'["FS"].pc = call["FS"].pc /\ ~InLog("FS")' /\ ~InLog("LOG")'
  BY <1>3, <1>4, <1>11 DEF InLog
<1>13. \A d \in Client : d # "FS" => call'[d] = call[d]
  BY <1>11 DEF Client
<1>14. /\ todo' \in Seq(Seq(Nat) \ {<<>>}) /\ Len(todo') <= 2
       /\ log_buf' \in Seq(Nat) /\ system_ready' \in BOOLEAN
       /\ Todo(1) = <<>> /\ Todo(2) = <<>>
       /\ Len(Todo(1)') + Len(Todo(2)') + Len(log_buf') = Len(log_buf) + RecordLen
       /\ ToSet(Todo(1)') \cup ToSet(Todo(2)') \cup ToSet(log_buf')
             = ToSet(log_buf) \cup {records + 1}
  BY <1>1, <1>2, RecordTaken
<1>15. TypeOK'
  <2>1. records' \in Nat
    BY <1>1, <1>2 DEF TypeOK
  <2>. QED BY <1>1, <1>2, <1>6, <1>10, <1>11, <1>14, <2>1 DEF TypeOK, Who
<1>16. ServesOne' /\ DriverInv' /\ DriveInv'
  <2>1. call["FS"].at # "calling" \/ call' = call
    BY <1>8, <1>11
  <2>. QED BY <1>1, <1>2, <1>9, <1>13, <2>1, Aside
<1>17. Transfers'
  BY <1>12 DEF Transfers, Client
<1>18. Through("FS")
  BY <1>3 DEF Through
<1>19. /\ (\A d \in Client : Content(d))' /\ Begun' /\ OnDiskBelow' /\ HeaderCovers'
       /\ (Fresh' => Fresh)
       /\ Pending("LOG")' = Pending("LOG") /\ Pending("FS")' = Pending("FS")
  BY <1>1, <1>2, <1>12, <1>13, <1>18, Leaves DEF Through
<1>20. ASSUME NEW d \in Client PROVE Request(d)'
  <2>1. CASE call'[d] = call[d]
    <3>1. Request(d)
      BY DEF IInv
    <3>. QED BY <2>1, <3>1 DEF Request, InLog
  <2>2. CASE call'[d] # call[d]
    <3>1. d = "FS" /\ who = "FS"
      BY <1>11, <1>13, <2>2
    <3>. QED BY <1>11, <1>12, <3>1 DEF Request
  <2>. QED BY <2>1, <2>2
<1>21. Turns'
  <2>1. call'["FS"].at # "idle" \/ call'["FS"].pc = "none"
    BY <1>2, <1>11 DEF Turns
  <2>. QED BY <1>2, <1>11, <1>12, <2>1 DEF Turns
<1>22. Reporters'
  <2>1. ASSUME NEW i \in 1 .. n
        PROVE  /\ log_queue'[i] = "FS" => call'["FS"].at = "sending"
               /\ log_queue'[i] = "HD" => hd'.at = "log"
    <3>1. /\ log_queue'[i] = "FS" => call["FS"].at = "sending"
          /\ log_queue'[i] = "HD" => hd.at = "log"
      BY <1>2, <1>5, <1>5a, <1>6, <1>7 DEF Reporters
    <3>2. log_queue'[i] = "FS" => who # "FS"
      BY <1>8
    <3>3. log_queue'[i] = "HD" => who # "HD"
      BY <1>8
    <3>. QED BY <1>10, <1>11, <3>1, <3>2, <3>3
  <2>2. ASSUME NEW i \in 1 .. n, NEW j \in 1 .. n, log_queue'[i] = log_queue'[j],
               log_queue'[i] \in {"HD", "FS"}
        PROVE  i = j
    <3>1. i + 1 = j + 1
      BY <1>2, <1>5, <1>5a, <1>6, <1>7, <2>2 DEF Reporters
    <3>. QED BY <3>1
  <2>3. Len(hd'.script) <= Tables + 3 /\ hd'.script = ScriptFrom(Len(hd'.script))
    BY <1>2, <1>10 DEF Reporters
  <2>. QED BY <1>6, <2>1, <2>2, <2>3 DEF Reporters
<1>23. PICK d \in Nat : d = Due /\ Due' = d
  <2>1. DueCases /\ DueCases' /\ Due \in Nat
    BY <1>2, <1>15, DueIs, DueIsNat
  <2>2. HdDue' = HdDue
    BY <1>10 DEF HdDue
  <2>3. call["FS"].pc = "open" => call'["FS"].at = call["FS"].at
    BY <1>11
  <2>4. Due' = Due
    BY <1>3, <1>12, <2>1, <2>2, <2>3 DEF DueCases
  <2>. QED BY <2>1, <2>4
<1>24. Given' = Given + RecordLen
  <2>1. PICK w \in Nat, a \in Nat, b \in Nat, k \in Nat, z \in Nat :
          /\ w = Len(written) /\ a = Len(Pending("LOG")) /\ b = Len(Pending("FS"))
          /\ k = Len(log_buf) /\ z = RecordLen
    <3>1. /\ Len(Pending("LOG")) \in Nat /\ Len(Pending("FS")) \in Nat
          /\ Len(log_buf) \in Nat /\ Len(written) \in Nat
      BY <1>2, Strings, LenProperties
    <3>. QED BY <3>1, Sizes
  <2>2. PICK t \in Nat, u \in Nat, v \in Nat :
          t = Len(Todo(1)') /\ u = Len(Todo(2)') /\ v = Len(log_buf')
    <3>1. Todo(1)' \in Seq(Nat) /\ Todo(2)' \in Seq(Nat) /\ log_buf' \in Seq(Nat)
      BY <1>1, <1>2, RecordTaken
    <3>. QED BY <3>1, LenProperties
  <2>3. t + u + v = k + z
    BY <1>14, <2>1, <2>2
  <2>4. Given' = w + a + b + t + u + v
    BY <1>1, <1>19, <2>1, <2>2 DEF Given
  <2>5. Given = w + a + b + 0 + 0 + k
    <3>1. Len(<<>>) = 0
      OBVIOUS
    <3>. QED BY <1>14, <2>1, <3>1 DEF Given
  <2>6. PICK g, h : g = Given /\ h = Given'
    OBVIOUS
  <2>7. h = w + a + b + t + u + v /\ g = w + a + b + 0 + 0 + k
    BY <2>4, <2>5, <2>6
  <2>8. h = g + z
    BY <2>3, <2>7
  <2>. QED BY <2>1, <2>6, <2>8
<1>25. GivenSet' = GivenSet \cup {records + 1}
  <2>1. ToSet(<<>>) = {}
    BY <1>2, RecordIs
  <2>. QED BY <1>1, <1>14, <1>19, <2>1 DEF GivenSet
<1>26. Lengths'
  <2>1. n + d \in Nat /\ n + d = Len(log_queue') + Due' /\ (n + d) + 1 <= Len(log_queue) + Due
        /\ Due \in Nat
    BY <1>5, <1>5a, <1>6, <1>23
  <2>. QED BY <1>1, <1>6, <1>19, <1>24, <1>25, <2>1, Recorded
<1>. QED BY <1>15, <1>16, <1>17, <1>19, <1>20, <1>21, <1>22, <1>26 DEF IInv

-----------------------------------------------------------------------------
\* The system starts, for the first time or with what a power failure left on the disk.

Kept ==
    /\ disk \in [Sector -> Buffer] /\ written \in Seq(Nat)
    /\ disk[SMAP] \in {Filled(0), Filled(1)}
    /\ disk[SMAP] = Filled(0) => written = <<>>
    /\ written = <<>> => Header = 0
    /\ HeaderCovers

Started ==
    /\ drive = NoCommand /\ irq = FALSE /\ hd = HdIdle /\ hd_queue = <<"FS">>
    /\ call = Booting /\ logdiskbuf = Filled(0) /\ pos = 0
    /\ log_buf = <<>> /\ system_ready = FALSE /\ todo = <<>> /\ log_queue = <<>>
    /\ stopped = FALSE /\ records \in Nat /\ crashes \in Nat
    /\ Kept /\ Len(written) <= Chars(records)
    /\ crashes = 0 => records = 0 /\ disk[SMAP] = Filled(0)

LEMMA BootingIs ==
    /\ Booting["LOG"] = NoCall /\ Booting["FS"].at = "calling" /\ Booting["FS"].pc = "open"
    /\ Booting["FS"].op = "open" /\ Booting["FS"].sect = FILES /\ Booting["FS"].str = <<>>
    /\ NoCall.at = "idle" /\ NoCall.pc = "none" /\ NoCall.op = "none" /\ NoCall.str = <<>>
BY DEF Booting, NoCall, Client

LEMMA StartedInv == Started => IInv
<1> SUFFICES ASSUME Started PROVE IInv
  OBVIOUS
<1>1. /\ drive = NoCommand /\ irq = FALSE /\ hd = HdIdle /\ hd_queue = <<"FS">>
      /\ call = Booting /\ logdiskbuf = Filled(0) /\ pos = 0
      /\ log_buf = <<>> /\ system_ready = FALSE /\ todo = <<>> /\ log_queue = <<>>
      /\ stopped = FALSE /\ records \in Nat /\ crashes \in Nat
      /\ disk \in [Sector -> Buffer] /\ written \in Seq(Nat)
  BY DEF Started, Kept
<1>2. /\ call["LOG"].at = "idle" /\ call["LOG"].pc = "none" /\ call["LOG"].op = "none"
      /\ call["FS"].at = "calling" /\ call["FS"].pc = "open" /\ call["FS"].op = "open"
      /\ call["FS"].sect = FILES
  BY <1>1, BootingIs
<1>3. TypeOK
  <2>1. /\ drive \in [op : Ops, sect : 0 .. FILES, left : Nat, busy : BOOLEAN, data : Buffer]
        /\ logdiskbuf \in Buffer
        /\ hd \in [at : {"receive", "script", "interrupt", "transfer", "log", "reply"},
                   client : Client, op : Ops, sect : 0 .. FILES, left : Nat,
                   script : Seq({"command", "log"})]
        /\ call \in [Client -> [at : {"idle", "calling", "answered", "sending"}, pc : Pcs, op : Ops,
                                sect : 0 .. FILES, n : Nat, str : Seq(Nat)]]
    BY <1>1, Constant
  <2>2. hd_queue \in Seq(Client) /\ log_queue \in Seq({"HD", "TTY", "USER", "FS"})
        /\ log_buf \in Seq(Nat) /\ todo \in Seq(Seq(Nat) \ {<<>>}) /\ Len(todo) <= 2
    BY <1>1 DEF Client
  <2>. QED BY <1>1, <2>1, <2>2 DEF TypeOK
<1>4. ~InLog("LOG") /\ ~InLog("FS") /\ \A c \in Client : ~InLog(c)
  BY <1>2 DEF InLog, LogPcs, MapPcs, DataPcs, HeadPcs, Client
<1>5. \A c \in Client : Request(c)
  <2>1. Request("LOG")
    BY <1>2, <1>4 DEF Request
  <2>2. Request("FS")
    BY <1>2, <1>4 DEF Request
  <2>. QED BY <2>1, <2>2 DEF Client
<1>6. \A c \in Client : Content(c)
  <2>1. ASSUME NEW c \in Client PROVE Content(c)
    <3>1. call[c].pc \in {"none", "open"}
      BY <1>2 DEF Client
    <3>. QED BY <3>1 DEF Content, MapPcs, DataPcs, HeadPcs
  <2>. QED BY <2>1
<1>7. hd.at = "receive" /\ hd.client = "FS" /\ hd.script = <<>>
      /\ drive.busy = FALSE
  BY <1>1 DEF HdIdle, NoCommand
<1>8. Turns
  BY <1>2, <1>4 DEF Turns
<1>9. ServesOne
  <2>1. Len(hd_queue) = 1 /\ hd_queue[1] = "FS"
    BY <1>1
  <2>. QED BY <1>2, <1>7, <2>1 DEF ServesOne
<1>10. DriverInv /\ DriveInv
  BY <1>1, <1>7 DEF DriverInv, DriveInv, Commands, Opens
<1>11. Transfers
  BY <1>4 DEF Transfers
<1>12. Reporters
  <2>1. Len(log_queue) = 0 /\ Len(hd.script) = 0
    BY <1>1, <1>7
  <2>2. hd.script = ScriptFrom(0)
    <3>1. Len(ScriptFrom(0)) = 0 /\ ScriptFrom(0) \in Seq({"command", "log"})
      BY ScriptForm
    <3>2. ScriptFrom(0) = <<>>
      BY <3>1, EmptySeq
    <3>. QED BY <1>7, <3>2
  <2>3. 0 <= Tables + 3
    BY Sizes
  <2>. QED BY <2>1, <2>2, <2>3 DEF Reporters
<1>13. Due = 2
  <2>1. DueCases
    BY <1>3, DueIs
  <2>. QED BY <1>2, <1>4, <1>7, <2>1 DEF DueCases, HdDue
<1>14. PICK k \in Nat : k = Len(written) /\ Given = k
  <2>1. Pending("LOG") = <<>>
    BY <1>2 DEF Pending, MapPcs
  <2>2. Pending("FS") = <<>>
    BY <1>2 DEF Pending, MapPcs
  <2>3. Todo(1) = <<>> /\ Todo(2) = <<>>
    BY <1>1 DEF Todo
  <2>4. Len(<<>>) = 0 /\ Len(written) \in Nat
    BY <1>1
  <2>5. Given = Len(written) + 0 + 0 + 0 + 0 + 0
    BY <1>1, <2>1, <2>2, <2>3, <2>4 DEF Given
  <2>. QED BY <2>4, <2>5
<1>15. Kept /\ k <= Chars(records) /\ (crashes = 0 => records = 0 /\ disk[SMAP] = Filled(0))
  BY <1>14 DEF Started
<1>16. Begun
  BY <1>1, <1>15 DEF Kept, Begun
<1>17. OnDiskBelow
  BY <1>1 DEF OnDiskBelow
<1>18. Lengths
  <2>1. Chars(0) = 0 /\ Chars(2) <= Chars(MaxRecords) /\ Chars(2) \in Nat
    BY CharsAdd, Sizes
  <2>2. ASSUME Fresh PROVE Given + Chars(Len(log_queue) + Due) <= Chars(MaxRecords)
    <3>1. disk[SMAP] = Filled(0)
      <4>1. \A c \in Client : call[c].pc # "smap write"
        BY <1>2 DEF Client
      <4>2. ~(pos > 0)
        BY <1>1
      <4>. QED BY <2>2, <4>1, <4>2 DEF Fresh
    <3>2. k = 0
      BY <1>14, <1>15, <3>1 DEF Kept
    <3>3. Len(log_queue) + Due = 2
      BY <1>1, <1>13
    <3>. QED BY <1>14, <2>1, <3>2, <3>3
  <2>3. ASSUME crashes = 0 PROVE Given = Chars(records) /\ GivenSet = 1 .. records
    <3>1. records = 0 /\ written = <<>>
      BY <1>15, <2>3 DEF Kept
    <3>2. Given = 0
      BY <1>14, <3>1
    <3>3. GivenSet = {}
      <4>1. Pending("LOG") = <<>>
        BY <1>2 DEF Pending, MapPcs
      <4>2. Pending("FS") = <<>>
        BY <1>2 DEF Pending, MapPcs
      <4>3. Todo(1) = <<>> /\ Todo(2) = <<>> /\ log_buf = <<>>
        BY <1>1 DEF Todo
      <4>4. ToSet(<<>>) = {}
        BY <1>3, RecordIs
      <4>. QED BY <3>1, <4>1, <4>2, <4>3, <4>4 DEF GivenSet
    <3>. QED BY <2>1, <3>1, <3>2, <3>3
  <2>. QED BY <1>14, <1>15, <2>2, <2>3 DEF Lengths
<1>. QED BY <1>3, <1>5, <1>6, <1>8, <1>9, <1>10, <1>11, <1>12, <1>15, <1>16, <1>17, <1>18
     DEF IInv, Kept

LEMMA InitInv == Init => IInv
<1> SUFFICES ASSUME Init PROVE IInv
  OBVIOUS
<1>1. /\ drive = NoCommand /\ irq = FALSE /\ hd = HdIdle /\ hd_queue = <<"FS">>
      /\ call = Booting /\ logdiskbuf = Filled(0) /\ pos = 0
      /\ log_buf = <<>> /\ system_ready = FALSE /\ todo = <<>> /\ log_queue = <<>>
      /\ stopped = FALSE /\ records = 0 /\ crashes = 0 /\ written = <<>>
      /\ disk = [s \in Sector |-> Filled(0)]
  BY DEF Init
<1>2. SMAP \in Sector /\ 0 \in Sector /\ 0 \in 0 .. SectorSize - 1
  BY Sizes DEF Sector, SMAP
<1>3. disk \in [Sector -> Buffer] /\ disk[SMAP] = Filled(0) /\ disk[0] = Filled(0)
  BY <1>1, <1>2, Constant
<1>4. Header = 0
  BY <1>2, <1>3 DEF Header, Filled
<1>5. HeaderCovers
  BY <1>4 DEF HeaderCovers
<1>6. Kept
  BY <1>1, <1>3, <1>4, <1>5 DEF Kept
<1>7. Len(written) <= Chars(records)
  <2>1. Chars(0) = 0 /\ Len(<<>>) = 0
    BY CharsAdd, Sizes
  <2>. QED BY <1>1, <2>1
<1>8. Started
  BY <1>1, <1>3, <1>6, <1>7 DEF Started
<1>. QED BY <1>8, StartedInv

LEMMA CrashInv == ASSUME IInv, Crash PROVE IInv'
<1>1. /\ drive' = NoCommand /\ irq' = FALSE /\ hd' = HdIdle /\ hd_queue' = <<"FS">>
      /\ call' = Booting /\ logdiskbuf' = Filled(0) /\ pos' = 0
      /\ log_buf' = <<>> /\ system_ready' = FALSE /\ todo' = <<>> /\ log_queue' = <<>>
      /\ stopped' = FALSE /\ disk' = disk /\ records' = records /\ written' = written
      /\ crashes' = crashes + 1
  BY DEF Crash
<1>2. /\ TypeOK /\ Begun /\ HeaderCovers
  BY DEF IInv
<1>3. Kept'
  <2>1. Header' = Header /\ (HeaderCovers' <=> HeaderCovers)
    BY <1>1 DEF Header, HeaderCovers, OnDisk
  <2>2. /\ disk \in [Sector -> Buffer] /\ written \in Seq(Nat)
    BY <1>2 DEF TypeOK
  <2>. QED BY <1>1, <1>2, <2>1, <2>2 DEF Kept, Begun
<1>4. Len(written) <= Chars(records)
  <2>1. /\ Len(Pending("LOG")) \in Nat /\ Len(Pending("FS")) \in Nat /\ Len(Todo(1)) \in Nat
        /\ Len(Todo(2)) \in Nat /\ Len(log_buf) \in Nat /\ Len(written) \in Nat
    BY <1>2, Strings, LenProperties
  <2>2. Len(written) <= Given /\ Given \in Nat
    BY <2>1 DEF Given
  <2>3. Given <= Chars(records)
    BY DEF IInv, Lengths
  <2>4. Chars(records) \in Nat
    BY <1>2, CharsAdd DEF TypeOK
  <2>. QED BY <2>1, <2>2, <2>3, <2>4
<1>5. crashes' \in Nat /\ crashes' # 0 /\ records' \in Nat
  BY <1>1, <1>2 DEF TypeOK
<1>6. Started'
  BY <1>1, <1>3, <1>4, <1>5 DEF Started, Chars
<1>7. Started' => IInv'
  BY StartedInv, PTL
<1>. QED BY <1>6, <1>7


LEMMA StutterInv == ASSUME IInv, UNCHANGED vars PROVE IInv'
<1>1. /\ disk' = disk /\ drive' = drive /\ irq' = irq /\ hd' = hd /\ hd_queue' = hd_queue
      /\ call' = call /\ logdiskbuf' = logdiskbuf /\ pos' = pos /\ log_buf' = log_buf
      /\ system_ready' = system_ready /\ todo' = todo /\ records' = records
      /\ written' = written /\ stopped' = stopped /\ crashes' = crashes
      /\ log_queue' = log_queue
  BY DEF vars
<1>2. TypeOK /\ TypeOK'
  <2>1. TypeOK
    BY DEF IInv
  <2>. QED BY <1>1, <2>1 DEF TypeOK
<1>3. ServesOne' /\ DriverInv'
  BY <1>1 DEF IInv, ServesOne, DriverInv, Opens
<1>4. DriveInv' /\ Transfers'
  BY <1>1 DEF IInv, DriveInv, Transfers, Commands, Served, ReadIn, Wrote, InLog
<1>5. Reporters'
  BY <1>1 DEF IInv, Reporters
<1>6. SamePlaces /\ Answers
  BY <1>1 DEF SamePlaces, Answers
<1>7. Len(log_queue') + Due' <= Len(log_queue) + Due
  <2>1. Due' = Due
    BY <1>1 DEF Due, HdDue, InLog
  <2>2. Len(log_queue) + Due \in Nat
    <3>1. Len(log_queue) \in Nat /\ Due \in Nat
      BY <1>2, LogQueue, DueIsNat
    <3>. QED BY <3>1
  <2>. QED BY <1>1, <2>1, <2>2
<1>. QED BY <1>1, <1>2, <1>3, <1>4, <1>5, <1>6, <1>7, DriverStep
-----------------------------------------------------------------------------
LEMMA NextInv == ASSUME IInv, OneAtATime, [Next]_vars PROVE IInv'
<1>1. CASE Driver
  BY <1>1, HdTakeInv, HdOpenCommandInv, HdOpenReportInv, HdOpenedInv, HdTransferInv,
     HdInterruptInv, HdReplyInv DEF Driver
<1>2. CASE DriveInterrupt
  BY <1>2, DriveInterruptInv
<1>3. CASE Logger
  <2>1. CASE disklogStep("LOG")
    BY <2>1, disklogStepInv DEF Client
  <2>. QED BY <1>3, <2>1, LogReceiveInv, LogCallsInv, LogReturnsInv DEF Logger
<1>4. CASE Filer
  <2>1. CASE disklogStep("FS")
    BY <2>1, disklogStepInv DEF Client
  <2>. QED BY <1>4, <2>1, OpenedInv, FsDumpInv, FsReportInv DEF Filer
<1>5. CASE FsFile
  BY <1>5, FsFileInv
<1>6. CASE Report("TTY") \/ Report("USER")
  BY <1>6, ReportInv
<1>7. CASE Crash
  BY <1>7, CrashInv
<1>8. CASE UNCHANGED vars
  BY <1>8, StutterInv
<1>. QED BY <1>1, <1>2, <1>3, <1>4, <1>5, <1>6, <1>7, <1>8 DEF Next

\* The invariant holds in every reachable state.
THEOREM Invariant == ASSUME OneAtATime PROVE Spec => []IInv
<1>1. Init => IInv
  BY InitInv
<1>2. IInv /\ [Next]_vars => IInv'
  BY NextInv
<1>. QED BY <1>1, <1>2, PTL DEF Spec

\* Whatever the drive, the driver, LOG and FS were doing when the power fails, the log on
\* the disk is good up to the position its header gives: disklog() writes the sectors of the
\* characters before the header, and the header before the last sector.
THEOREM HeaderCoversHolds == ASSUME OneAtATime PROVE Spec => []HeaderCovers
<1>1. IInv => HeaderCovers
  BY DEF IInv
<1>. QED BY <1>1, Invariant, PTL

\* When LOG waits for the next message and the power has not failed, every record it has
\* received is on the disk, in the order disklog() got them and none twice, or still kept in
\* log_buf, and the header covers what is on the disk.
LEMMA IdleIsComplete == IInv => LogComplete
<1> SUFFICES ASSUME IInv, ~Busy("LOG"), todo = <<>>, ~Frozen("LOG"), crashes = 0
             PROVE  /\ Header = IF written = <<>> THEN 0 ELSE Len(written) + 1
                    /\ Len(written \o log_buf) = records * RecordLen
                    /\ ToSet(written \o log_buf) = 1 .. records
  BY DEF LogComplete
<1>1. TypeOK /\ Request("LOG") /\ Lengths /\ OnDiskBelow /\ Begun
  BY DEF IInv, Client
<1>2. call["LOG"].pc = "none"
  BY <1>1 DEF Request, Busy
<1>3. ~InLog("LOG") /\ ~InLog("FS") /\ \A c \in Client : ~InLog(c)
  BY <1>2 DEF InLog, LogPcs, MapPcs, DataPcs, HeadPcs, Frozen, Client
<1>4. Pending("LOG") = <<>> /\ Pending("FS") = <<>>
  BY <1>3 DEF Pending, InLog, LogPcs
<1>5. Todo(1) = <<>> /\ Todo(2) = <<>>
  BY DEF Todo
<1>6. PICK W \in Seq(Nat), B \in Seq(Nat) : W = written /\ B = log_buf
  BY <1>1 DEF TypeOK
<1>7. Len(W \o B) = Len(W) + Len(B) /\ ToSet(W \o B) = ToSet(W) \cup ToSet(B)
  BY ConcatProperties, ToSetConcat
<1>8. Given = Len(W) + Len(B) /\ GivenSet = ToSet(W) \cup ToSet(B)
  <2>1. Len(<<>>) = 0 /\ ToSet(<<>>) = {} /\ Len(W) \in Nat /\ Len(B) \in Nat
    BY <1>1, RecordIs, LenProperties
  <2>2. Given = Len(W) + 0 + 0 + 0 + 0 + Len(B)
    BY <1>4, <1>5, <1>6, <2>1 DEF Given
  <2>3. GivenSet = ToSet(W) \cup ToSet(B)
    BY <1>4, <1>5, <1>6, <2>1 DEF GivenSet
  <2>. QED BY <2>1, <2>2, <2>3
<1>9. Given = Chars(records) /\ GivenSet = 1 .. records
  BY <1>1 DEF Lengths
<1>10. Header = IF written = <<>> THEN 0 ELSE Len(written) + 1
  <2>1. CASE pos > 0
    BY <1>1, <1>3, <2>1 DEF OnDiskBelow
  <2>2. CASE ~(pos > 0)
    <3>1. pos = 0
      BY <1>1, <2>2 DEF TypeOK
    <3>2. written = <<>> /\ Header = 0
      BY <1>1, <3>1 DEF Begun
    <3>. QED BY <3>2
  <2>. QED BY <2>1, <2>2
<1>. QED BY <1>6, <1>7, <1>8, <1>9, <1>10 DEF Chars

THEOREM LogCompleteHolds == ASSUME OneAtATime PROVE Spec => []LogComplete
<1>. QED BY IdleIsComplete, Invariant, PTL

=============================================================================
