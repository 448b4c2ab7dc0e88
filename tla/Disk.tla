-------------------------------- MODULE Disk --------------------------------
(***************************************************************************)
(* The disk driver (kernel/hd.c) and its two clients: the task LOG, which  *)
(* writes what it is told to a strip of sectors behind the files           *)
(* (kernel/log.c, fs/disklog.c), and FS, which opens the drive, reads and  *)
(* writes files, reports each call to LOG and, after an UNLINK, dumps its  *)
(* tables into the same log with the same static buffer and position.      *)
(*                                                                         *)
(* A character of the log is the number of its record.  The disk changes   *)
(* sector by sector, and the power may fail between any two steps.         *)
(*                                                                         *)
(* Simplified: rendezvous are immediate when both sides wait (module Ipc); *)
(* TASK_SYS, asked for pids and the time, always answers; the contents of  *)
(* files and partition tables; a drive that does not answer in time.       *)
(***************************************************************************)
EXTENDS Naturals, Sequences, SequencesExt

CONSTANTS SectorSize,       \* characters in a sector
          LogSects,         \* NR_SECTS_FOR_LOG
          MAX_IO,           \* the sectors of the longest command, which is given as count 0
          MaxCount,         \* the longest transfer that FS asks for
          RecordLen,        \* characters of a record
          Tables,           \* partition tables on the drive
          DumpAnytime,      \* may FS dump while LOG is inside disklog()?
          MaxRecords,       \* bound: records sent to LOG
          MaxCrashes        \* bound: power failures

ASSUME DiskAssumption ==
    /\ SectorSize \in Nat \ {0} /\ LogSects \in Nat /\ RecordLen \in Nat \ {0}
    /\ MAX_IO \in Nat \ {0} /\ LogSects % MAX_IO = 0 /\ MaxCount \in 1 .. MAX_IO
    /\ Tables \in Nat /\ DumpAnytime \in BOOLEAN
    /\ MaxRecords \in Nat /\ MaxRecords >= 2 /\ MaxCrashes \in Nat  \* hd_open sends two
    \* the log never reaches its last sector, which every call of disklog() fills
    /\ 1 + MaxRecords * RecordLen <= (LogSects - 1) * SectorSize

VARIABLES disk,         \* the log, and the sector of the sector map that reserves it
          drive,        \* the command the drive works on
          irq,          \* an interrupt HD has not received
          hd,           \* where HD is and what it does for whom
          hd_queue,     \* who waits to send to HD
          call,         \* call[c]: the request of a client and where it returns to
          logdiskbuf, pos,              \* static in disklog()
          log_buf, system_ready, todo,  \* of task_log; todo: what it has yet to write
          log_queue,    \* who waits to send to LOG
          records, written,             \* what LOG has received, what disklog() was to write
          stopped, crashes

vars == <<disk, drive, irq, hd, hd_queue, call, logdiskbuf, pos, log_buf, system_ready, todo,
          log_queue, records, written, stopped, crashes>>
hardware == <<disk, drive, irq, hd>>
tasklog  == <<log_buf, system_ready, todo, log_queue, records>>

Client == {"LOG", "FS"}
SMAP   == LogSects          \* stands for the sector of the map
FILES  == LogSects + 1      \* stands for the sectors of files
Sector == 0 .. SMAP
Filled(c) == [k \in 0 .. SectorSize - 1 |-> c]

NoCommand == [op |-> "none", sect |-> FILES, left |-> 0, busy |-> FALSE, data |-> Filled(0)]
HdIdle    == [at |-> "receive", client |-> "FS", op |-> "none", sect |-> FILES, left |-> 0,
              script |-> <<>>]
NoCall    == [at |-> "idle", pc |-> "none", op |-> "none", sect |-> FILES, n |-> 0,
              str |-> <<>>]

\* FS starts with DEV_OPEN (init_fs).
Booting ==
    [c \in Client |-> IF c = "FS" THEN [NoCall EXCEPT !.at = "calling", !.pc = "open", !.op = "open"]
                      ELSE NoCall]

Init ==
    /\ disk = [s \in Sector |-> Filled(0)]
    /\ drive = NoCommand /\ irq = FALSE /\ hd = HdIdle /\ hd_queue = <<"FS">>
    /\ call = Booting
    /\ logdiskbuf = Filled(0) /\ pos = 0
    /\ log_buf = <<>> /\ system_ready = FALSE /\ todo = <<>> /\ log_queue = <<>>
    /\ records = 0 /\ written = <<>>
    /\ stopped = FALSE /\ crashes = 0
-----------------------------------------------------------------------------
\* The driver and the drive.

\* A faulty variant: cmd.count is taken as it is.
CountOfZero(n) == n % MAX_IO

\* cmd.count is a byte, and the drive takes 0 for MAX_IO sectors.
Count(n) == IF n % MAX_IO = 0 THEN MAX_IO ELSE n % MAX_IO

Command(op, sect, n) ==
    [op |-> op, sect |-> sect, left |-> Count(n), busy |-> op = "read", data |-> Filled(0)]

\* hd_open: identify the drive, report it, read the partition tables, report them.
OpenScript == <<"command", "log">> \o [t \in 1 .. Tables |-> "command"] \o <<"log">>

\* task_hd receives a request; hd_rdwt sends its command.
HdTake ==
    /\ ~stopped /\ hd.at = "receive" /\ hd_queue # <<>>
    /\ LET c == Head(hd_queue) r == call[c]
       IN  IF r.op = "open"
           THEN /\ hd' = [HdIdle EXCEPT !.at = "script", !.client = c, !.script = OpenScript]
                /\ UNCHANGED drive
           ELSE /\ hd' = [at |-> IF r.op = "read" THEN "interrupt" ELSE "transfer",
                          client |-> c, op |-> r.op, sect |-> r.sect, left |-> r.n,
                          script |-> <<>>]
                /\ drive' = Command(r.op, r.sect, r.n)
    /\ hd_queue' = Tail(hd_queue)
    /\ UNCHANGED <<disk, irq, call, logdiskbuf, pos, tasklog, written, stopped, crashes>>

\* hd_open and partition() read a sector, ...
HdOpenCommand ==
    /\ ~stopped /\ hd.at = "script" /\ hd.script # <<>> /\ Head(hd.script) = "command"
    /\ hd' = [hd EXCEPT !.at = "interrupt", !.op = "read", !.left = 1, !.script = Tail(@)]
    /\ drive' = Command("read", FILES, 1)
    /\ UNCHANGED <<disk, irq, hd_queue, call, logdiskbuf, pos, tasklog, written, stopped, crashes>>

\* ... print_identify and print_hdinfo SEND what it says to LOG, ...
HdOpenReport ==
    /\ ~stopped /\ hd.at = "script" /\ hd.script # <<>> /\ Head(hd.script) = "log"
    /\ hd' = [hd EXCEPT !.at = "log", !.script = Tail(@)]
    /\ log_queue' = Append(log_queue, "HD")
    /\ UNCHANGED <<disk, drive, irq, hd_queue, call, logdiskbuf, pos, log_buf, system_ready, todo,
                   records, written, stopped, crashes>>

\* ... and hd_open returns.
HdOpened ==
    /\ ~stopped /\ hd.at = "script" /\ hd.script = <<>>
    /\ hd' = [hd EXCEPT !.at = "reply"]
    /\ UNCHANGED <<disk, drive, irq, hd_queue, call, logdiskbuf, pos, tasklog, written, stopped,
                   crashes>>

\* hd_rdwt: port_write hands a sector of the client's buffer to the drive.
HdTransfer ==
    /\ ~stopped /\ hd.at = "transfer" /\ drive.left > 0
    /\ drive' = [drive EXCEPT !.busy = TRUE,
                              !.data = IF hd.sect = FILES THEN Filled(0) ELSE logdiskbuf]
    /\ hd' = [hd EXCEPT !.at = "interrupt"]
    /\ UNCHANGED <<disk, irq, hd_queue, call, logdiskbuf, pos, tasklog, written, stopped, crashes>>

\* The drive is done with a sector; hd_handler.
DriveInterrupt ==
    /\ drive.busy
    /\ IF drive.op = "write" /\ drive.sect # FILES
       THEN disk' = [disk EXCEPT ![drive.sect] = drive.data]
       ELSE UNCHANGED disk
    /\ drive' = [drive EXCEPT !.busy = FALSE, !.left = @ - 1,
                              !.sect = IF @ = FILES THEN FILES ELSE @ + 1,
                              !.data = IF drive.op = "read" /\ drive.sect # FILES
                                       THEN disk[drive.sect] ELSE @]
    /\ irq' = TRUE
    /\ UNCHANGED <<hd, hd_queue, call, logdiskbuf, pos, tasklog, written, stopped, crashes>>

\* interrupt_wait returns: the sector is copied to the client's buffer, or is written.
HdInterrupt ==
    /\ ~stopped /\ hd.at = "interrupt" /\ irq
    /\ irq' = FALSE
    /\ hd' = [hd EXCEPT !.left = @ - 1,
                        !.at = IF hd.left > 1
                               THEN IF hd.op = "read" THEN "interrupt" ELSE "transfer"
                               ELSE IF call[hd.client].op = "open" THEN "script" ELSE "reply"]
    /\ IF hd.op = "read"
       THEN /\ logdiskbuf' = IF hd.sect = FILES THEN logdiskbuf ELSE drive.data
            /\ drive' = [drive EXCEPT !.busy = drive.left > 0]
       ELSE UNCHANGED <<logdiskbuf, drive>>
    /\ UNCHANGED <<disk, hd_queue, call, pos, tasklog, written, stopped, crashes>>

HdReply ==
    /\ ~stopped /\ hd.at = "reply"
    /\ call' = [call EXCEPT ![hd.client].at = "answered"]
    /\ hd' = HdIdle
    /\ UNCHANGED <<disk, drive, irq, hd_queue, logdiskbuf, pos, tasklog, written, stopped, crashes>>
-----------------------------------------------------------------------------
\* disklog(), for LOG or FS.

\* rw_sector: c asks HD and goes on at pc.
Ask(c, op, sect, n, pc, str) ==
    /\ call' = [call EXCEPT ![c] = [at |-> "calling", pc |-> pc, op |-> op, sect |-> sect,
                                    n |-> n, str |-> str]]
    /\ hd_queue' = Append(hd_queue, c)

\* Behind the part for the first call: str goes to the log from pos on.
WriteFrom(c, str, p) ==
    /\ Ask(c, "read", p \div SectorSize, 1, "data read", str)
    /\ written' = written \o str

disklog(c, str) ==
    IF pos = 0
    THEN Ask(c, "read", SMAP, 1, "smap read", str) /\ UNCHANGED written
    ELSE WriteFrom(c, str, pos)

Returned(c, pc) == ~stopped /\ call[c].at = "answered" /\ call[c].pc = pc

\* FS dumps with interrupts off and takes the ticks of LOG, which stays where it is.
Frozen(c) == c = "LOG" /\ call["FS"].pc \notin {"none", "file", "open", "report", "reporting"}

\* The assertion that the bits of the log are free yet.
MapRead(c) ==
    /\ Returned(c, "smap read")
    /\ IF logdiskbuf # Filled(0)
       THEN stopped' = TRUE /\ UNCHANGED <<logdiskbuf, call, hd_queue>>
       ELSE /\ logdiskbuf' = Filled(1)
            /\ Ask(c, "write", SMAP, 1, "smap write", call[c].str)
            /\ UNCHANGED stopped
    /\ UNCHANGED <<pos, written>>

\* MEMSET_LOG_SECTS.
MapWritten(c) ==
    /\ Returned(c, "smap write")
    /\ pos' = 1
    /\ logdiskbuf' = Filled(0)
    /\ Ask(c, "write", 0, MAX_IO, "fill", call[c].str)
    /\ UNCHANGED <<written, stopped>>

ChunkFilled(c) ==
    /\ Returned(c, "fill")
    /\ IF call[c].sect + MAX_IO < LogSects
       THEN Ask(c, "write", call[c].sect + MAX_IO, MAX_IO, "fill", call[c].str) /\ UNCHANGED written
       ELSE WriteFrom(c, call[c].str, pos)
    /\ UNCHANGED <<logdiskbuf, pos, stopped>>

Off == pos % SectorSize
Part(str) == IF Len(str) < SectorSize - Off THEN Len(str) ELSE SectorSize - Off

\* A faulty variant: what the sector held before is not kept.
BufferWithNew(str) ==
    [k \in 0 .. SectorSize - 1 |->
        IF k \in Off .. Off + Part(str) - 1
        THEN str[k - Off + 1] ELSE 0]

BufferWith(str) ==
    [k \in 0 .. SectorSize - 1 |->
        IF k \in Off .. Off + Part(str) - 1
        THEN str[k - Off + 1] ELSE logdiskbuf[k]]

DataRead(c) ==
    /\ Returned(c, "data read")
    /\ logdiskbuf' = BufferWith(call[c].str)
    /\ Ask(c, "write", call[c].sect, 1, "data write", call[c].str)
    /\ UNCHANGED <<pos, written, stopped>>

DataWritten(c) ==
    /\ Returned(c, "data write")
    /\ pos' = pos + Part(call[c].str)
    /\ LET rest == SubSeq(call[c].str, Part(call[c].str) + 1, Len(call[c].str))
       IN  IF rest # <<>>
           THEN Ask(c, "read", call[c].sect + 1, 1, "data read", rest)
           ELSE Ask(c, "read", 0, 1, "head read", <<>>)
    /\ UNCHANGED <<logdiskbuf, written, stopped>>

HeadRead(c) ==
    /\ Returned(c, "head read")
    /\ logdiskbuf' = [logdiskbuf EXCEPT ![0] = pos]
    /\ Ask(c, "write", 0, 1, "head write", <<>>)
    /\ UNCHANGED <<pos, written, stopped>>

HeadWritten(c) ==
    /\ Returned(c, "head write")
    /\ logdiskbuf' = [k \in 0 .. SectorSize - 1 |-> IF k = 0 THEN logdiskbuf[0] ELSE 0]
    /\ Ask(c, "write", LogSects - 1, 1, "last write", <<>>)
    /\ UNCHANGED <<pos, written, stopped>>

disklogStep(c) ==
    /\ ~Frozen(c)
    /\ \/ MapRead(c) \/ MapWritten(c) \/ ChunkFilled(c) \/ DataRead(c) \/ DataWritten(c)
       \/ HeadRead(c) \/ HeadWritten(c)
    /\ UNCHANGED <<hardware, tasklog, crashes>>
-----------------------------------------------------------------------------
\* task_log.

Busy(c)     == call[c].at # "idle"
Record      == [k \in 1 .. RecordLen |-> records + 1]
LogReceives == ~stopped /\ ~Busy("LOG") /\ todo = <<>> /\ log_queue # <<>> /\ ~Frozen("LOG")

\* Who was blocked in SEND goes on.
Released(who) ==
    /\ hd' = IF who = "HD" THEN [hd EXCEPT !.at = "script"] ELSE hd
    /\ call' = IF who = "FS" THEN [call EXCEPT !["FS"] = NoCall] ELSE call

\* A faulty variant: the buffer is kept when it has been written.
DevLogKept ==
    /\ todo' = IF system_ready THEN <<log_buf \o Record>> ELSE <<>>
    /\ log_buf' = log_buf \o Record
    /\ UNCHANGED system_ready

\* DEV_LOG is kept until another message has shown that the system is ready.
DevLog ==
    /\ IF system_ready
       THEN todo' = <<log_buf \o Record>> /\ log_buf' = <<>>
       ELSE todo' = <<>> /\ log_buf' = log_buf \o Record
    /\ UNCHANGED system_ready

\* PROC_LOG, FILE_LOG* and SYS_LOG: what the buffer holds goes first, if the system was ready.
OtherLog ==
    /\ IF system_ready /\ log_buf # <<>>
       THEN todo' = <<log_buf, Record>> /\ log_buf' = <<>>
       ELSE todo' = <<Record>> /\ UNCHANGED log_buf
    /\ system_ready' = TRUE

LogReceive ==
    /\ LogReceives
    /\ log_queue' = Tail(log_queue)
    /\ records' = records + 1
    /\ Released(Head(log_queue))
    /\ IF Head(log_queue) \in {"HD", "TTY"} THEN DevLog ELSE OtherLog
    /\ UNCHANGED <<disk, drive, irq, hd_queue, logdiskbuf, pos, written, stopped, crashes>>

\* task_log calls disklog() ...
LogCalls ==
    /\ ~stopped /\ ~Busy("LOG") /\ todo # <<>> /\ ~Frozen("LOG")
    /\ disklog("LOG", Head(todo))
    /\ todo' = Tail(todo)
    /\ UNCHANGED <<hardware, logdiskbuf, pos, log_buf, system_ready, log_queue, records,
                   stopped, crashes>>

\* ... which returns.
LogReturns ==
    /\ Returned("LOG", "last write") /\ ~Frozen("LOG")
    /\ call' = [call EXCEPT !["LOG"] = NoCall]
    /\ UNCHANGED <<hardware, hd_queue, logdiskbuf, pos, tasklog, written, stopped, crashes>>

\* Records that FS may still send for what it has in hand.
Reserved == IF Busy("FS") /\ "FS" \notin ToSet(log_queue) THEN 2 ELSE 0

\* The keyboard (get_byte_from_kb_buf) reports each byte, and the processes (lib/)
\* some of their calls, once the file system has answered.
Report(who) ==
    /\ ~stopped /\ who \notin ToSet(log_queue)
    /\ who = "USER" => call["FS"].pc # "open"
    /\ records + Len(log_queue) + Reserved < MaxRecords
    /\ log_queue' = Append(log_queue, who)
    /\ UNCHANGED <<hardware, hd_queue, call, logdiskbuf, pos, log_buf, system_ready, todo,
                   records, written, stopped, crashes>>
-----------------------------------------------------------------------------
\* task_fs.
Opened ==
    /\ Returned("FS", "open")
    /\ call' = [call EXCEPT !["FS"] = NoCall]
    /\ UNCHANGED <<hardware, hd_queue, logdiskbuf, pos, tasklog, written, stopped, crashes>>

\* A process calls: FS reads or writes a file ...
FsFile ==
    /\ ~stopped /\ ~Busy("FS") /\ records + Len(log_queue) + 1 < MaxRecords
    /\ \E op \in {"read", "write"}, n \in 1 .. MaxCount : Ask("FS", op, FILES, n, "file", <<>>)
    /\ UNCHANGED <<hardware, logdiskbuf, pos, tasklog, written, stopped, crashes>>

\* ... dumps its tables if the call was UNLINK (dump_fd_graph) ...
FsDump ==
    /\ Returned("FS", "file")
    /\ DumpAnytime \/ (~Busy("LOG") /\ todo = <<>>)
    /\ records' = records + 1
    /\ disklog("FS", Record)
    /\ UNCHANGED <<hardware, logdiskbuf, pos, log_buf, system_ready, todo, log_queue, stopped,
                   crashes>>

\* ... and answers the process and sends SYS_LOG.
FsReport ==
    /\ Returned("FS", "file") \/ Returned("FS", "last write")
    /\ call' = [call EXCEPT !["FS"] = [NoCall EXCEPT !.at = "sending"]]
    /\ log_queue' = Append(log_queue, "FS")
    /\ UNCHANGED <<hardware, hd_queue, logdiskbuf, pos, log_buf, system_ready, todo, records,
                   written, stopped, crashes>>

\* The power fails, and the system starts again with what is on the disk.  The drive
\* has written the sector it worked on, or has not.
Crash ==
    /\ crashes < MaxCrashes
    /\ crashes' = crashes + 1
    /\ drive' = NoCommand /\ irq' = FALSE /\ hd' = HdIdle /\ hd_queue' = <<"FS">>
    /\ call' = Booting
    /\ logdiskbuf' = Filled(0) /\ pos' = 0
    /\ log_buf' = <<>> /\ system_ready' = FALSE /\ todo' = <<>> /\ log_queue' = <<>>
    /\ stopped' = FALSE
    /\ UNCHANGED <<disk, records, written>>

Driver == HdTake \/ HdOpenCommand \/ HdOpenReport \/ HdOpened
          \/ HdTransfer \/ HdInterrupt \/ HdReply
Logger == LogReceive \/ LogCalls \/ disklogStep("LOG") \/ LogReturns
Filer  == Opened \/ FsDump \/ FsReport \/ disklogStep("FS")

Next ==
    \/ Driver \/ DriveInterrupt \/ Logger \/ Filer
    \/ FsFile \/ Report("TTY") \/ Report("USER") \/ Crash

Spec == Init /\ [][Next]_vars

\* The drive works and the scheduler runs the tasks; nobody is bound to call, and
\* the power is not bound to fail.
FairSpec ==
    Spec /\ WF_vars(Driver) /\ WF_vars(DriveInterrupt) /\ WF_vars(Logger) /\ WF_vars(Filer)
-----------------------------------------------------------------------------
Header     == disk[0][0]
OnDisk(k)  == disk[k \div SectorSize][k % SectorSize]

\* Whenever the power fails, the log on the disk is good up to the position that its
\* header gives: every character below it is there, in the order disklog() got them.
HeaderCovers ==
    Header > 0 => /\ Header - 1 <= Len(written)
                  /\ \A k \in 1 .. Header - 1 : OnDisk(k) = written[k]

\* When LOG waits for the next message, every record it has received is on the disk,
\* once, and the header covers it, but for the device records it still keeps.
LogComplete ==
    ~Busy("LOG") /\ todo = <<>> /\ ~Frozen("LOG") /\ crashes = 0 =>
        /\ Header = IF written = <<>> THEN 0 ELSE Len(written) + 1
        /\ Len(written \o log_buf) = records * RecordLen
        /\ ToSet(written \o log_buf) = 1 .. records

\* Whoever reports to LOG goes on: LOG, FS and the driver never wait for each other
\* in a circle, and no transfer waits for an interrupt that does not come.
ReportersServed ==
    \A who \in {"HD", "TTY", "USER", "FS"} :
        who \in ToSet(log_queue) ~> who \notin ToSet(log_queue) \/ stopped
=============================================================================
