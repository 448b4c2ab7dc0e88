-------------------------------- MODULE Tty --------------------------------
(***************************************************************************)
(* One terminal: the keyboard interrupt and its ring of scan codes, the    *)
(* task TTY that decodes, echoes and hands over the line (kernel/tty.c,    *)
(* kernel/keyboard.c), the part of the file system task that passes on the *)
(* reads and writes of its device, and the processes that ask for them.    *)
(*                                                                         *)
(* A read does not wait inside FS: TTY notes it and lets FS suspend the    *)
(* process, and sends RESUME_PROC when the line is there.  Both tasks SEND *)
(* to each other, and the kernel panics when they do so at the same time.  *)
(*                                                                         *)
(* Left out: break codes and the shift keys, which put nothing in a line;  *)
(* the keys that scroll or switch consoles; the log message per byte; the  *)
(* limit of 256 keys between two echoes.                                   *)
(***************************************************************************)
EXTENDS Naturals, Sequences, SequencesExt

CONSTANTS Proc,             \* the processes that have the terminal open
          Writers,          \* those of them that print
          TASK_TTY, NO_TASK,
          Chars,            \* the scan codes of printable keys
          ENTER, BACKSPACE, \* two more codes of one byte
          EXT,              \* 0xE0: the next byte is the code of another key
          Counts,           \* how much a process asks for
          KB_IN_BYTES,      \* the size of the ring
          MaxBytes,         \* bound: scan codes the keyboard sends
          SharedReads       \* may a process read a terminal that another one reads?

ASSUME TtyAssumption ==
    /\ Writers \subseteq Proc
    /\ TASK_TTY \notin Proc /\ NO_TASK \notin Proc
    /\ Chars # {} /\ {ENTER, BACKSPACE, EXT} \cap Chars = {}
    /\ ENTER # BACKSPACE /\ EXT \notin {ENTER, BACKSPACE}
    /\ Counts \subseteq Nat \ {0}
    /\ KB_IN_BYTES \in Nat \ {0} /\ MaxBytes \in Nat
    /\ SharedReads \in BOOLEAN

VARIABLES sending,      \* the rest of a code of several bytes
          kb_in,        \* the ring
          key_pressed, has_int_msg,
          tty,          \* what tty_table keeps of the terminal
          task,         \* where TTY is
          fs,           \* where FS is, and the request it has in hand
          queue,        \* who waits to send to FS, the first to be served first
          proc,         \* proc[p]: "running", "sending", "calling" or "suspended"
          wants,        \* wants[p]: the request of p
          arrived,      \* every scan code that found room in the ring
          taken, from   \* how many of them TTY has read, now and before its request

vars == <<sending, kb_in, key_pressed, has_int_msg, tty, task, fs, queue, proc, wants,
          arrived, taken, from>>
keys == <<sending, kb_in, key_pressed, arrived>>

NoRequest == [type |-> "none", cnt |-> 0]
FsIdle    == [at |-> "receive", src |-> NO_TASK]

Init ==
    /\ sending = <<>> /\ kb_in = <<>> /\ key_pressed = FALSE /\ has_int_msg = FALSE
    /\ tty = [ibuf |-> <<>>, procnr |-> NO_TASK, left_cnt |-> 0, line |-> <<>>]
    /\ task = "read keys"
    /\ fs = FsIdle
    /\ queue = <<>>
    /\ proc = [p \in Proc |-> "running"]
    /\ wants = [p \in Proc |-> NoRequest]
    /\ arrived = <<>> /\ taken = 0 /\ from = 0
-----------------------------------------------------------------------------
Keys == Chars \cup {ENTER, BACKSPACE}

\* A byte that finds the ring full is gone.
keyboard_handler(scan_code) ==
    /\ key_pressed' = TRUE
    /\ IF Len(kb_in) < KB_IN_BYTES
       THEN /\ kb_in' = Append(kb_in, scan_code)
            /\ arrived' = Append(arrived, scan_code)
       ELSE UNCHANGED <<kb_in, arrived>>
    /\ UNCHANGED <<has_int_msg, tty, task, fs, queue, proc, wants, taken, from>>

\* The user presses a key of one scan code, or of EXT and another one (the keypad's
\* Enter; a right Alt key, say, for the others) ...
Press ==
    /\ sending = <<>> /\ task # "halted"
    /\ \E k \in Keys :
         \E code \in {<<k>>, <<EXT, k>>} :
            /\ code # <<EXT, BACKSPACE>>
            /\ Len(arrived) + Len(code) <= MaxBytes
            /\ keyboard_handler(Head(code))
            /\ sending' = Tail(code)

\* ... which comes with an interrupt of its own.
SecondByte ==
    /\ sending # <<>>
    /\ keyboard_handler(Head(sending))
    /\ sending' = Tail(sending)

\* clock_handler, inform_int.
clock_handler ==
    /\ key_pressed /\ ~has_int_msg /\ task # "halted"
    /\ has_int_msg' = TRUE
    /\ UNCHANGED <<keys, tty, task, fs, queue, proc, wants, taken, from>>
-----------------------------------------------------------------------------
\* The key a code stands for.  Of the codes behind EXT, that of the keypad's Enter
\* alone is a key of a line.
Decoded(ext, k) == IF ext /\ k # ENTER THEN <<>> ELSE <<k>>

\* put_key for each of these keys.
in_process(ks) == [tty EXCEPT !.ibuf = @ \o ks]

TakeByte ==
    /\ kb_in' = Tail(kb_in)
    /\ taken' = taken + 1
    /\ UNCHANGED <<sending, key_pressed, has_int_msg, fs, queue, proc, wants, arrived, from>>

\* keyboard_read.  Behind EXT it waits for the second byte, however long.
keyboard_read ==
    /\ task = "read keys" /\ kb_in # <<>>
    /\ TakeByte
    /\ IF Head(kb_in) = EXT
       THEN task' = "second byte" /\ UNCHANGED tty
       ELSE /\ tty' = in_process(Decoded(FALSE, Head(kb_in)))
            /\ UNCHANGED task

get_second_byte ==
    /\ task = "second byte" /\ kb_in # <<>>
    /\ TakeByte
    /\ tty' = in_process(Decoded(TRUE, Head(kb_in)))
    /\ task' = "read keys"

KeysRead ==
    /\ task = "read keys" /\ kb_in = <<>>
    /\ task' = "echo"
    /\ UNCHANGED <<keys, has_int_msg, tty, fs, queue, proc, wants, taken, from>>

\* A faulty variant: BACKSPACE does not give the room back.
EditedWithoutRoom(t, ch) ==
    IF ch \in Chars THEN [t EXCEPT !.line = Append(@, ch), !.left_cnt = @ - 1]
    ELSE IF ch = BACKSPACE /\ t.line # <<>>
    THEN [t EXCEPT !.line = SubSeq(@, 1, Len(@) - 1)]
    ELSE t

\* tty_dev_write: one key for the process that reads.
Edited(t, ch) ==
    IF ch \in Chars THEN [t EXCEPT !.line = Append(@, ch), !.left_cnt = @ - 1]
    ELSE IF ch = BACKSPACE /\ t.line # <<>>
    THEN [t EXCEPT !.line = SubSeq(@, 1, Len(@) - 1), !.left_cnt = @ + 1]
    ELSE t

Complete(t, ch) == ch = ENTER \/ t.left_cnt = 0

\* deadlock(): each of the two waits in SEND for the other.
SendToFS ==
    IF fs.at = "send to TTY"
    THEN task' = "halted" /\ UNCHANGED queue
    ELSE task' = "resume" /\ queue' = Append(queue, TASK_TTY)

tty_dev_write ==
    /\ task = "echo" /\ tty.ibuf # <<>>
    /\ LET ch == Head(tty.ibuf)
           t  == IF tty.left_cnt > 0 THEN Edited(tty, ch) ELSE tty
       IN  /\ tty' = [t EXCEPT !.ibuf = Tail(@)]
           /\ IF tty.left_cnt > 0 /\ Complete(t, ch)
              THEN SendToFS
              ELSE UNCHANGED <<task, queue>>
    /\ UNCHANGED <<keys, has_int_msg, fs, proc, wants, taken, from>>

EchoDone ==
    /\ task = "echo" /\ tty.ibuf = <<>>
    /\ task' = "receive"
    /\ UNCHANGED <<keys, has_int_msg, tty, fs, queue, proc, wants, taken, from>>

\* A faulty variant: TTY goes back to RECEIVE without another look at the ring.
ReceiveIntOnly ==
    /\ task = "receive" /\ has_int_msg
    /\ has_int_msg' = FALSE
    /\ key_pressed' = FALSE
    /\ UNCHANGED <<sending, kb_in, arrived, tty, fs, queue, proc, wants, taken, from, task>>

\* RECEIVE of a HARD_INT.
ReceiveInt ==
    /\ task = "receive" /\ has_int_msg
    /\ has_int_msg' = FALSE
    /\ key_pressed' = FALSE
    /\ task' = "read keys"
    /\ UNCHANGED <<sending, kb_in, arrived, tty, fs, queue, proc, wants, taken, from>>

\* tty_do_read: the request takes the place of any other.
Noting(p) == [tty EXCEPT !.procnr = p, !.left_cnt = wants[p].cnt, !.line = <<>>]

\* A faulty variant: the request to write takes that place too.
WritingOverReader(p) == [tty EXCEPT !.procnr = p]

\* tty_do_write prints and leaves a request to read alone.
Writing(p) == tty

\* RECEIVE of a request of FS, which is answered at once: tty_do_read, tty_do_write.
ReceiveRequest ==
    /\ task = "receive" /\ ~has_int_msg /\ fs.at = "send to TTY"
    /\ task' = "read keys"
    /\ fs' = FsIdle
    /\ IF wants[fs.src].type = "DEV_READ"
       THEN /\ tty' = Noting(fs.src)
            /\ proc' = [proc EXCEPT ![fs.src] = "suspended"]
            /\ from' = taken
            /\ UNCHANGED wants
       ELSE /\ proc' = [proc EXCEPT ![fs.src] = "running"]
            /\ wants' = [wants EXCEPT ![fs.src] = NoRequest]
            /\ tty' = Writing(fs.src)
            /\ UNCHANGED from
    /\ UNCHANGED <<keys, has_int_msg, queue, taken>>
-----------------------------------------------------------------------------
\* A process asks FS to read or write the terminal.
Ask(p, type, n) ==
    /\ proc[p] = "running" /\ task # "halted"
    /\ type = "DEV_READ" /\ ~SharedReads => \A q \in Proc : wants[q].type # "DEV_READ"
    /\ proc' = [proc EXCEPT ![p] = "sending"]
    /\ wants' = [wants EXCEPT ![p] = [type |-> type, cnt |-> n]]
    /\ queue' = Append(queue, p)
    /\ UNCHANGED <<keys, has_int_msg, tty, task, fs, taken, from>>

Read(p)  == \E n \in Counts : Ask(p, "DEV_READ", n)
Write(p) == p \in Writers /\ Ask(p, "DEV_WRITE", 0)

\* task_fs and do_rdwt: FS passes on the request of a process.
FsRequest ==
    /\ task # "halted" /\ fs.at = "receive" /\ queue # <<>> /\ Head(queue) # TASK_TTY
    /\ fs' = [at |-> "send to TTY", src |-> Head(queue)]
    /\ proc' = [proc EXCEPT ![Head(queue)] = "calling"]
    /\ queue' = Tail(queue)
    /\ task' = IF task = "resume" THEN "halted" ELSE task
    /\ UNCHANGED <<keys, has_int_msg, tty, wants, taken, from>>

\* TTY sets tty_left_cnt to 0 when its SEND has returned.
LineTaken == [tty EXCEPT !.left_cnt = 0]

\* task_fs, RESUME_PROC: FS answers the process that TTY names.
FsResume ==
    /\ task # "halted" /\ fs.at = "receive" /\ queue # <<>> /\ Head(queue) = TASK_TTY
    /\ queue' = Tail(queue)
    /\ proc' = [proc EXCEPT ![tty.procnr] = "running"]
    /\ wants' = [wants EXCEPT ![tty.procnr] = NoRequest]
    /\ tty' = LineTaken
    /\ task' = "echo"
    /\ UNCHANGED <<keys, has_int_msg, fs, taken, from>>

TaskStep == keyboard_read \/ get_second_byte \/ KeysRead \/ tty_dev_write \/ EchoDone
            \/ ReceiveInt \/ ReceiveRequest

Next ==
    \/ Press \/ SecondByte \/ clock_handler \/ TaskStep \/ FsRequest \/ FsResume
    \/ \E p \in Proc : Read(p) \/ Write(p)

Spec == Init /\ [][Next]_vars

\* Interrupts come, and the scheduler runs the two tasks (module Scheduler).  No
\* user is bound to press a key and no process to ask for anything.
FairSpec ==
    /\ Spec
    /\ WF_vars(SecondByte) /\ WF_vars(clock_handler)
    /\ WF_vars(TaskStep) /\ WF_vars(FsRequest) /\ WF_vars(FsResume)
-----------------------------------------------------------------------------
Codes == Keys \cup {EXT}

TypeOK ==
    /\ sending \in Seq(Codes) /\ kb_in \in Seq(Codes) /\ Len(kb_in) <= KB_IN_BYTES
    /\ key_pressed \in BOOLEAN /\ has_int_msg \in BOOLEAN
    /\ tty \in [ibuf : Seq(Keys), procnr : Proc \cup {NO_TASK}, left_cnt : Nat,
                line : Seq(Chars)]
    /\ task \in {"read keys", "second byte", "echo", "resume", "receive", "halted"}
    /\ fs \in {FsIdle} \cup [at : {"send to TTY"}, src : Proc]
    /\ queue \in Seq(Proc \cup {TASK_TTY})
    /\ proc \in [Proc -> {"running", "sending", "calling", "suspended"}]
    /\ wants \in [Proc -> {NoRequest} \cup [type : {"DEV_READ"}, cnt : Counts]
                                     \cup [type : {"DEV_WRITE"}, cnt : {0}]]
    /\ arrived \in Seq(Codes) /\ taken \in Nat /\ from \in Nat

\* One more scan code behind those decoded so far.
DecodeStep(acc, c) ==
    IF ~acc.ext /\ c = EXT THEN [acc EXCEPT !.ext = TRUE]
    ELSE [ext |-> FALSE, keys |-> acc.keys \o Decoded(acc.ext, c)]

decode[codes \in Seq(Codes)] ==
    IF codes = <<>> THEN [ext |-> FALSE, keys |-> <<>>]
    ELSE DecodeStep(decode[Front(codes)], Last(codes))

\* What a user types: the keys of a string of scan codes ...
Typed(codes) == decode[codes].keys

\* One more key behind those of a line, for a process that asks for n characters.
EditStep(acc, k, n) ==
    IF acc.complete THEN acc
    ELSE IF k = ENTER THEN [acc EXCEPT !.complete = TRUE]
    ELSE IF k = BACKSPACE
    THEN [acc EXCEPT !.line = SubSeq(@, 1, IF @ = <<>> THEN 0 ELSE Len(@) - 1)]
    ELSE [line |-> Append(acc.line, k), complete |-> Len(acc.line) + 1 = n]

\* ... and the first line in it, for such a process: it ends with ENTER or with the
\* n-th character, and BACKSPACE takes back the last one.
FirstLine(typed, n) ==
    LET edit[ks \in Seq(Keys)] ==
          IF ks = <<>> THEN [line |-> <<>>, complete |-> FALSE]
          ELSE EditStep(edit[Front(ks)], Last(ks), n)
    IN  edit[typed]

Suspended(p) == proc[p] = "suspended"

\* The keys that TTY has read for its request and has not yet echoed are in ibuf.
SinceRequest(last) == Typed(SubSeq(arrived, from + 1, last))

\* What a process gets is what was typed since its request, in that order and as
\* edited, whatever interrupts, other processes and the limits of the buffers do
\* between the key and the line: no key is lost, doubled or given to a later line.
LineAsTyped ==
    \A p \in Proc : Suspended(p) =>
        LET typed == SinceRequest(taken)
            line  == FirstLine(SubSeq(typed, 1, Len(typed) - Len(tty.ibuf)), wants[p].cnt)
        IN  tty.line = line.line /\ (task \in {"resume", "halted"} <=> line.complete)

\* A process is suspended only as long as TTY knows it: its request is noted and
\* open, or the message that resumes it is on its way.
SuspendedIsKnown ==
    \A p \in Proc : Suspended(p) =>
        /\ tty.procnr = p
        /\ tty.left_cnt > 0 \/ task \in {"resume", "halted"}

\* The second byte of a code found no room in the ring, and no key follows.
LostByte == task = "second byte" /\ kb_in = <<>> /\ sending = <<>>

\* When the line of a process has arrived, TTY finds it, also when the keys came
\* while it was busy, and resumes the process, unless the kernel halts in deadlock()
\* or keyboard_read waits for a byte that the ring had no room for.
LineArrived(p) ==
    Suspended(p) /\ FirstLine(SinceRequest(Len(arrived)), wants[p].cnt).complete

ReaderAnswered ==
    \A p \in Proc : LineArrived(p) ~> ~Suspended(p) \/ task = "halted" \/ LostByte
=============================================================================
