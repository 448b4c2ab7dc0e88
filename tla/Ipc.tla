-------------------------------- MODULE Ipc ---------------------------------
(***************************************************************************)
(* The message passing of the kernel: msg_send, msg_receive, deadlock and  *)
(* inform_int of kernel/proc.c, as the system call gate and the interrupt  *)
(* stubs of kernel/kernel.asm run them.                                    *)
(*                                                                         *)
(* One processor.  msg_receive disables interrupts and is one step.  The   *)
(* system call gate executes sti before it dispatches and msg_send does    *)
(* not disable interrupts again, so that an interrupt handler may run in   *)
(* the middle of it: between its test of the receiver, its assertion on    *)
(* the receiver's buffer, the copy, and the update of the receiver.  Those *)
(* are four steps, and cpu says which comes next.  No other process runs   *)
(* meanwhile: clock_handler returns before schedule() when k_reenter # 0.  *)
(*                                                                         *)
(* Which runnable process gets the processor is left open (module          *)
(* Scheduler), and so is what a process asks for next, except that a       *)
(* driver which started a command waits for its interrupt.                 *)
(***************************************************************************)
EXTENDS Naturals, Sequences

CONSTANTS Proc,         \* the processes: slots of proc_table in use
          DiskTasks,    \* drivers informed by an interrupt they asked for (TASK_HD)
          TickTasks,    \* tasks clock_handler informs at any tick (TASK_TTY)
          ANY, INTERRUPT, NO_TASK

ASSUME IpcAssumption ==
    /\ DiskTasks \subseteq Proc
    /\ TickTasks \subseteq Proc
    /\ DiskTasks \cap TickTasks = {}
    /\ ANY \notin Proc /\ INTERRUPT \notin Proc /\ NO_TASK \notin Proc
    /\ ANY # INTERRUPT /\ ANY # NO_TASK /\ INTERRUPT # NO_TASK

VARIABLES p_flags,      \* p_flags[p]: the bits SENDING and RECEIVING; runnable iff none
          p_msg,        \* p_msg[p]: the pointer to the message of a blocked p is not null
          p_recvfrom,   \* p_recvfrom[p]: whom p waits to receive from
          p_sendto,     \* p_sendto[p]: whom p waits to send to
          has_int_msg,  \* has_int_msg[p]: an interrupt came while p was not waiting for one
          q_sending,    \* q_sending[p]: the processes sending to p, linked by next_sending
          mail,         \* mail[p]: the source in p's message buffer after its last RECEIVE
          device,       \* device[t]: idle, working on a command of t, or has answered it
          cpu           \* where the kernel is: in a user's code, in msg_send, or stopped

vars == <<p_flags, p_msg, p_recvfrom, p_sendto, has_int_msg, q_sending, mail, device, cpu>>

-----------------------------------------------------------------------------
SENDING   == "SENDING"
RECEIVING == "RECEIVING"

User == [pc |-> "user", src |-> NO_TASK, dest |-> NO_TASK]

\* The kernel stops: an assertion failed, or panic() was called.
Stopped(why) == [pc |-> why, src |-> NO_TASK, dest |-> NO_TASK]

InSend(pc, s, d) == [pc |-> pc, src |-> s, dest |-> d]

\* p is in user code and may be given the processor.
Runnable(p) == cpu = User /\ p_flags[p] = {}

\* t started a command and has not yet returned from the interrupt_wait() for it.
InCommand(t) == t \in DiskTasks /\ device[t] # "idle"

Sending(p)         == SENDING \in p_flags[p]
Listening(d, srcs) == RECEIVING \in p_flags[d] /\ p_recvfrom[d] \in srcs

\* Faulty variants of the definitions that follow them are named after their
\* fault; no property below survives its variant.

\* A faulty variant: only the receiver itself is looked at.
DeadlockOneHop(src, dest) == Sending(dest) /\ p_sendto[dest] = src

\* What deadlock() finds by following p_sendto from dest as long as it meets
\* a process that is SENDING: does it come to src?  It does iff src is in
\* every set that holds dest and is closed under p_sendto.
Deadlock(src, dest) ==
    \A S \in SUBSET Proc :
        (dest \in S /\ \A p \in S : Sending(p) => p_sendto[p] \in S) => src \in S

\* The queue q without its i-th process.
DropAt(q, i) == [j \in 1 .. Len(q) - 1 |-> IF j < i THEN q[j] ELSE q[j + 1]]

\* A faulty variant: the first sender is taken, whoever it is.
UnlinkFirst(q, s) == Tail(q)

\* The queue q without process s.
Unlink(q, s) == DropAt(q, CHOOSE i \in 1 .. Len(q) : q[i] = s)

Init ==
    /\ p_flags = [p \in Proc |-> {}]
    /\ p_msg = [p \in Proc |-> FALSE]
    /\ p_recvfrom = [p \in Proc |-> NO_TASK]
    /\ p_sendto = [p \in Proc |-> NO_TASK]
    /\ has_int_msg = [p \in Proc |-> FALSE]
    /\ q_sending = [p \in Proc |-> <<>>]
    /\ mail = [p \in Proc |-> NO_TASK]
    /\ device = [t \in DiskTasks |-> "idle"]
    /\ cpu = User

-----------------------------------------------------------------------------
(* msg_send *)

MaySend(s, d) == Runnable(s) /\ s # d /\ ~InCommand(s)

\* The messaging graph would have a cycle: panic.
SendDeadlock(s, d) ==
    /\ MaySend(s, d)
    /\ Deadlock(s, d)
    /\ cpu' = Stopped("deadlock")
    /\ UNCHANGED <<p_flags, p_msg, p_recvfrom, p_sendto, has_int_msg, q_sending, mail, device>>

\* A faulty variant: d may wait for a message of somebody else.
SendMatchAnyReceiver(s, d) ==
    /\ MaySend(s, d)
    /\ ~Deadlock(s, d)
    /\ Listening(d, Proc \cup {ANY})
    /\ cpu' = InSend("matched", s, d)
    /\ UNCHANGED <<p_flags, p_msg, p_recvfrom, p_sendto, has_int_msg, q_sending, mail, device>>

\* d is waiting for the message: msg_send takes its first branch.
SendMatch(s, d) ==
    /\ MaySend(s, d)
    /\ ~Deadlock(s, d)
    /\ Listening(d, {s, ANY})
    /\ cpu' = InSend("matched", s, d)
    /\ UNCHANGED <<p_flags, p_msg, p_recvfrom, p_sendto, has_int_msg, q_sending, mail, device>>

\* A faulty variant: the newcomer goes to the front.
SendEnqueueFirst(s, d) ==
    /\ MaySend(s, d)
    /\ ~Deadlock(s, d)
    /\ ~Listening(d, {s, ANY})
    /\ p_flags' = [p_flags EXCEPT ![s] = @ \cup {SENDING}]
    /\ p_sendto' = [p_sendto EXCEPT ![s] = d]
    /\ p_msg' = [p_msg EXCEPT ![s] = TRUE]
    /\ q_sending' = [q_sending EXCEPT ![d] = <<s>> \o @]
    /\ UNCHANGED <<p_recvfrom, has_int_msg, mail, device, cpu>>

\* d is not waiting for the message: s is appended to the queue of d and blocks.
SendEnqueue(s, d) ==
    /\ MaySend(s, d)
    /\ ~Deadlock(s, d)
    /\ ~Listening(d, {s, ANY})
    /\ p_flags' = [p_flags EXCEPT ![s] = @ \cup {SENDING}]
    /\ p_sendto' = [p_sendto EXCEPT ![s] = d]
    /\ p_msg' = [p_msg EXCEPT ![s] = TRUE]
    /\ q_sending' = [q_sending EXCEPT ![d] = Append(@, s)]
    /\ UNCHANGED <<p_recvfrom, has_int_msg, mail, device, cpu>>

\* assert(p_dest->p_msg)
SendAssert ==
    /\ cpu.pc = "matched"
    /\ cpu' = IF p_msg[cpu.dest] THEN [cpu EXCEPT !.pc = "asserted"] ELSE Stopped("assert")
    /\ UNCHANGED <<p_flags, p_msg, p_recvfrom, p_sendto, has_int_msg, q_sending, mail, device>>

\* phys_copy: a null p_msg sends the bytes to the start of the segment of d,
\* where nobody looks for them.
SendCopy ==
    /\ cpu.pc = "asserted"
    /\ mail' = IF p_msg[cpu.dest] THEN [mail EXCEPT ![cpu.dest] = cpu.src] ELSE mail
    /\ cpu' = [cpu EXCEPT !.pc = "copied"]
    /\ UNCHANGED <<p_flags, p_msg, p_recvfrom, p_sendto, has_int_msg, q_sending, device>>

\* d has received the message; s returns to its code.
SendWake ==
    /\ cpu.pc = "copied"
    /\ p_msg' = [p_msg EXCEPT ![cpu.dest] = FALSE]
    /\ p_flags' = [p_flags EXCEPT ![cpu.dest] = @ \ {RECEIVING}]
    /\ p_recvfrom' = [p_recvfrom EXCEPT ![cpu.dest] = NO_TASK]
    /\ cpu' = User
    /\ UNCHANGED <<p_sendto, has_int_msg, q_sending, mail, device>>

-----------------------------------------------------------------------------
(* msg_receive *)

\* A faulty variant: a process may receive from itself.
MayReceiveFromSelf(r, src) == Runnable(r) /\ (InCommand(r) <=> src = INTERRUPT)

\* A driver inside a command waits for its interrupt; nobody else does.
MayReceive(r, src) ==
    /\ Runnable(r)
    /\ r # src
    /\ InCommand(r) <=> src = INTERRUPT

\* The interrupt that came earlier is handed over before any message.
ReceiveInt(r, src) ==
    /\ MayReceive(r, src)
    /\ has_int_msg[r]
    /\ src \in {ANY, INTERRUPT}
    /\ mail' = [mail EXCEPT ![r] = INTERRUPT]
    /\ has_int_msg' = [has_int_msg EXCEPT ![r] = FALSE]
    /\ device' = [t \in DiskTasks |-> IF t = r THEN "idle" ELSE device[t]]
    /\ UNCHANGED <<p_flags, p_msg, p_recvfrom, p_sendto, q_sending, cpu>>

\* A faulty variant: only RECEIVE from ANY looks at the queue.
IsSenderForAny(s, r, src) ==
    /\ src = ANY
    /\ q_sending[r] # <<>>
    /\ s = Head(q_sending[r])

\* The sender whose message RECEIVE takes: the first of the queue for ANY,
\* else src itself if it is sending to r.
IsSenderFor(s, r, src) ==
    \/ /\ src = ANY
       /\ q_sending[r] # <<>>
       /\ s = Head(q_sending[r])
    \/ /\ src = s
       /\ Sending(s)
       /\ p_sendto[s] = r

NoInt(r, src) == ~(has_int_msg[r] /\ src \in {ANY, INTERRUPT})

\* s was sending to r: its message is copied, s leaves the queue and runs.
ReceiveFrom(r, src, s) ==
    /\ MayReceive(r, src)
    /\ NoInt(r, src)
    /\ IsSenderFor(s, r, src)
    /\ q_sending' = [q_sending EXCEPT ![r] = Unlink(@, s)]
    /\ mail' = [mail EXCEPT ![r] = s]
    /\ p_msg' = [p_msg EXCEPT ![s] = FALSE]
    /\ p_sendto' = [p_sendto EXCEPT ![s] = NO_TASK]
    /\ p_flags' = [p_flags EXCEPT ![s] = @ \ {SENDING}]
    /\ UNCHANGED <<p_recvfrom, has_int_msg, device, cpu>>

\* Nobody is sending what r wants: r blocks.
ReceiveBlock(r, src) ==
    /\ MayReceive(r, src)
    /\ NoInt(r, src)
    /\ \A s \in Proc : ~IsSenderFor(s, r, src)
    /\ p_flags' = [p_flags EXCEPT ![r] = @ \cup {RECEIVING}]
    /\ p_msg' = [p_msg EXCEPT ![r] = TRUE]
    /\ p_recvfrom' = [p_recvfrom EXCEPT ![r] = src]
    /\ mail' = [mail EXCEPT ![r] = NO_TASK]
    /\ UNCHANGED <<p_sendto, has_int_msg, q_sending, device, cpu>>

-----------------------------------------------------------------------------
(* Interrupts *)

\* A faulty variant: a task that waits for ANY is not woken.
inform_intSleeping(t) ==
    \/ /\ Listening(t, {INTERRUPT})
       /\ mail' = [mail EXCEPT ![t] = INTERRUPT]
       /\ p_msg' = [p_msg EXCEPT ![t] = FALSE]
       /\ has_int_msg' = [has_int_msg EXCEPT ![t] = FALSE]
       /\ p_flags' = [p_flags EXCEPT ![t] = @ \ {RECEIVING}]
       /\ p_recvfrom' = [p_recvfrom EXCEPT ![t] = NO_TASK]
    \/ /\ ~Listening(t, {INTERRUPT})
       /\ has_int_msg' = [has_int_msg EXCEPT ![t] = TRUE]
       /\ UNCHANGED <<p_flags, p_msg, p_recvfrom, mail>>

\* inform_int: hand the interrupt to a task that waits for one, or remember it.
inform_int(t) ==
    \/ /\ Listening(t, {INTERRUPT, ANY})
       /\ mail' = [mail EXCEPT ![t] = INTERRUPT]
       /\ p_msg' = [p_msg EXCEPT ![t] = FALSE]
       /\ has_int_msg' = [has_int_msg EXCEPT ![t] = FALSE]
       /\ p_flags' = [p_flags EXCEPT ![t] = @ \ {RECEIVING}]
       /\ p_recvfrom' = [p_recvfrom EXCEPT ![t] = NO_TASK]
    \/ /\ ~Listening(t, {INTERRUPT, ANY})
       /\ has_int_msg' = [has_int_msg EXCEPT ![t] = TRUE]
       /\ UNCHANGED <<p_flags, p_msg, p_recvfrom, mail>>

Running == cpu.pc \notin {"deadlock", "assert"}

\* hd_handler: the device ends the command its driver gave it.
DiskInterrupt(t) ==
    /\ Running
    /\ device[t] = "working"
    /\ device' = [device EXCEPT
          ![t] = IF Listening(t, {INTERRUPT, ANY}) THEN "idle" ELSE "answered"]
    /\ inform_int(t)
    /\ UNCHANGED <<p_sendto, q_sending, cpu>>

\* clock_handler with key_pressed set: at any tick, nested in msg_send or not.
TickInterrupt(t) ==
    /\ Running
    /\ inform_int(t)
    /\ UNCHANGED <<p_sendto, q_sending, device, cpu>>

\* A driver gives its device a command that the device answers by an interrupt.
StartCommand(t) ==
    /\ Runnable(t)
    /\ device[t] = "idle"
    /\ device' = [device EXCEPT ![t] = "working"]
    /\ UNCHANGED <<p_flags, p_msg, p_recvfrom, p_sendto, has_int_msg, q_sending, mail, cpu>>

-----------------------------------------------------------------------------
Send(s, d) == SendDeadlock(s, d) \/ SendMatch(s, d) \/ SendEnqueue(s, d)

Receive(r, src) ==
    \/ ReceiveInt(r, src)
    \/ \E s \in Proc : ReceiveFrom(r, src, s)
    \/ ReceiveBlock(r, src)

Next ==
    \/ \E s, d \in Proc : Send(s, d)
    \/ SendAssert \/ SendCopy \/ SendWake
    \/ \E r \in Proc, src \in Proc \cup {ANY, INTERRUPT} : Receive(r, src)
    \/ \E t \in DiskTasks : DiskInterrupt(t) \/ StartCommand(t)
    \/ \E t \in TickTasks : TickInterrupt(t)

Spec == Init /\ [][Next]_vars

-----------------------------------------------------------------------------
(* Properties *)

\* Type invariant.  Nobody waits for himself: msg_send and msg_receive assert
\* that a process never names itself.
TypeOK ==
    /\ p_flags \in [Proc -> SUBSET {SENDING, RECEIVING}]
    /\ p_msg \in [Proc -> BOOLEAN]
    /\ p_recvfrom \in [Proc -> Proc \cup {ANY, INTERRUPT, NO_TASK}]
    /\ p_sendto \in [Proc -> Proc \cup {NO_TASK}]
    /\ \A p \in Proc : p_recvfrom[p] # p /\ p_sendto[p] # p
    /\ has_int_msg \in [Proc -> BOOLEAN]
    /\ q_sending \in [Proc -> Seq(Proc)]
    /\ mail \in [Proc -> Proc \cup {INTERRUPT, NO_TASK}]
    /\ device \in [DiskTasks -> {"idle", "working", "answered"}]
    /\ cpu \in [pc : {"user", "matched", "asserted", "copied", "deadlock", "assert"},
                src : Proc \cup {NO_TASK}, dest : Proc \cup {NO_TASK}]

\* The assertions on p_flags, p_msg, p_recvfrom and p_sendto all over msg_send,
\* msg_receive and inform_int: a process is sending or receiving, never both;
\* each flag goes with its peer field, and the message pointer is kept exactly
\* while the process is blocked.
FieldsMatchFlags ==
    \A p \in Proc :
        /\ p_flags[p] # {SENDING, RECEIVING}
        /\ SENDING \in p_flags[p] <=> p_sendto[p] # NO_TASK
        /\ RECEIVING \in p_flags[p] <=> p_recvfrom[p] # NO_TASK
        /\ p_msg[p] <=> p_flags[p] # {}

\* The queue of d holds exactly the processes blocked sending to d, each once:
\* no sender is forgotten by an unlink in the middle, none is left behind in a
\* queue after it was served.
QueueExact ==
    \A d \in Proc :
        /\ \A i, j \in 1 .. Len(q_sending[d]) :
               q_sending[d][i] = q_sending[d][j] => i = j
        /\ \A s \in Proc :
               p_sendto[s] = d <=> \E i \in 1 .. Len(q_sending[d]) : q_sending[d][i] = s

\* A sender never sleeps on a receiver that sleeps waiting for it: whichever
\* of msg_send and msg_receive comes second sees the first.
NoMissedRendezvous ==
    \A s, d \in Proc : p_sendto[s] = d => ~Listening(d, {s, ANY})

\* No set of processes all blocked sending to one another: the check that
\* deadlock() makes on a single chain keeps the whole messaging graph acyclic,
\* which is also why its loop ends.
NoCircularWait ==
    \A S \in SUBSET Proc :
        S # {} => \E p \in S : ~(Sending(p) /\ p_sendto[p] \in S)

\* No interrupt is lost.  has_int_msg is never left set on a task that waits
\* for interrupts; a driver's answered command is remembered until its
\* interrupt_wait() sees it; a driver that sleeps in interrupt_wait() has a
\* device that will still answer, and one with a command outstanding sleeps
\* nowhere else.
NoLostInterrupt ==
    /\ \A t \in Proc : has_int_msg[t] => ~Listening(t, {ANY, INTERRUPT})
    /\ \A t \in DiskTasks :
           /\ has_int_msg[t] <=> device[t] = "answered"
           /\ Listening(t, {INTERRUPT}) => device[t] = "working"
           /\ InCommand(t) => p_sendto[t] = NO_TASK /\ p_recvfrom[t] \in {NO_TASK, INTERRUPT}

\* The message in flight is for a process that waits for it, or that a tick has
\* woken meanwhile; its sender runs.
InFlight ==
    cpu.pc \in {"matched", "asserted", "copied"} =>
        /\ cpu.src \in Proc /\ cpu.dest \in Proc /\ cpu.src # cpu.dest
        /\ p_flags[cpu.src] = {}
        /\ ~InCommand(cpu.src)
        /\ \/ Listening(cpu.dest, {cpu.src, ANY})
           \/ cpu.dest \in TickTasks /\ p_flags[cpu.dest] = {}

\* assert(p_dest->p_msg) in msg_send, "dest is waiting for the msg": between the
\* test of the receiver's flags and the use of its buffer the receiver still
\* waits.
MatchedStillWaiting == cpu.pc # "assert"

\* First come, first served: a sender that waits for d is never overtaken in the
\* queue of d, neither by a sender that comes later nor by one already there.
NoOvertaking ==
    [][\A d \in Proc :
          \A i \in 1 .. Len(q_sending[d]), k \in 1 .. Len(q_sending'[d]) :
              q_sending[d][i] = q_sending'[d][k] =>
                  \A l \in 1 .. k - 1 :
                      \E h \in 1 .. i - 1 : q_sending[d][h] = q_sending'[d][l]]_vars

-----------------------------------------------------------------------------
(* The kernel implements rendezvous.  A message that msg_send has matched is  *)
(* offered until msg_send updates the receiver.                               *)

want ==
    [p \in Proc |->
        IF cpu.pc \in {"matched", "asserted", "copied"} /\ p = cpu.src
        THEN [op |-> "send", peer |-> cpu.dest]
        ELSE IF Sending(p) THEN [op |-> "send", peer |-> p_sendto[p]]
        ELSE IF RECEIVING \in p_flags[p] THEN [op |-> "receive", peer |-> p_recvfrom[p]]
        ELSE [op |-> "run", peer |-> NO_TASK]]

delivered ==
    [p \in Proc |-> IF cpu.pc = "copied" /\ p = cpu.dest THEN NO_TASK ELSE mail[p]]

pending == {t \in Proc : has_int_msg[t]}

R == INSTANCE Rendezvous WITH
        IntTasks <- DiskTasks, want <- want, mail <- delivered, pending <- pending

\* msg_send, msg_receive and inform_int keep the promise of module Rendezvous: a
\* SEND returns exactly when its message is in the buffer of the process it
\* names, which was asking for it.
ImplementsRendezvous == R!Spec
=============================================================================
