----------------------------- MODULE Rendezvous -----------------------------
(***************************************************************************)
(* What the kernel's message passing promises its callers: SEND and        *)
(* RECEIVE meet.  A SEND returns in the very step in which its message is  *)
(* put in the buffer of the process it names, and never otherwise; a       *)
(* RECEIVE returns with the message of one sender it asked for, or with    *)
(* the notice of an interrupt.  Queues, flags, pointers and the moments    *)
(* inside msg_send are the business of module Ipc.                         *)
(***************************************************************************)
CONSTANTS Proc,         \* the processes of proc_table
          IntTasks,     \* the tasks that interrupts are reported to
          ANY,          \* RECEIVE from whoever comes
          INTERRUPT,    \* RECEIVE from the hardware; also the source of a HARD_INT
          NO_TASK       \* nobody

VARIABLES want,         \* what each process waits for: an Offer, a Listen or Idle
          mail,         \* who wrote the message in the buffer of each process
          pending       \* the tasks an interrupt waits for

vars == <<want, mail, pending>>

Idle         == [op |-> "run",     peer |-> NO_TASK]
Offering(d)  == [op |-> "send",    peer |-> d]
Waiting(src) == [op |-> "receive", peer |-> src]

Init ==
    /\ want = [p \in Proc |-> Idle]
    /\ mail = [p \in Proc |-> NO_TASK]
    /\ pending = {}

\* s calls SEND and waits until d takes the message.
Offer(s, d) ==
    /\ want[s] = Idle
    /\ want' = [want EXCEPT ![s] = Offering(d)]
    /\ UNCHANGED <<mail, pending>>

\* d calls RECEIVE and waits for src.
Listen(d, src) ==
    /\ want[d] = Idle
    /\ want' = [want EXCEPT ![d] = Waiting(src)]
    /\ mail' = [mail EXCEPT ![d] = NO_TASK]
    /\ UNCHANGED pending

\* The message of s reaches d, and both go on: d was waiting for s, or just
\* calls RECEIVE.
Deliver(s, d) ==
    /\ want[s] = Offering(d)
    /\ want[d] \in {Idle, Waiting(s), Waiting(ANY)}
    /\ want' = [want EXCEPT ![s] = Idle, ![d] = Idle]
    /\ mail' = [mail EXCEPT ![d] = s]
    /\ UNCHANGED pending

\* An interrupt reaches the task that waits for one, or is kept for it.
Raise(t) ==
    \/ /\ want[t] \in {Waiting(INTERRUPT), Waiting(ANY)}
       /\ want' = [want EXCEPT ![t] = Idle]
       /\ mail' = [mail EXCEPT ![t] = INTERRUPT]
       /\ UNCHANGED pending
    \/ /\ want[t] \notin {Waiting(INTERRUPT), Waiting(ANY)}
       /\ pending' = pending \cup {t}
       /\ UNCHANGED <<want, mail>>

\* t calls RECEIVE and gets the interrupt kept for it.
Collect(t) ==
    /\ want[t] = Idle
    /\ t \in pending
    /\ mail' = [mail EXCEPT ![t] = INTERRUPT]
    /\ pending' = pending \ {t}
    /\ UNCHANGED want

Next ==
    \/ \E s, d \in Proc : s # d /\ (Offer(s, d) \/ Deliver(s, d))
    \/ \E d \in Proc, src \in Proc \cup {ANY, INTERRUPT} : Listen(d, src)
    \/ \E t \in IntTasks : Raise(t) \/ Collect(t)

Spec == Init /\ [][Next]_vars
=============================================================================
