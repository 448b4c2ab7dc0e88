----------------------------- MODULE Scheduler ------------------------------
(***************************************************************************)
(* The multilevel feedback queues of kernel/proc.c: schedule, inqueue and  *)
(* outqueue, with the clock that charges the running process and the slots *)
(* of proc_table that fork and exit hand to the scheduler.                 *)
(*                                                                         *)
(* schedule() runs with interrupts enabled, and an interrupt may wake a    *)
(* task in the middle of it; it is modelled one loop iteration at a time.  *)
(* It is never entered twice: clock_handler returns when k_reenter # 0,    *)
(* which is also why only ticks that hit user code are steps here.         *)
(*                                                                         *)
(* Simplified: why a process blocks and who wakes it (module Ipc); HANGING *)
(* and FREE_SLOT are one value; the array of 50 pointers of a queue is a   *)
(* sequence, and a queue popped when it is empty stops the model.          *)
(***************************************************************************)
EXTENDS Naturals, Sequences

CONSTANTS Proc,         \* the slots of proc_table, numbered as there
          Native,       \* the slots kernel_main fills; the others are free for fork
          FIRST,        \* the first slot, TASK_TTY, which restart() runs before any schedule()
          IntTasks,     \* the tasks an interrupt may wake in the middle of schedule()
          MM,           \* TASK_MM, which creates and ends the other processes
          Priority,     \* Priority[p]: the clock ticks a process gets at a time
          TimePiece,    \* TimePiece[k]: the ticks after which it leaves queue k
          NO_PROC,      \* no slot
          Recycle       \* does fork take slots that a dead process left in a queue?

Level == 0 .. 2

ASSUME SchedulerAssumption ==
    /\ Proc \subseteq Nat
    /\ Native \subseteq Proc /\ IntTasks \subseteq Native /\ MM \in Native \ IntTasks
    /\ FIRST \in IntTasks /\ \A p \in Proc : FIRST <= p
    /\ Priority \in [Proc -> Nat \ {0}]
    /\ TimePiece \in [Level -> Nat \ {0}]
    /\ NO_PROC \notin Proc
    /\ Recycle \in BOOLEAN

VARIABLES p_flags,      \* p_flags[p]: "ready" for 0, "blocked", or "free"
          ticks, time,  \* what p may still use in all, and in its queue
          inqueue, isschedule, whichqueue,
          queue,        \* queue[k]: the processes of level k, the first to run first
          p_proc_ready, \* who runs, or ran when schedule() was entered
          pass,         \* where schedule() is
          forking       \* the do_fork in progress

vars == <<p_flags, ticks, time, inqueue, isschedule, whichqueue, queue, p_proc_ready, pass, forking>>
book == <<ticks, time, inqueue, isschedule, whichqueue, queue>>

-----------------------------------------------------------------------------
\* pass.skip counts the entries of the queue under scan that were visited and
\* not taken off its front; pass.count those still to visit.
Outside   == [pc |-> "user", slot |-> 0, queue_num |-> 0, skip |-> 0, count |-> 0]
Entered   == [Outside EXCEPT !.pc = "fill"]
Stop(why) == [Outside EXCEPT !.pc = why]

\* A faulty variant: the last entry is not visited.
ScanningAllButOne(k) ==
    [Outside EXCEPT !.pc = "scan", !.queue_num = k,
                    !.count = IF queue[k] = <<>> THEN 0 ELSE Len(queue[k]) - 1]

Scanning(k) == [Outside EXCEPT !.pc = "scan", !.queue_num = k, !.count = Len(queue[k])]

Visited(p) ==
    [pass EXCEPT !.count = @ - 1,
                 !.skip = IF whichqueue[p] = pass.queue_num THEN @ ELSE @ + 1]

NotForking == [parent |-> NO_PROC, child |-> NO_PROC, sent |-> FALSE]

Eligible(p) == p_flags[p] = "ready" /\ ~inqueue[p] /\ ~isschedule[p]

Init ==
    /\ p_flags = [p \in Proc |-> IF p \in Native THEN "ready" ELSE "free"]
    /\ ticks = [p \in Proc |-> IF p \in Native THEN Priority[p] ELSE 0]
    /\ time = [p \in Proc |-> 0]
    /\ inqueue = [p \in Proc |-> FALSE]
    /\ isschedule = [p \in Proc |-> FALSE]
    /\ whichqueue = [p \in Proc |-> 0]
    /\ queue = [k \in Level |-> <<>>]
    /\ p_proc_ready = FIRST
    /\ pass = Outside
    /\ forking = NotForking

-----------------------------------------------------------------------------
(* Ways into schedule().  Faulty variants of the definitions that follow them   *)
(* are named after their fault; no property below survives its variant.         *)

\* clock_handler: the running process is charged.
clock_handler ==
    /\ pass.pc = "user"
    /\ ticks' = [ticks EXCEPT ![p_proc_ready] = IF @ > 0 THEN @ - 1 ELSE 0]
    /\ time' = [time EXCEPT ![p_proc_ready] = IF @ > 0 THEN @ - 1 ELSE 0]
    /\ pass' = Entered
    /\ UNCHANGED <<p_flags, inqueue, isschedule, whichqueue, queue, p_proc_ready, forking>>

\* The running process sends or receives, and has to wait.
block ==
    /\ pass.pc = "user"
    /\ ~(p_proc_ready = MM /\ forking.sent)
    /\ p_flags' = [p_flags EXCEPT ![p_proc_ready] = "blocked"]
    /\ pass' = Entered
    /\ UNCHANGED <<book, p_proc_ready, forking>>

\* A process that waits is served by the one that runs, or by an interrupt.
unblock(p) ==
    /\ p_flags[p] = "blocked"
    /\ p \notin {forking.parent, forking.child}
    /\ pass.pc = "user" \/ (p \in IntTasks /\ pass.pc \in {"fill", "scan"})
    /\ p_flags' = [p_flags EXCEPT ![p] = "ready"]
    /\ UNCHANGED <<book, p_proc_ready, pass, forking>>

-----------------------------------------------------------------------------
(* schedule *)

EnqueueNoTicks(p) ==
    /\ pass.pc = "fill"
    /\ Eligible(p) /\ p >= pass.slot
    /\ \A q \in Proc : Eligible(q) /\ q >= pass.slot => p <= q
    /\ whichqueue' = [whichqueue EXCEPT ![p] = 0]
    /\ time' = [time EXCEPT ![p] = TimePiece[0]]
    /\ queue' = [queue EXCEPT ![0] = Append(@, p)]
    /\ inqueue' = [inqueue EXCEPT ![p] = TRUE]
    /\ isschedule' = [isschedule EXCEPT ![p] = TRUE]
    /\ pass' = [pass EXCEPT !.slot = p]
    /\ UNCHANGED <<p_flags, ticks, p_proc_ready, forking>>

\* A process that is new, or whose turn has come again, enters the first queue.
Enqueue(p) ==
    /\ pass.pc = "fill"
    /\ Eligible(p) /\ p >= pass.slot
    /\ \A q \in Proc : Eligible(q) /\ q >= pass.slot => p <= q
    /\ whichqueue' = [whichqueue EXCEPT ![p] = 0]
    /\ time' = [time EXCEPT ![p] = TimePiece[0]]
    /\ ticks' = [ticks EXCEPT ![p] = Priority[p]]
    /\ queue' = [queue EXCEPT ![0] = Append(@, p)]
    /\ inqueue' = [inqueue EXCEPT ![p] = TRUE]
    /\ isschedule' = [isschedule EXCEPT ![p] = TRUE]
    /\ pass' = [pass EXCEPT !.slot = p]
    /\ UNCHANGED <<p_flags, p_proc_ready, forking>>

StartScan ==
    /\ pass.pc = "fill"
    /\ \A p \in Proc : ~(Eligible(p) /\ p >= pass.slot)
    /\ pass' = Scanning(0)
    /\ UNCHANGED <<p_flags, book, p_proc_ready, forking>>

\* The process under the pointer of the scan.
Visiting(p) ==
    /\ pass.pc = "scan" /\ pass.count > 0
    /\ p = queue[pass.queue_num][pass.skip + 1]

\* outqueue takes the front of the queue p believes to be in, whoever that is ...
outqueue(p) == [queue EXCEPT ![whichqueue[p]] = SubSeq(@, 2, Len(@))]

\* ... and stops at assert(p->inqueue); the model stops when there is no front.
Left(p) ==
    IF ~inqueue[p] THEN Stop("assert")
    ELSE IF queue[whichqueue[p]] = <<>> THEN Stop("underflow")
    ELSE Visited(p)

\* A blocked process goes to the back of its queue.
VisitBlocked(p) ==
    /\ Visiting(p)
    /\ p_flags[p] # "ready"
    /\ queue' = [outqueue(p) EXCEPT ![whichqueue[p]] = Append(@, p)]
    /\ isschedule' = [isschedule EXCEPT ![p] = TRUE]
    /\ pass' = Left(p)
    /\ UNCHANGED <<p_flags, ticks, time, inqueue, whichqueue, p_proc_ready, forking>>

VisitFound(p) ==
    /\ Visiting(p)
    /\ p_flags[p] = "ready"
    /\ ticks[p] > 0 /\ time[p] > 0
    /\ p_proc_ready' = p
    /\ pass' = Outside
    /\ UNCHANGED <<p_flags, book, forking>>

VisitSpentByTime(p) ==
    /\ Visiting(p)
    /\ p_flags[p] = "ready"
    /\ time[p] = 0
    /\ queue' = outqueue(p)
    /\ inqueue' = [inqueue EXCEPT ![p] = FALSE]
    /\ pass' = Left(p)
    /\ UNCHANGED <<p_flags, ticks, time, isschedule, whichqueue, p_proc_ready, forking>>

\* p has used all its ticks: it leaves the queues until everybody has.
VisitSpent(p) ==
    /\ Visiting(p)
    /\ p_flags[p] = "ready"
    /\ ticks[p] = 0
    /\ queue' = outqueue(p)
    /\ inqueue' = [inqueue EXCEPT ![p] = FALSE]
    /\ pass' = Left(p)
    /\ UNCHANGED <<p_flags, ticks, time, isschedule, whichqueue, p_proc_ready, forking>>

DemotedTo(p) == IF whichqueue[p] < 2 THEN whichqueue[p] + 1 ELSE whichqueue[p]

VisitDemotedKeepsLevel(p) ==
    /\ Visiting(p)
    /\ p_flags[p] = "ready"
    /\ ticks[p] > 0 /\ time[p] = 0
    /\ queue' = [outqueue(p) EXCEPT ![DemotedTo(p)] = Append(@, p)]
    /\ time' = [time EXCEPT ![p] = TimePiece[DemotedTo(p)]]
    /\ isschedule' = [isschedule EXCEPT ![p] = TRUE]
    /\ pass' = Left(p)
    /\ UNCHANGED <<p_flags, ticks, inqueue, whichqueue, p_proc_ready, forking>>

\* p has used its time piece: it goes to the next queue, or to the back of the last.
VisitDemoted(p) ==
    /\ Visiting(p)
    /\ p_flags[p] = "ready"
    /\ ticks[p] > 0 /\ time[p] = 0
    /\ queue' = [outqueue(p) EXCEPT ![DemotedTo(p)] = Append(@, p)]
    /\ whichqueue' = [whichqueue EXCEPT ![p] = DemotedTo(p)]
    /\ time' = [time EXCEPT ![p] = TimePiece[DemotedTo(p)]]
    /\ isschedule' = [isschedule EXCEPT ![p] = TRUE]
    /\ pass' = Left(p)
    /\ UNCHANGED <<p_flags, ticks, inqueue, p_proc_ready, forking>>

NextQueue ==
    /\ pass.pc = "scan" /\ pass.count = 0
    /\ pass.queue_num < 2
    /\ pass' = Scanning(pass.queue_num + 1)
    /\ UNCHANGED <<p_flags, book, p_proc_ready, forking>>

UnlockNobody ==
    /\ pass.pc = "scan" /\ pass.count = 0
    /\ pass.queue_num = 2
    /\ pass' = Entered
    /\ UNCHANGED <<p_flags, book, p_proc_ready, forking>>

\* Nobody was found: all runnable processes may enter the first queue again.
Unlock ==
    /\ pass.pc = "scan" /\ pass.count = 0
    /\ pass.queue_num = 2
    /\ isschedule' = [p \in Proc |-> isschedule[p] /\ p_flags[p] # "ready"]
    /\ pass' = Entered
    /\ UNCHANGED <<p_flags, ticks, time, inqueue, whichqueue, queue, p_proc_ready, forking>>

-----------------------------------------------------------------------------
(* MM gives slots to the scheduler and takes them back. *)

MMRuns == pass.pc = "user" /\ p_proc_ready = MM

\* do_fork takes the first free slot and copies the parent into it, whatever
\* the scheduler keeps there included.
ForkCopy(parent, child) ==
    /\ MMRuns
    /\ forking = NotForking
    /\ parent \notin IntTasks \cup {MM} /\ p_flags[parent] = "blocked"
    /\ p_flags[child] = "free"
    /\ \A p \in Proc : p_flags[p] = "free" => child <= p
    /\ Recycle \/ ~inqueue[child]
    /\ p_flags' = [p_flags EXCEPT ![child] = "blocked"]
    /\ ticks' = [ticks EXCEPT ![child] = ticks[parent]]
    /\ time' = [time EXCEPT ![child] = time[parent]]
    /\ inqueue' = [inqueue EXCEPT ![child] = inqueue[parent]]
    /\ isschedule' = [isschedule EXCEPT ![child] = isschedule[parent]]
    /\ whichqueue' = [whichqueue EXCEPT ![child] = whichqueue[parent]]
    /\ forking' = [parent |-> parent, child |-> child, sent |-> FALSE]
    /\ UNCHANGED <<queue, p_proc_ready, pass>>

\* The message that is the birth of the child wakes it ...
ForkSend ==
    /\ MMRuns
    /\ forking # NotForking /\ ~forking.sent
    /\ p_flags' = [p_flags EXCEPT ![forking.child] = "ready"]
    /\ forking' = [forking EXCEPT !.sent = TRUE]
    /\ UNCHANGED <<book, p_proc_ready, pass>>

ForkDoneKeepsSchedule ==
    /\ MMRuns
    /\ forking.sent
    /\ inqueue' = [inqueue EXCEPT ![forking.child] = FALSE]
    /\ forking' = NotForking
    /\ UNCHANGED <<p_flags, ticks, time, isschedule, whichqueue, queue, p_proc_ready, pass>>

\* ... and only then is it marked as new to the scheduler.
ForkDone ==
    /\ MMRuns
    /\ forking.sent
    /\ inqueue' = [inqueue EXCEPT ![forking.child] = FALSE]
    /\ isschedule' = [isschedule EXCEPT ![forking.child] = FALSE]
    /\ forking' = NotForking
    /\ UNCHANGED <<p_flags, ticks, time, whichqueue, queue, p_proc_ready, pass>>

\* do_exit and do_kill: the process never runs again; its queue is not told.
Exit(p) ==
    /\ MMRuns
    /\ forking = NotForking
    /\ p \notin Native /\ p_flags[p] # "free"
    /\ p_flags' = [p_flags EXCEPT ![p] = "free"]
    /\ UNCHANGED <<book, p_proc_ready, pass, forking>>

-----------------------------------------------------------------------------
Schedule ==
    \/ StartScan \/ NextQueue \/ Unlock
    \/ \E p \in Proc :
          \/ Enqueue(p) \/ VisitBlocked(p) \/ VisitFound(p)
          \/ VisitSpent(p) \/ VisitDemoted(p)

Next ==
    \/ clock_handler \/ block \/ Schedule
    \/ \E p \in Proc : unblock(p) \/ Exit(p)
    \/ \E parent, child \in Proc : ForkCopy(parent, child)
    \/ ForkSend \/ ForkDone

Spec == Init /\ [][Next]_vars

\* The kernel's own code goes on, and the clock keeps interrupting user code.
FairSpec == Spec /\ WF_vars(Schedule) /\ SF_vars(clock_handler)

-----------------------------------------------------------------------------
(* Properties *)

\* Type invariant.
TypeOK ==
    /\ p_flags \in [Proc -> {"ready", "blocked", "free"}]
    /\ ticks \in [Proc -> Nat] /\ time \in [Proc -> Nat]
    /\ inqueue \in [Proc -> BOOLEAN] /\ isschedule \in [Proc -> BOOLEAN]
    /\ whichqueue \in [Proc -> Level]
    /\ queue \in [Level -> Seq(Proc)]
    /\ p_proc_ready \in Native \cup Proc
    /\ pass \in [pc : {"user", "fill", "scan", "assert", "underflow"},
                 slot : Nat, queue_num : Level, skip : Nat, count : Nat]
    /\ forking \in [parent : Proc \cup {NO_PROC}, child : Proc \cup {NO_PROC}, sent : BOOLEAN]

Occurs(p, k) == {i \in 1 .. Len(queue[k]) : queue[k][i] = p}

\* outqueue asserts p->inqueue and drops whatever is at the front of the queue that p names.  It drops
\* p because a process with inqueue set is in the queue whichqueue names, at one
\* place, and in no other, and one with inqueue cleared is in none.  The child of
\* a fork in progress wears its parent's fields and is in none.
QueuesConsistent ==
    /\ pass.pc # "assert"
    /\ \A p \in Proc, k \in Level :
          IF inqueue[p] /\ whichqueue[p] = k /\ p # forking.child
          THEN \E i \in 1 .. Len(queue[k]) : Occurs(p, k) = {i}
          ELSE Occurs(p, k) = {}

\* A runnable process that is in no queue has had its ticks of this round, is a
\* newcomer the next schedule() will take, or is a child that MM is still
\* making.  None is forgotten.
NobodyForgotten ==
    \A p \in Proc :
        p_flags[p] = "ready" /\ ~inqueue[p] => ticks[p] = 0 \/ ~isschedule[p]

\* A native process gets new ticks only when it has used up those it had (but
\* for the one that ran before the first schedule()).
NoEarlyRefill ==
    [][\A p \in Native \ {FIRST} : ticks'[p] > ticks[p] => ticks[p] = 0]_vars

CouldRun(p) == p_flags[p] = "ready" /\ inqueue[p] /\ p # forking.child /\ ticks[p] > 0 /\ time[p] > 0

\* schedule() leaves no process of a higher queue waiting for one of a lower
\* queue, unless an interrupt woke it while schedule() was at work.
HighestQueueRuns ==
    [][pass.pc = "scan" /\ pass'.pc = "user" =>
          \A p \in Proc \ IntTasks :
              CouldRun(p) => whichqueue[p_proc_ready'] <= whichqueue[p]]_vars

\* No runnable process starves, though others may never block: it is given the
\* processor, unless it is killed, or unless fork makes newcomers for ever, whom
\* schedule() takes before those that wait for the next round.
NoStarvation ==
    <>[](forking = NotForking) =>
        \A p \in Proc :
            p_flags[p] = "ready" ~> (pass.pc = "user" /\ p_proc_ready = p) \/ p_flags[p] # "ready"

\* schedule() returns as soon as some process can run (TestA always can).
ScheduleReturns ==
    pass.pc \in {"fill", "scan"} /\ (\E p \in Proc : p_flags[p] = "ready") ~> pass.pc = "user"
=============================================================================
