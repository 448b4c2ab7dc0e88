--------------------------------- MODULE Mm ---------------------------------
(***************************************************************************)
(* The life of the user processes: TASK_MM of mm/main.c with do_fork,      *)
(* do_exit, do_kill, do_wait and cleanup of mm/forkexit.c and the control  *)
(* of do_exec, and the processes that call it with send_recv(BOTH, ...).   *)
(*                                                                         *)
(* BOTH is a SEND and then a RECEIVE, and the processor may go to MM in    *)
(* between.  MM serves one request at a time, but it waits for FS in the   *)
(* middle, and for the process it sends to; then the others run.           *)
(*                                                                         *)
(* Simplified: the kernel's rendezvous is what module Ipc shows it to be;  *)
(* a call to any other task is a call to FS that is blocked until FS       *)
(* answers; memory, names, registers and exit statuses are left out.       *)
(***************************************************************************)
EXTENDS Naturals, Sequences

CONSTANTS Proc,         \* the slots of proc_table of INIT and of what fork makes
          InitProc,     \* the slot of Init(), which is there from the start
          NO_TASK,      \* no process
          Kinds,        \* the requests that processes make
          Prompt,       \* requests whose callers reach RECEIVE before MM looks at them
          KillAnybody   \* may a victim of kill be running, in a call, or dead?

ASSUME MmAssumption ==
    /\ Proc \subseteq Nat /\ InitProc \in Proc /\ NO_TASK \notin Proc
    /\ Kinds \subseteq {"FORK", "EXIT", "WAIT", "EXEC", "KILL"}
    /\ Prompt \subseteq Kinds /\ KillAnybody \in BOOLEAN

VARIABLES p_flags,      \* p_flags[p]: a set of flag bits; p may run iff there is none
          p_parent,
          stage,        \* stage[p]: "run", "sent" (a request to MM, RECEIVE not yet called),
                        \* "mm" (blocked in RECEIVE from MM) or "fs" (in a call to FS)
          msg,          \* msg[p]: the request in the buffer of p
          known,        \* known[p]: schedule() can find p (it is, or will be put, in a queue)
          q_sending,    \* who is sending to MM
          mm            \* what MM is doing

vars == <<p_flags, p_parent, stage, msg, known, q_sending, mm>>

-----------------------------------------------------------------------------
Nothing == [type |-> "NONE", PID |-> NO_TASK]

Requests ==
    [type : {"FORK", "EXIT", "WAIT", "EXEC"}, PID : {NO_TASK}]
        \cup [type : {"KILL"}, PID : Proc \ {InitProc}]

\* MM's message loop: no request is being served.
Loop ==
    [pc |-> "loop", src |-> NO_TASK, victim |-> NO_TASK, to |-> NO_TASK, dead |-> NO_TASK,
     then |-> "loop", next |-> "loop"]

Stop(why) == [Loop EXCEPT !.pc = why]

\* MM sends to process p, and goes on at pc when p has the message.
SendTo(p, pc) == [mm EXCEPT !.pc = "send", !.to = p, !.then = pc]

\* cleanup(): MM tells process p that z has died, and then frees the slot of z.
CleanUp(z, p, pc) ==
    [mm EXCEPT !.pc = "send", !.to = p, !.dead = z, !.then = "free", !.next = pc]

Serving(pc) == mm.pc = pc

Running == mm.pc \notin {"assert", "deadlock"}

\* p waits for MM in the RECEIVE that ends its call.
AtReceive(p) == "RECEIVING" \in p_flags[p] /\ stage[p] = "mm"

Free(p)     == p_flags[p] = {"FREE_SLOT"}
Alive(p)    == p_flags[p] \cap {"FREE_SLOT", "HANGING"} = {}
MayRun(p)   == Running /\ p_flags[p] = {} /\ known[p]
Children(p) == {c \in Proc : p_parent[c] = p}

First(c, S) == c \in S /\ \A d \in S : c <= d

\* Slots that were never used hold zeros, and 0 is TASK_TTY: they have no parent here.
Init ==
    /\ p_flags = [p \in Proc |-> IF p = InitProc THEN {} ELSE {"FREE_SLOT"}]
    /\ p_parent = [p \in Proc |-> NO_TASK]
    /\ stage = [p \in Proc |-> "run"]
    /\ msg = [p \in Proc |-> Nothing]
    /\ known = [p \in Proc |-> p = InitProc]
    /\ q_sending = <<>>
    /\ mm = Loop

-----------------------------------------------------------------------------
(* A user process: fork, exit, wait, kill and execv of lib/ and command/, and  *)
(* calls to FS.                                                                *)

\* Init() forks the shells and then only waits.
InitMay(type) == type = "WAIT" \/ (type = "FORK" /\ msg[InitProc].type # "WAIT")

\* Faulty variants of the definitions that follow them are named after their
\* fault; no property below survives its variant.

\* MM is blocked sending to p: should p send to MM, deadlock() finds the cycle.
SentByMM(p) == Serving("blocked") /\ mm.to = p

\* The SEND half of a request.  MM takes it at once when it waits for one; in a
\* cycle the kernel panics.
Ask(p, m) ==
    /\ MayRun(p)
    /\ stage[p] = "run"
    /\ m.type \in Kinds
    /\ p = InitProc => InitMay(m.type)
    /\ msg' = [msg EXCEPT ![p] = m]
    /\ stage' = [stage EXCEPT ![p] = "sent"]
    /\ \/ /\ Serving("listen")
          /\ mm' = [mm EXCEPT !.pc = "dispatch", !.src = p]
          /\ UNCHANGED <<p_flags, q_sending>>
       \/ /\ ~Serving("listen")
          /\ p_flags' = [p_flags EXCEPT ![p] = {"SENDING"}]
          /\ q_sending' = Append(q_sending, p)
          /\ mm' = IF SentByMM(p) THEN Stop("deadlock") ELSE mm
    /\ UNCHANGED <<p_parent, known>>

\* The RECEIVE half.
AwaitReply(p) ==
    /\ MayRun(p)
    /\ stage[p] = "sent"
    /\ \/ /\ SentByMM(p)
          /\ stage' = [stage EXCEPT ![p] = "run"]
          /\ mm' = [mm EXCEPT !.pc = mm.then, !.to = NO_TASK]
          /\ UNCHANGED p_flags
       \/ /\ ~SentByMM(p)
          /\ stage' = [stage EXCEPT ![p] = "mm"]
          /\ p_flags' = [p_flags EXCEPT ![p] = {"RECEIVING"}]
          /\ UNCHANGED mm
    /\ UNCHANGED <<p_parent, msg, known, q_sending>>

\* p waits for FS: for a key, a disk block, or its turn.
CallFS(p) ==
    /\ MayRun(p)
    /\ stage[p] = "run"
    /\ stage' = [stage EXCEPT ![p] = "fs"]
    /\ p_flags' = [p_flags EXCEPT ![p] = {"RECEIVING"}]
    /\ UNCHANGED <<p_parent, msg, known, q_sending, mm>>

\* FS answers: unblock() asserts that nothing else holds p back.  To a slot that
\* was freed meanwhile FS is still sending when all else is over.
FSAnswers(p) ==
    /\ Running
    /\ stage[p] = "fs" /\ "RECEIVING" \in p_flags[p]
    /\ \/ /\ p_flags[p] = {"RECEIVING"}
          /\ p_flags' = [p_flags EXCEPT ![p] = {}]
          /\ stage' = [stage EXCEPT ![p] = "run"]
          /\ UNCHANGED mm
       \/ /\ p_flags[p] # {"RECEIVING"}
          /\ mm' = Stop("assert")
          /\ UNCHANGED <<p_flags, stage>>
    /\ UNCHANGED <<p_parent, msg, known, q_sending>>

-----------------------------------------------------------------------------
(* task_mm *)

\* RECEIVE ANY: the first that is sending, or wait for one.
Receive ==
    /\ Serving("loop")
    /\ \/ /\ q_sending = <<>>
          /\ mm' = [Loop EXCEPT !.pc = "listen"]
          /\ UNCHANGED <<p_flags, q_sending>>
       \/ /\ q_sending # <<>>
          /\ p_flags[Head(q_sending)] = {"SENDING"}
          /\ p_flags' = [p_flags EXCEPT ![Head(q_sending)] = {}]
          /\ q_sending' = Tail(q_sending)
          /\ mm' = [Loop EXCEPT !.pc = "dispatch", !.src = Head(q_sending)]
       \/ /\ q_sending # <<>>
          /\ p_flags[Head(q_sending)] # {"SENDING"}
          /\ mm' = Stop("assert")
          /\ UNCHANGED <<p_flags, q_sending>>
    /\ UNCHANGED <<p_parent, stage, msg, known>>

\* SEND: the message is delivered, or MM is blocked until to calls RECEIVE.
Send ==
    /\ Serving("send")
    /\ \/ /\ AtReceive(mm.to) /\ p_flags[mm.to] = {"RECEIVING"}
          /\ p_flags' = [p_flags EXCEPT ![mm.to] = {}]
          /\ stage' = [stage EXCEPT ![mm.to] = "run"]
          /\ mm' = [mm EXCEPT !.pc = mm.then, !.to = NO_TASK]
       \/ /\ AtReceive(mm.to) /\ p_flags[mm.to] # {"RECEIVING"}
          /\ mm' = Stop("assert")
          /\ UNCHANGED <<p_flags, stage>>
       \/ /\ ~AtReceive(mm.to)
          /\ mm' = [mm EXCEPT !.pc = "blocked"]
          /\ UNCHANGED <<p_flags, stage>>
    /\ UNCHANGED <<p_parent, msg, known, q_sending>>

\* MM looks at a request of this type.
Request(type) ==
    /\ Serving("dispatch")
    /\ msg[mm.src].type = type
    /\ type \in Prompt => AtReceive(mm.src)

-----------------------------------------------------------------------------
(* do_fork *)

FreeSlots == {p \in Proc : Free(p)}

ForkFails ==
    /\ Request("FORK")
    /\ FreeSlots = {}
    /\ mm' = SendTo(mm.src, "loop")
    /\ UNCHANGED <<p_flags, p_parent, stage, msg, known, q_sending>>

\* The child is a copy of the parent as it is at this moment, its queue fields
\* included: the parent is in a queue, so that schedule() believes the child to
\* be in one, unless the parent can run but has used up its ticks.
ForkCopy(c) ==
    /\ Request("FORK")
    /\ First(c, FreeSlots)
    /\ p_flags' = [p_flags EXCEPT ![c] = p_flags[mm.src]]
    /\ stage' = [stage EXCEPT ![c] = stage[mm.src]]
    /\ msg' = [msg EXCEPT ![c] = msg[mm.src]]
    /\ p_parent' = [p_parent EXCEPT ![c] = mm.src]
    /\ \E outOfTicks \in BOOLEAN :
          /\ outOfTicks => p_flags[mm.src] = {}
          /\ known' = [known EXCEPT ![c] = outOfTicks]
    /\ mm' = [mm EXCEPT !.pc = "fork_fs", !.victim = c]
    /\ UNCHANGED q_sending

\* FS has counted the child's files: the birth of the child.
ForkBirth ==
    /\ Serving("fork_fs")
    /\ mm' = SendTo(mm.victim, "fork_done")
    /\ UNCHANGED <<p_flags, p_parent, stage, msg, known, q_sending>>

ForkDoneNoReply ==
    /\ Serving("fork_done")
    /\ known' = [known EXCEPT ![mm.victim] = TRUE]
    /\ mm' = Loop
    /\ UNCHANGED <<p_flags, p_parent, stage, msg, q_sending>>

\* The child has its 0; schedule() may find it; the parent gets its PID.
ForkDone ==
    /\ Serving("fork_done")
    /\ known' = [known EXCEPT ![mm.victim] = TRUE]
    /\ mm' = SendTo(mm.src, "loop")
    /\ UNCHANGED <<p_flags, p_parent, stage, msg, q_sending>>

-----------------------------------------------------------------------------
(* do_exec: MM asks FS for the file, and replaces the image of the caller.     *)

ExecDispatch ==
    /\ Request("EXEC")
    /\ mm' = [mm EXCEPT !.pc = "exec_fs"]
    /\ UNCHANGED <<p_flags, p_parent, stage, msg, known, q_sending>>

\* No such file.
ExecFails ==
    /\ Serving("exec_fs")
    /\ mm' = SendTo(mm.src, "loop")
    /\ UNCHANGED <<p_flags, p_parent, stage, msg, known, q_sending>>

\* The caller will go on at the entry of the new image: a RECEIVE that it has
\* not called yet it will never call.
Exec ==
    /\ Serving("exec_fs")
    /\ stage' = [stage EXCEPT ![mm.src] = IF AtReceive(mm.src) THEN @ ELSE "run"]
    /\ mm' = SendTo(mm.src, "loop")
    /\ UNCHANGED <<p_flags, p_parent, msg, known, q_sending>>

-----------------------------------------------------------------------------
(* do_exit and do_kill, which differ in whose end it is and in the reply       *)

ExitDispatch ==
    /\ \/ /\ Request("EXIT")
          /\ mm' = [mm EXCEPT !.pc = "exit_fs", !.victim = mm.src]
       \/ /\ Request("KILL")
          /\ mm' = [mm EXCEPT !.pc = "exit_fs", !.victim = msg[mm.src].PID]
    /\ UNCHANGED <<p_flags, p_parent, stage, msg, known, q_sending>>

IsWaiting(p) == p \in Proc /\ "WAITING" \in p_flags[p]

\* The victims that kill may have: any, or those blocked in wait().
KillTaken(v) == KillAnybody \/ (Alive(v) /\ IsWaiting(v))

ExitAlwaysHangs ==
    /\ Serving("exit_fs")
    /\ msg[mm.src].type = "KILL" => KillTaken(mm.victim)
    /\ p_flags' = [p_flags EXCEPT ![mm.victim] = @ \cup {"HANGING"}]
    /\ mm' = [mm EXCEPT !.pc = "adopt"]
    /\ UNCHANGED <<p_parent, stage, msg, known, q_sending>>

ExitKeepsWaiting ==
    /\ Serving("exit_fs")
    /\ msg[mm.src].type = "KILL" => KillTaken(mm.victim)
    /\ \/ /\ IsWaiting(p_parent[mm.victim])
          /\ UNCHANGED p_flags
          /\ mm' = CleanUp(mm.victim, p_parent[mm.victim], "adopt")
       \/ /\ ~IsWaiting(p_parent[mm.victim])
          /\ p_flags' = [p_flags EXCEPT ![mm.victim] = @ \cup {"HANGING"}]
          /\ mm' = [mm EXCEPT !.pc = "adopt"]
    /\ UNCHANGED <<p_parent, stage, msg, known, q_sending>>

\* FS has closed the files.  A parent that waits is told, else the process hangs.
Exit ==
    /\ Serving("exit_fs")
    /\ msg[mm.src].type = "KILL" => KillTaken(mm.victim)
    /\ \/ /\ IsWaiting(p_parent[mm.victim])
          /\ p_flags' = [p_flags EXCEPT ![p_parent[mm.victim]] = @ \ {"WAITING"}]
          /\ mm' = CleanUp(mm.victim, p_parent[mm.victim], "adopt")
       \/ /\ ~IsWaiting(p_parent[mm.victim])
          /\ p_flags' = [p_flags EXCEPT ![mm.victim] = @ \cup {"HANGING"}]
          /\ mm' = [mm EXCEPT !.pc = "adopt"]
    /\ UNCHANGED <<p_parent, stage, msg, known, q_sending>>

\* The end of cleanup(): the parent has its message.
Release ==
    /\ Serving("free")
    /\ p_flags' = [p_flags EXCEPT ![mm.dead] = {"FREE_SLOT"}]
    /\ mm' = [mm EXCEPT !.pc = mm.next, !.dead = NO_TASK]
    /\ UNCHANGED <<p_parent, stage, msg, known, q_sending>>

\* INIT becomes the parent of the next child; it is told if it waits and the
\* child hangs.
Adopt(c) ==
    /\ Serving("adopt")
    /\ First(c, Children(mm.victim))
    /\ p_parent' = [p_parent EXCEPT ![c] = InitProc]
    /\ \/ /\ IsWaiting(InitProc) /\ "HANGING" \in p_flags[c]
          /\ p_flags' = [p_flags EXCEPT ![InitProc] = @ \ {"WAITING"}]
          /\ mm' = CleanUp(c, InitProc, "adopt")
       \/ /\ ~(IsWaiting(InitProc) /\ "HANGING" \in p_flags[c])
          /\ UNCHANGED <<p_flags, mm>>
    /\ UNCHANGED <<stage, msg, known, q_sending>>

AdoptDoneEarly ==
    /\ Serving("adopt")
    /\ mm' = IF msg[mm.src].type = "KILL" THEN SendTo(mm.src, "loop") ELSE Loop
    /\ UNCHANGED <<p_flags, p_parent, stage, msg, known, q_sending>>

\* Nobody answers a process that exited; the killer gets an answer.
AdoptDone ==
    /\ Serving("adopt")
    /\ Children(mm.victim) = {}
    /\ mm' = IF msg[mm.src].type = "KILL" THEN SendTo(mm.src, "loop") ELSE Loop
    /\ UNCHANGED <<p_flags, p_parent, stage, msg, known, q_sending>>

-----------------------------------------------------------------------------
(* do_wait *)

Zombies(p) == {c \in Children(p) : "HANGING" \in p_flags[c]}

WaitReaps(c) ==
    /\ Request("WAIT")
    /\ First(c, Zombies(mm.src))
    /\ mm' = CleanUp(c, mm.src, "loop")
    /\ UNCHANGED <<p_flags, p_parent, stage, msg, known, q_sending>>

WaitBlocksFirst ==
    /\ Request("WAIT")
    /\ Children(mm.src) # {}
    /\ p_flags' = [p_flags EXCEPT ![mm.src] = @ \cup {"WAITING"}]
    /\ mm' = Loop
    /\ UNCHANGED <<p_parent, stage, msg, known, q_sending>>

WaitBlocks ==
    /\ Request("WAIT")
    /\ Zombies(mm.src) = {} /\ Children(mm.src) # {}
    /\ p_flags' = [p_flags EXCEPT ![mm.src] = @ \cup {"WAITING"}]
    /\ mm' = Loop
    /\ UNCHANGED <<p_parent, stage, msg, known, q_sending>>

WaitFails ==
    /\ Request("WAIT")
    /\ Children(mm.src) = {}
    /\ mm' = SendTo(mm.src, "loop")
    /\ UNCHANGED <<p_flags, p_parent, stage, msg, known, q_sending>>

-----------------------------------------------------------------------------
MMStep ==
    \/ Receive \/ Send
    \/ ForkFails \/ ForkBirth \/ ForkDone
    \/ ExecDispatch \/ ExecFails \/ Exec
    \/ ExitDispatch \/ Exit \/ Release \/ AdoptDone
    \/ WaitBlocks \/ WaitFails
    \/ \E c \in Proc : ForkCopy(c) \/ Adopt(c) \/ WaitReaps(c)

Next ==
    \/ MMStep
    \/ \E p \in Proc :
          \/ \E m \in Requests : Ask(p, m)
          \/ AwaitReply(p) \/ CallFS(p) \/ FSAnswers(p)

Spec == Init /\ [][Next]_vars

\* MM runs when it can; so does a process on its way into RECEIVE (module
\* Scheduler); and FS answers.
FairSpec ==
    /\ Spec
    /\ WF_vars(MMStep)
    /\ \A p \in Proc : WF_vars(AwaitReply(p)) /\ WF_vars(FSAnswers(p))

-----------------------------------------------------------------------------
(* Properties *)

\* Type invariant.  A slot that is free or sends has no other flag.
TypeOK ==
    /\ p_flags \in [Proc -> {{"SENDING"}, {"FREE_SLOT"}} \cup SUBSET {"RECEIVING", "WAITING", "HANGING"}]
    /\ p_parent \in [Proc -> Proc \cup {NO_TASK}]
    /\ stage \in [Proc -> {"run", "sent", "mm", "fs"}]
    /\ msg \in [Proc -> Requests \cup {Nothing}]
    /\ known \in [Proc -> BOOLEAN]
    /\ q_sending \in Seq(Proc)
    /\ {mm.src, mm.victim, mm.to, mm.dead} \subseteq Proc \cup {NO_TASK}

Idle == mm.pc \in {"loop", "listen"}

\* Between requests no parent waits while a child of its hangs: whichever of
\* do_wait and do_exit comes second sees what the first left, and so does the
\* adoption of a zombie by INIT.
NoForgottenZombie ==
    Idle => \A c \in Proc : "HANGING" \in p_flags[c] => ~IsWaiting(p_parent[c])

\* Between requests every process, dead ones that nobody waited for included,
\* has a live parent that can wait for it.
ParentsLive ==
    Idle => \A c \in Proc \ {InitProc} : ~Free(c) => p_parent[c] \in Proc /\ Alive(p_parent[c])

\* "WAITING: a proc has at least one child, and it is waiting for the
\* child(ren) to exit()": do_wait's third case, "if P has no child at all".
WaitersHaveChild ==
    Idle => \A p \in Proc : IsWaiting(p) => \E c \in Children(p) : ~Free(c)

\* unblock() and msg_receive assert that only what they clear held the process
\* back, and deadlock() finds no cycle.
KernelGoesOn == Running

\* What the promises below require of those who kill: their victims wait.
KillsAreTaken ==
    mm.pc = "exit_fs" /\ msg[mm.src].type = "KILL" => KillTaken(mm.victim)

\* MM always comes back to its loop: no caller can keep it waiting.
MMReturns == []KillsAreTaken => (mm.pc \notin {"loop", "listen"} ~> mm.pc \in {"loop", "listen"})

\* "On success, the PID of the child process is returned in the parent's thread
\* of execution, and a 0 is returned in the child's": both come back.
ForkReturns ==
    []KillsAreTaken =>
        \A p \in Proc : stage[p] \in {"sent", "mm"} /\ msg[p].type = "FORK" ~> stage[p] = "run"

\* A wait() returns, unless its caller is killed, once a child of the caller is
\* dead that nobody is being told of, whether it died before or after, and whether
\* the caller bore it or adopted it.  (The one reported is the first in the table:
\* no given one is promised.)
WaitReturns ==
    []KillsAreTaken =>
        \A p \in Proc :
            stage[p] \in {"sent", "mm"} /\ msg[p].type = "WAIT" /\ Zombies(p) \ {mm.dead} # {}
                ~> stage[p] = "run" \/ ~Alive(p)
=============================================================================
