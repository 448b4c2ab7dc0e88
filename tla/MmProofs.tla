------------------------------- MODULE MmProofs -------------------------------
(* Proofs about module Mm, for every table of processes.  They suppose what    *)
(* the runs show to be needed: that nobody kills a process which is not        *)
(* waiting (~KillAnybody), and that a process which calls execv is in RECEIVE  *)
(* when MM looks at its request (PromptExec).                                  *)
EXTENDS Mm, SequenceTheorems, TLAPS

PromptExec == "EXEC" \in Kinds => "EXEC" \in Prompt

-----------------------------------------------------------------------------
(* The inductive invariant: what a process can be in the middle of *)

AtWork(p) == stage[p] = "run" /\ p_flags[p] = {}
InFS(p)   == stage[p] = "fs" /\ p_flags[p] = {"RECEIVING"}
Asking(p) == stage[p] = "sent" /\ p_flags[p] = {"SENDING"}

\* MM has taken the request of p, and may have put it off or let p hang.
AtMM(p) ==
    /\ stage[p] \in {"sent", "mm"}
    /\ p_flags[p] \subseteq {"RECEIVING", "WAITING", "HANGING"}
    /\ "RECEIVING" \in p_flags[p] <=> stage[p] = "mm"

\* It has done neither.
InHand(p) == AtMM(p) /\ "WAITING" \notin p_flags[p] /\ "HANGING" \notin p_flags[p]

Stages == \A p \in Proc : Free(p) \/ AtWork(p) \/ InFS(p) \/ Asking(p) \/ AtMM(p)

\* The queue lists those who are sending, each once.
In(p, q)    == \E i \in 1 .. Len(q) : q[i] = p
Distinct(q) == \A i, j \in 1 .. Len(q) : q[i] = q[j] => i = j
QueueExact  == Distinct(q_sending) /\ \A p \in Proc : Asking(p) <=> In(p, q_sending)

\* INIT never ends, and is nobody's child.
InitLives ==
    /\ Alive(InitProc) /\ p_parent[InitProc] = NO_TASK
    /\ msg[InitProc].type \in {"NONE", "FORK", "WAIT"}

Served == \A p \in Proc : msg[p].type \in Kinds \cup {"NONE"}

-----------------------------------------------------------------------------
(* What MM is in the middle of *)

MmRecord ==
    [pc : {"loop", "listen", "dispatch", "send", "blocked", "fork_fs", "fork_done", "exec_fs",
           "exit_fs", "free", "adopt"},
     src : Proc \cup {NO_TASK}, victim : Proc \cup {NO_TASK},
     to : Proc \cup {NO_TASK}, dead : Proc \cup {NO_TASK},
     then : {"loop", "fork_done", "free"}, next : {"loop", "adopt"}]

Posting  == mm.pc \in {"send", "blocked"}
Cleaning == mm.pc = "free" \/ (mm.pc \in {"send", "blocked"} /\ mm.then = "free")
Adopting == mm.pc = "adopt" \/ (Cleaning /\ mm.next = "adopt")

\* Whoever is served is in MM's hands until MM has sent the answer.
Hands ==
    /\ mm.pc \in {"dispatch", "fork_fs", "fork_done", "exec_fs", "exit_fs"} =>
           mm.src \in Proc /\ InHand(mm.src)
    /\ mm.pc \in {"fork_fs", "fork_done"} => mm.victim \in Proc /\ mm.victim # mm.src
    /\ mm.pc = "fork_fs" => InHand(mm.victim)
    /\ mm.pc = "exec_fs" => stage[mm.src] = "mm"
    /\ Posting => mm.to \in Proc /\ InHand(mm.to)
    /\ Posting /\ mm.then = "fork_done" =>
           /\ mm.to = mm.victim /\ mm.victim # mm.src
           /\ mm.src \in Proc /\ InHand(mm.src)

\* The end of a process is its own doing, or that of a killer who is answered
\* when all is over.
Ending ==
    mm.pc = "exit_fs" \/ Adopting =>
        /\ mm.src \in Proc /\ mm.victim \in Proc \ {InitProc}
        /\ \/ /\ msg[mm.src].type = "EXIT" /\ mm.victim = mm.src
              /\ Free(mm.src) \/ AtMM(mm.src)
           \/ /\ msg[mm.src].type = "KILL" /\ InHand(mm.src)
              /\ Adopting => mm.victim # mm.src
        /\ Adopting /\ Posting => mm.to # mm.src

\* Only the process that ends now, or one that hangs, is freed.
Burying ==
    Cleaning =>
        /\ mm.dead \in Proc \ {InitProc} /\ AtMM(mm.dead)
        /\ (Adopting /\ mm.dead = mm.victim) \/ "HANGING" \in p_flags[mm.dead]
        /\ Posting => mm.to # mm.dead

\* ParentsLive, of a process that MM has not yet found another parent for too.
Parents ==
    /\ \A c \in Proc : p_parent[c] # c
    /\ \A c \in Proc \ {InitProc} :
           ~Free(c) =>
               /\ p_parent[c] \in Proc
               /\ Alive(p_parent[c]) \/ (Adopting /\ p_parent[c] = mm.victim)

\* NoForgottenZombie, in the middle of a request too.
NoZombie == \A c \in Proc : "HANGING" \in p_flags[c] => ~IsWaiting(p_parent[c])

IInv ==
    /\ TypeOK /\ mm \in MmRecord
    /\ Stages
    /\ QueueExact
    /\ InitLives
    /\ Served
    /\ Hands
    /\ Ending
    /\ Burying
    /\ Parents
    /\ NoZombie
-----------------------------------------------------------------------------
(* What MM notes *)

\* The message loop is a state MM may be in.
LEMMA LoopFields ==
    /\ Loop \in MmRecord
    /\ Loop.pc = "loop" /\ Loop.src = NO_TASK /\ Loop.victim = NO_TASK /\ Loop.to = NO_TASK
    /\ Loop.dead = NO_TASK /\ Loop.then = "loop" /\ Loop.next = "loop"
BY DEF Loop, MmRecord

\* MM goes on at another place, in the same request.
LEMMA GoOn ==
    ASSUME NEW m \in MmRecord,
           NEW pc \in {"loop", "listen", "dispatch", "send", "blocked", "fork_fs", "fork_done",
                       "exec_fs", "exit_fs", "free", "adopt"},
           NEW r, r = [m EXCEPT !.pc = pc]
    PROVE  /\ r \in MmRecord
           /\ r.pc = pc /\ r.src = m.src /\ r.victim = m.victim /\ r.to = m.to
           /\ r.dead = m.dead /\ r.then = m.then /\ r.next = m.next
BY DEF MmRecord

\* MM has sent what it had to send.
LEMMA Posted ==
    ASSUME NEW m \in MmRecord, NEW r, r = [m EXCEPT !.pc = m.then, !.to = NO_TASK]
    PROVE  /\ r \in MmRecord
           /\ r.pc = m.then /\ r.src = m.src /\ r.victim = m.victim
           /\ r.dead = m.dead /\ r.then = m.then /\ r.next = m.next
BY DEF MmRecord

\* MM has freed a slot.
LEMMA Buried ==
    ASSUME NEW m \in MmRecord, NEW r, r = [m EXCEPT !.pc = m.next, !.dead = NO_TASK]
    PROVE  /\ r \in MmRecord
           /\ r.pc = m.next /\ r.src = m.src /\ r.victim = m.victim
           /\ r.then = m.then /\ r.next = m.next
BY DEF MmRecord

\* MM has an answer to send.
LEMMA SendToFields ==
    ASSUME mm \in MmRecord, NEW p \in Proc, NEW pc \in {"loop", "fork_done"},
           NEW r, r = SendTo(p, pc)
    PROVE  /\ r \in MmRecord
           /\ r.pc = "send" /\ r.to = p /\ r.then = pc /\ r.src = mm.src /\ r.victim = mm.victim
BY DEF MmRecord, SendTo

\* MM has a death to tell of.
LEMMA CleanUpFields ==
    ASSUME mm \in MmRecord, NEW z \in Proc, NEW p \in Proc, NEW pc \in {"loop", "adopt"},
           NEW r, r = CleanUp(z, p, pc)
    PROVE  /\ r \in MmRecord
           /\ r.pc = "send" /\ r.to = p /\ r.dead = z /\ r.then = "free" /\ r.next = pc
           /\ r.src = mm.src /\ r.victim = mm.victim
BY DEF MmRecord, CleanUp

-----------------------------------------------------------------------------
(* Processes *)

\* A process is in the same situation as long as its flags and stage are the same.
LEMMA Same ==
    ASSUME NEW q, p_flags'[q] = p_flags[q], stage'[q] = stage[q]
    PROVE  /\ AtWork(q)' <=> AtWork(q)
           /\ InFS(q)' <=> InFS(q)
           /\ Asking(q)' <=> Asking(q)
           /\ AtMM(q)' <=> AtMM(q)
           /\ InHand(q)' <=> InHand(q)
           /\ Free(q)' <=> Free(q)
           /\ Alive(q)' <=> Alive(q)
           /\ IsWaiting(q)' <=> IsWaiting(q)
BY DEF AtWork, InFS, Asking, AtMM, InHand, Free, Alive, IsWaiting

\* The situations exclude each other, and tell who lives, waits or hangs.
LEMMA Situations ==
    ASSUME NEW q
    PROVE  /\ AtWork(q) => ~InFS(q) /\ ~Asking(q) /\ ~AtMM(q) /\ ~Free(q) /\ Alive(q)
           /\ InFS(q) => ~Asking(q) /\ ~AtMM(q) /\ ~Free(q) /\ Alive(q)
           /\ Asking(q) => ~AtMM(q) /\ ~Free(q) /\ Alive(q)
           /\ AtMM(q) => ~Free(q)
           /\ AtMM(q) => (Alive(q) <=> "HANGING" \notin p_flags[q])
           /\ InHand(q) => AtMM(q) /\ Alive(q) /\ ~IsWaiting(q) /\ "HANGING" \notin p_flags[q]
           /\ InHand(q) /\ stage[q] = "sent" => p_flags[q] = {}
           /\ InHand(q) /\ stage[q] = "mm" => p_flags[q] = {"RECEIVING"}
           /\ AtWork(q) \/ InFS(q) \/ Asking(q) \/ Free(q) =>
                  ~IsWaiting(q) /\ "HANGING" \notin p_flags[q]
BY DEF AtWork, InFS, Asking, AtMM, InHand, Free, Alive, IsWaiting

-----------------------------------------------------------------------------
(* The queue of those who are sending *)

\* One more at the end of the queue.
LEMMA AppendOne ==
    ASSUME NEW S, NEW q \in Seq(S), NEW p \in S, Distinct(q), ~In(p, q)
    PROVE  /\ Append(q, p) \in Seq(S) /\ Distinct(Append(q, p))
           /\ \A r : In(r, Append(q, p)) <=> In(r, q) \/ r = p
<1> DEFINE t == Append(q, p)
<1>1. /\ t \in Seq(S) /\ Len(q) \in Nat /\ Len(t) = Len(q) + 1
      /\ \A i \in 1 .. Len(q) : t[i] = q[i]
      /\ t[Len(q) + 1] = p
  OBVIOUS
<1> HIDE DEF t
<1>2. Distinct(t)
  BY <1>1 DEF Distinct, In
<1>3. ASSUME NEW r PROVE In(r, t) <=> In(r, q) \/ r = p
  BY <1>1 DEF In
<1>. QED BY <1>1, <1>2, <1>3 DEF t

\* The first leaves the queue.
LEMMA TailOne ==
    ASSUME NEW S, NEW q \in Seq(S), q # <<>>, Distinct(q)
    PROVE  /\ Head(q) \in S /\ In(Head(q), q)
           /\ Tail(q) \in Seq(S) /\ Distinct(Tail(q))
           /\ \A r : In(r, Tail(q)) <=> In(r, q) /\ r # Head(q)
<1> DEFINE t == Tail(q)
           h == Head(q)
<1>1. /\ t \in Seq(S) /\ Len(q) \in Nat /\ Len(q) > 0 /\ Len(t) = Len(q) - 1
      /\ \A i \in 1 .. Len(t) : t[i] = q[i + 1]
      /\ h = q[1] /\ h \in S
  BY HeadTailProperties, EmptySeq
<1> HIDE DEF t, h
<1>2. Distinct(t)
  BY <1>1 DEF Distinct
<1>3. In(h, q)
  BY <1>1 DEF In
<1>4. ASSUME NEW r PROVE In(r, t) <=> In(r, q) /\ r # h
  <2>1. ASSUME In(r, t) PROVE In(r, q) /\ r # h
    BY <1>1, <2>1 DEF Distinct, In
  <2>2. ASSUME NEW i \in 1 .. Len(q), q[i] = r, r # h PROVE In(r, t)
    <3>1. i - 1 \in 1 .. Len(t) /\ (i - 1) + 1 = i
      BY <1>1, <2>2
    <3>. QED BY <1>1, <2>2, <3>1 DEF In
  <2>. QED BY <2>1, <2>2 DEF In
<1>. QED BY <1>1, <1>2, <1>3, <1>4 DEF t, h

-----------------------------------------------------------------------------
(* The steps of MM that touch no process *)

\* When only what MM notes changes, it is enough that it remembers whose end it
\* is as long as a child is left.
LEMMA Frame ==
    ASSUME IInv, UNCHANGED <<p_flags, p_parent, stage, msg, q_sending>>, known' \in [Proc -> BOOLEAN],
           mm' \in MmRecord, Hands', Ending', Burying',
           Adopting /\ Children(mm.victim) # {} => Adopting' /\ mm'.victim = mm.victim
    PROVE  IInv'
<1> USE DEF IInv
<1>1. TypeOK'
  BY DEF TypeOK, MmRecord
<1>2. Stages'
  BY Same DEF Stages
<1>3. QueueExact'
  BY Same DEF QueueExact
<1>4. InitLives'
  BY DEF InitLives, Alive
<1>5. Served'
  BY DEF Served
<1>6. Parents'
  BY DEF Parents, Children, Free, Alive
<1>7. NoZombie'
  BY DEF NoZombie, IsWaiting
<1>. QED BY <1>1, <1>2, <1>3, <1>4, <1>5, <1>6, <1>7

\* Who is served is in MM's hands.
LEMMA Served1 ==
    ASSUME IInv, NEW type, Request(type)
    PROVE  /\ mm.src \in Proc /\ InHand(mm.src) /\ ~Adopting
BY DEF IInv, Hands, Request, Serving, Adopting, Cleaning

\* The answer to whoever is served.
LEMMA Answer ==
    ASSUME IInv, mm.src \in Proc, InHand(mm.src), ~Adopting \/ Children(mm.victim) = {},
           mm' = SendTo(mm.src, "loop"), known' \in [Proc -> BOOLEAN],
           UNCHANGED <<p_flags, p_parent, stage, msg, q_sending>>
    PROVE  IInv'
<1>1. /\ mm' \in MmRecord
      /\ mm'.pc = "send" /\ mm'.to = mm.src /\ mm'.then = "loop"
  BY SendToFields DEF IInv
<1>2. Hands'
  BY <1>1, Same DEF Hands, Posting
<1>3. Ending' /\ Burying'
  BY <1>1 DEF Ending, Burying, Adopting, Cleaning
<1>. QED BY <1>1, <1>2, <1>3, Frame

\* do_fork without a slot.
LEMMA ForkFailsInv == ASSUME IInv, ForkFails PROVE IInv'
BY Served1, Answer DEF ForkFails, IInv, TypeOK

\* do_wait without a child.
LEMMA WaitFailsInv == ASSUME IInv, WaitFails PROVE IInv'
BY Served1, Answer DEF WaitFails, IInv, TypeOK

\* do_exec without the file.
LEMMA ExecFailsInv == ASSUME IInv, ExecFails PROVE IInv'
BY Answer DEF ExecFails, Serving, Adopting, Cleaning, Hands, IInv, TypeOK

\* The end of do_fork.
LEMMA ForkDoneInv == ASSUME IInv, ForkDone PROVE IInv'
<1>1. mm.pc = "fork_done"
  BY DEF ForkDone, Serving
<1>2. mm.src \in Proc /\ InHand(mm.src) /\ ~Adopting
  BY <1>1 DEF IInv, Hands, Adopting, Cleaning
<1>3. known' \in [Proc -> BOOLEAN]
  BY DEF ForkDone, IInv, TypeOK
<1>. QED BY <1>2, <1>3, Answer DEF ForkDone

\* The message of the child.
LEMMA ForkBirthInv == ASSUME IInv, ForkBirth PROVE IInv'
<1>1. /\ mm.pc = "fork_fs" /\ mm.victim \in Proc /\ InHand(mm.victim)
      /\ mm.src \in Proc /\ InHand(mm.src) /\ mm.victim # mm.src /\ ~Adopting
  BY DEF ForkBirth, Serving, IInv, Hands, Adopting, Cleaning
<1>2. /\ mm' \in MmRecord
      /\ mm'.pc = "send" /\ mm'.to = mm.victim /\ mm'.then = "fork_done"
      /\ mm'.src = mm.src /\ mm'.victim = mm.victim
  BY <1>1, SendToFields DEF IInv, ForkBirth
<1>3. UNCHANGED <<p_flags, p_parent, stage, msg, known, q_sending>>
  BY DEF ForkBirth
<1>4. Hands'
  BY <1>1, <1>2, <1>3, Same DEF Hands, Posting
<1>5. Ending' /\ Burying'
  BY <1>2 DEF Ending, Burying, Adopting, Cleaning
<1>. QED BY <1>1, <1>2, <1>3, <1>4, <1>5, Frame DEF IInv, TypeOK

\* The file of do_exec.
LEMMA ExecDispatchInv == ASSUME IInv, PromptExec, ExecDispatch PROVE IInv'
<1>1. /\ mm.src \in Proc /\ InHand(mm.src) /\ ~Adopting /\ msg[mm.src].type = "EXEC"
      /\ "EXEC" \in Prompt => AtReceive(mm.src)
  BY Served1 DEF ExecDispatch, Request
<1>2. stage[mm.src] = "mm"
  BY <1>1 DEF PromptExec, IInv, Served, AtReceive
<1>3. /\ mm' \in MmRecord
      /\ mm'.pc = "exec_fs" /\ mm'.src = mm.src
  BY <1>1, GoOn DEF IInv, ExecDispatch
<1>4. UNCHANGED <<p_flags, p_parent, stage, msg, known, q_sending>>
  BY DEF ExecDispatch
<1>5. Hands'
  BY <1>1, <1>2, <1>3, <1>4, Same DEF Hands, Posting
<1>6. Ending' /\ Burying'
  BY <1>3 DEF Ending, Burying, Adopting, Cleaning
<1>. QED BY <1>1, <1>3, <1>4, <1>5, <1>6, Frame DEF IInv, TypeOK

\* The beginning of do_exit and do_kill.
LEMMA ExitDispatchInv == ASSUME IInv, ExitDispatch PROVE IInv'
<1>1. /\ mm.src \in Proc /\ InHand(mm.src) /\ ~Adopting
      /\ msg[mm.src].type \in {"EXIT", "KILL"}
  BY Served1 DEF ExitDispatch, Request
<1>2. UNCHANGED <<p_flags, p_parent, stage, msg, known, q_sending>>
  BY DEF ExitDispatch
<1>3. PICK v \in Proc \ {InitProc} :
          /\ mm' = [mm EXCEPT !.pc = "exit_fs", !.victim = v]
          /\ msg[mm.src].type = "EXIT" => v = mm.src
  <2>1. CASE msg[mm.src].type = "EXIT"
    <3>1. mm.src # InitProc
      BY <2>1 DEF IInv, InitLives
    <3>. QED BY <1>1, <2>1, <3>1 DEF ExitDispatch, Request
  <2>2. CASE msg[mm.src].type = "KILL"
    <3>1. msg[mm.src] \in Requests \cup {Nothing}
      BY <1>1 DEF IInv, TypeOK
    <3>2. msg[mm.src].PID \in Proc \ {InitProc}
      BY <2>2, <3>1 DEF Requests, Nothing
    <3>. QED BY <2>2, <3>2 DEF ExitDispatch, Request
  <2>. QED BY <1>1, <2>1, <2>2
<1>4. /\ mm' \in MmRecord
      /\ mm'.pc = "exit_fs" /\ mm'.src = mm.src /\ mm'.victim = v
  <2>1. mm \in MmRecord
    BY DEF IInv
  <2>. QED BY <1>3, <2>1 DEF MmRecord
<1>5. Hands'
  BY <1>1, <1>2, <1>4, Same DEF Hands, Posting
<1>6. Ending' /\ Burying'
  BY <1>1, <1>2, <1>3, <1>4, Same, Situations DEF Ending, Burying, Adopting, Cleaning, Posting
<1>. QED BY <1>1, <1>2, <1>4, <1>5, <1>6, Frame DEF IInv, TypeOK

\* The end of do_exit and do_kill.
LEMMA AdoptDoneInv == ASSUME IInv, AdoptDone PROVE IInv'
<1>1. /\ mm.pc = "adopt" /\ Adopting /\ Children(mm.victim) = {}
      /\ UNCHANGED <<p_flags, p_parent, stage, msg, known, q_sending>>
  BY DEF AdoptDone, Serving, Adopting
<1>2. CASE msg[mm.src].type = "KILL"
  BY <1>1, <1>2, Answer DEF AdoptDone, IInv, Ending, TypeOK
<1>3. CASE msg[mm.src].type # "KILL"
  <2>1. mm' = Loop /\ mm' \in MmRecord /\ mm'.pc = "loop"
    BY <1>3, LoopFields DEF AdoptDone
  <2>2. Hands' /\ Ending' /\ Burying'
    BY <2>1 DEF Hands, Posting, Ending, Burying, Adopting, Cleaning
  <2>. QED BY <1>1, <2>1, <2>2, Frame DEF IInv, TypeOK
<1>. QED BY <1>2, <1>3

\* do_wait with a child that hangs.
LEMMA WaitReapsInv == ASSUME IInv, NEW c \in Proc, WaitReaps(c) PROVE IInv'
<1>1. /\ mm.src \in Proc /\ InHand(mm.src) /\ ~Adopting
      /\ UNCHANGED <<p_flags, p_parent, stage, msg, known, q_sending>>
  BY Served1 DEF WaitReaps
<1>2. "HANGING" \in p_flags[c]
  BY DEF WaitReaps, First, Zombies
<1>3. c # InitProc /\ AtMM(c) /\ c # mm.src
  BY <1>1, <1>2, Situations DEF IInv, InitLives, Alive, Stages
<1>4. /\ mm' \in MmRecord
      /\ mm'.pc = "send" /\ mm'.to = mm.src /\ mm'.then = "free" /\ mm'.dead = c
      /\ mm'.next = "loop"
  BY <1>1, CleanUpFields DEF IInv, WaitReaps
<1>5. Hands'
  BY <1>1, <1>4, Same DEF Hands, Posting
<1>6. Ending'
  BY <1>4 DEF Ending, Adopting, Cleaning
<1>7. Burying'
  BY <1>1, <1>2, <1>3, <1>4, Same DEF Burying, Adopting, Cleaning, Posting
<1>. QED BY <1>1, <1>4, <1>5, <1>6, <1>7, Frame DEF IInv, TypeOK

-----------------------------------------------------------------------------
(* The steps that touch a process *)

FlagSets == {{"SENDING"}, {"FREE_SLOT"}} \cup SUBSET {"RECEIVING", "WAITING", "HANGING"}

\* New flags for one process.
LEMMA SetFlags ==
    ASSUME TypeOK, NEW p \in Proc, NEW f \in FlagSets, p_flags' = [p_flags EXCEPT ![p] = f]
    PROVE  /\ p_flags' \in [Proc -> FlagSets] /\ p_flags'[p] = f
           /\ \A q \in Proc : q # p => p_flags'[q] = p_flags[q]
BY DEF TypeOK, FlagSets

\* A new stage for one process.
LEMMA SetStage ==
    ASSUME TypeOK, NEW p \in Proc, NEW s \in {"run", "sent", "mm", "fs"},
           stage' = [stage EXCEPT ![p] = s]
    PROVE  /\ stage' \in [Proc -> {"run", "sent", "mm", "fs"}] /\ stage'[p] = s
           /\ \A q \in Proc : q # p => stage'[q] = stage[q]
BY DEF TypeOK

\* The types, when a step sets flags and stages.
LEMMA Types ==
    ASSUME IInv, p_flags' \in [Proc -> FlagSets], stage' \in [Proc -> {"run", "sent", "mm", "fs"}],
           UNCHANGED <<p_parent, msg, known, q_sending>>, mm' \in MmRecord
    PROVE  TypeOK'
BY DEF IInv, TypeOK, FlagSets, MmRecord

\* A process that lives, and neither waits nor hangs after the step, is no
\* concern of its parent or of its children.
LEMMA Living ==
    ASSUME IInv, NEW p \in Proc, ~Free(p), AtWork(p)' \/ InFS(p)' \/ Asking(p)' \/ InHand(p)',
           \A q \in Proc : q # p => p_flags'[q] = p_flags[q] /\ stage'[q] = stage[q],
           UNCHANGED p_parent, Adopting => Adopting' /\ mm'.victim = mm.victim
    PROVE  Stages' /\ Alive(InitProc)' /\ Parents' /\ NoZombie'
<1>1. Alive(p)' /\ ~IsWaiting(p)' /\ "HANGING" \notin p_flags'[p]
  BY DEF Alive, IsWaiting, AtWork, InFS, Asking, InHand, AtMM
<1>2. Stages'
  BY Same DEF IInv, Stages, InHand
<1>3. Alive(InitProc)'
  BY <1>1, Same, MmAssumption DEF IInv, InitLives
<1>4. Parents'
  BY <1>1, Same DEF IInv, Parents
<1>5. NoZombie'
  BY <1>1, Same DEF IInv, NoZombie, IsWaiting
<1>. QED BY <1>2, <1>3, <1>4, <1>5

\* A process that runs calls FS.
LEMMA CallFSInv == ASSUME IInv, NEW p \in Proc, CallFS(p) PROVE IInv'
<1>1. AtWork(p) /\ UNCHANGED <<p_parent, msg, known, q_sending, mm>>
  BY DEF CallFS, MayRun, AtWork
<1>2. /\ p_flags' \in [Proc -> FlagSets] /\ p_flags'[p] = {"RECEIVING"}
      /\ \A q \in Proc : q # p => p_flags'[q] = p_flags[q]
  BY SetFlags DEF CallFS, IInv, FlagSets
<1>3. /\ stage' \in [Proc -> {"run", "sent", "mm", "fs"}] /\ stage'[p] = "fs"
      /\ \A q \in Proc : q # p => stage'[q] = stage[q]
  BY SetStage DEF CallFS, IInv
<1>4. InFS(p)'
  BY <1>2, <1>3 DEF InFS
<1>5. ~Asking(p) /\ ~Asking(p)' /\ ~AtMM(p) /\ ~InHand(p) /\ ~Free(p)
  BY <1>1, <1>4 DEF Asking, AtWork, InFS, AtMM, InHand, Free
<1>6. TypeOK' /\ mm' \in MmRecord
  BY <1>1, <1>2, <1>3, Types DEF IInv
<1>7. QueueExact'
  BY <1>1, <1>2, <1>3, <1>5, Same DEF IInv, QueueExact
<1>8. Hands' /\ Ending' /\ Burying'
  BY <1>1, <1>2, <1>3, <1>5, Same
  DEF IInv, Hands, Ending, Burying, Posting, Adopting, Cleaning
<1>9. Stages' /\ Alive(InitProc)' /\ Parents' /\ NoZombie'
  BY <1>1, <1>2, <1>3, <1>4, <1>5, Living DEF Adopting, Cleaning
<1>10. InitLives' /\ Served'
  BY <1>1, <1>9 DEF IInv, InitLives, Served
<1>. QED BY <1>6, <1>7, <1>8, <1>9, <1>10 DEF IInv

\* FS answers a process, and finds it as it left it.
LEMMA FSAnswersInv == ASSUME IInv, NEW p \in Proc, FSAnswers(p) PROVE IInv'
<1>1. InFS(p)
  BY DEF FSAnswers, IInv, Stages, Free, AtWork, InFS, Asking, AtMM
<1>2. /\ p_flags' = [p_flags EXCEPT ![p] = {}] /\ stage' = [stage EXCEPT ![p] = "run"]
      /\ UNCHANGED <<p_parent, msg, known, q_sending, mm>>
  BY <1>1 DEF FSAnswers, InFS
<1>3. /\ p_flags' \in [Proc -> FlagSets] /\ p_flags'[p] = {}
      /\ \A q \in Proc : q # p => p_flags'[q] = p_flags[q]
  BY <1>2, SetFlags DEF IInv, FlagSets
<1>4. /\ stage' \in [Proc -> {"run", "sent", "mm", "fs"}] /\ stage'[p] = "run"
      /\ \A q \in Proc : q # p => stage'[q] = stage[q]
  BY <1>2, SetStage DEF IInv
<1>5. AtWork(p)'
  BY <1>3, <1>4 DEF AtWork
<1>6. ~Asking(p) /\ ~Asking(p)' /\ ~AtMM(p) /\ ~InHand(p) /\ ~Free(p)
  BY <1>1, <1>5 DEF Asking, AtWork, InFS, AtMM, InHand, Free
<1>7. TypeOK' /\ mm' \in MmRecord
  BY <1>2, <1>3, <1>4, Types DEF IInv
<1>8. QueueExact'
  BY <1>2, <1>3, <1>4, <1>6, Same DEF IInv, QueueExact
<1>9. Hands' /\ Ending' /\ Burying'
  BY <1>2, <1>3, <1>4, <1>6, Same
  DEF IInv, Hands, Ending, Burying, Posting, Adopting, Cleaning
<1>10. Stages' /\ Alive(InitProc)' /\ Parents' /\ NoZombie'
  BY <1>2, <1>3, <1>4, <1>5, <1>6, Living DEF Adopting, Cleaning
<1>11. InitLives' /\ Served'
  BY <1>2, <1>10 DEF IInv, InitLives, Served
<1>. QED BY <1>7, <1>8, <1>9, <1>10, <1>11 DEF IInv

\* The process that MM sends to has the message, and is off.
LEMMA Delivered ==
    ASSUME IInv, NEW p \in Proc, Posting, mm.to = p,
           p_flags' \in [Proc -> FlagSets], p_flags'[p] = {},
           \A q \in Proc : q # p => p_flags'[q] = p_flags[q],
           stage' = [stage EXCEPT ![p] = "run"],
           mm' = [mm EXCEPT !.pc = mm.then, !.to = NO_TASK],
           UNCHANGED <<p_parent, msg, known, q_sending>>
    PROVE  IInv'
<1>1. InHand(p)
  BY DEF IInv, Hands
<1>2. /\ stage' \in [Proc -> {"run", "sent", "mm", "fs"}] /\ stage'[p] = "run"
      /\ \A q \in Proc : q # p => stage'[q] = stage[q]
  BY SetStage DEF IInv
<1>3. AtWork(p)'
  BY <1>2 DEF AtWork
<1>4. ~Asking(p) /\ ~Asking(p)' /\ ~Free(p)
  BY <1>1, <1>3, Situations DEF Asking, AtWork
<1>5. /\ mm' \in MmRecord
      /\ mm'.pc = mm.then /\ mm'.src = mm.src /\ mm'.victim = mm.victim
      /\ mm'.dead = mm.dead /\ mm'.then = mm.then /\ mm'.next = mm.next
  BY Posted DEF IInv
<1>6. mm.then \in {"loop", "fork_done", "free"}
  BY DEF IInv, MmRecord
<1>7. Adopting' <=> Adopting
  BY <1>5, <1>6 DEF Adopting, Cleaning, Posting
<1>8. TypeOK'
  BY <1>2, <1>5, Types
<1>9. QueueExact'
  BY <1>2, <1>4, Same DEF IInv, QueueExact
<1>10. Hands'
  BY <1>2, <1>5, <1>6, Same DEF IInv, Hands, Posting
<1>11. Ending'
  BY <1>2, <1>5, <1>6, <1>7, Same DEF IInv, Ending, Posting
<1>12. Burying'
  BY <1>2, <1>5, <1>6, <1>7, Same DEF IInv, Burying, Cleaning, Posting
<1>13. Stages' /\ Alive(InitProc)' /\ Parents' /\ NoZombie'
  BY <1>2, <1>3, <1>4, <1>5, <1>7, Living
<1>14. InitLives' /\ Served'
  BY <1>13 DEF IInv, InitLives, Served
<1>. QED BY <1>5, <1>8, <1>9, <1>10, <1>11, <1>12, <1>13, <1>14 DEF IInv

\* MM sends: nothing but RECEIVE holds the process back.
LEMMA SendInv == ASSUME IInv, Send PROVE IInv'
<1>1. mm.pc = "send" /\ Posting /\ mm.to \in Proc /\ InHand(mm.to)
  BY DEF Send, Serving, IInv, Hands, Posting
<1>2. CASE AtReceive(mm.to)
  <2>1. p_flags[mm.to] = {"RECEIVING"}
    BY <1>1, <1>2, Situations DEF AtReceive
  <2>2. /\ p_flags' = [p_flags EXCEPT ![mm.to] = {}]
        /\ stage' = [stage EXCEPT ![mm.to] = "run"]
        /\ mm' = [mm EXCEPT !.pc = mm.then, !.to = NO_TASK]
        /\ UNCHANGED <<p_parent, msg, known, q_sending>>
    BY <1>2, <2>1 DEF Send
  <2>3. /\ p_flags' \in [Proc -> FlagSets] /\ p_flags'[mm.to] = {}
        /\ \A q \in Proc : q # mm.to => p_flags'[q] = p_flags[q]
    BY <1>1, <2>2, SetFlags DEF IInv, FlagSets
  <2>. QED BY <1>1, <2>2, <2>3, Delivered
<1>3. CASE ~AtReceive(mm.to)
  <2>1. /\ mm' = [mm EXCEPT !.pc = "blocked"]
        /\ UNCHANGED <<p_flags, p_parent, stage, msg, known, q_sending>>
    BY <1>3 DEF Send
  <2>2. /\ mm' \in MmRecord
        /\ mm'.pc = "blocked" /\ mm'.src = mm.src /\ mm'.victim = mm.victim /\ mm'.to = mm.to
        /\ mm'.dead = mm.dead /\ mm'.then = mm.then /\ mm'.next = mm.next
    BY <2>1, GoOn DEF IInv
  <2>3. Hands'
    BY <1>1, <2>1, <2>2, Same DEF IInv, Hands, Posting
  <2>4. Ending' /\ Burying'
    BY <1>1, <2>1, <2>2, Same DEF IInv, Ending, Burying, Posting, Adopting, Cleaning
  <2>5. Adopting => Adopting' /\ mm'.victim = mm.victim
    BY <1>1, <2>2 DEF Adopting, Cleaning
  <2>. QED BY <2>1, <2>2, <2>3, <2>4, <2>5, Frame DEF IInv, TypeOK
<1>. QED BY <1>2, <1>3

\* A process reaches the RECEIVE of its call.
LEMMA AwaitReplyInv == ASSUME IInv, NEW p \in Proc, AwaitReply(p) PROVE IInv'
<1>1. p_flags[p] = {} /\ stage[p] = "sent" /\ InHand(p)
  BY DEF AwaitReply, MayRun, IInv, Stages, Free, AtWork, InFS, Asking, AtMM, InHand
<1>2. CASE SentByMM(p)
  <2>1. Posting /\ mm.to = p
    BY <1>2 DEF SentByMM, Serving, Posting
  <2>2. /\ stage' = [stage EXCEPT ![p] = "run"]
        /\ mm' = [mm EXCEPT !.pc = mm.then, !.to = NO_TASK]
        /\ UNCHANGED <<p_flags, p_parent, msg, known, q_sending>>
    BY <1>2 DEF AwaitReply
  <2>3. p_flags' \in [Proc -> FlagSets]
    BY <2>2 DEF IInv, TypeOK, FlagSets
  <2>. QED BY <1>1, <2>1, <2>2, <2>3, Delivered
<1>3. CASE ~SentByMM(p)
  <2>1. /\ stage' = [stage EXCEPT ![p] = "mm"]
        /\ p_flags' = [p_flags EXCEPT ![p] = {"RECEIVING"}]
        /\ UNCHANGED <<mm, p_parent, msg, known, q_sending>>
    BY <1>3 DEF AwaitReply
  <2>2. /\ p_flags' \in [Proc -> FlagSets] /\ p_flags'[p] = {"RECEIVING"}
        /\ \A q \in Proc : q # p => p_flags'[q] = p_flags[q]
    BY <2>1, SetFlags DEF IInv, FlagSets
  <2>3. /\ stage' \in [Proc -> {"run", "sent", "mm", "fs"}] /\ stage'[p] = "mm"
        /\ \A q \in Proc : q # p => stage'[q] = stage[q]
    BY <2>1, SetStage DEF IInv
  <2>4. InHand(p)' /\ AtMM(p)' /\ AtMM(p) /\ "HANGING" \notin p_flags[p]
    BY <1>1, <2>2, <2>3 DEF InHand, AtMM
  <2>5. ~Asking(p) /\ ~Asking(p)' /\ ~Free(p)
    BY <1>1, <2>3 DEF Asking, Free
  <2>6. TypeOK' /\ mm' \in MmRecord
    BY <2>1, <2>2, <2>3, Types DEF IInv
  <2>7. QueueExact'
    BY <2>1, <2>2, <2>3, <2>5, Same DEF IInv, QueueExact
  <2>8. \A q \in Proc : (InHand(q) => InHand(q)') /\ (AtMM(q) => AtMM(q)')
    BY <2>2, <2>3, <2>4, Same
  <2>9. Hands'
    BY <2>1, <2>3, <2>8 DEF IInv, Hands, Posting
  <2>10. Ending'
    BY <2>1, <2>2, <2>3, <2>5, <2>8, Same DEF IInv, Ending, Posting, Adopting, Cleaning
  <2>11. Burying'
    BY <2>1, <2>2, <2>4, <2>8 DEF IInv, Burying, Posting, Adopting, Cleaning
  <2>12. Stages' /\ Alive(InitProc)' /\ Parents' /\ NoZombie'
    BY <2>1, <2>2, <2>3, <2>4, <2>5, Living DEF Adopting, Cleaning
  <2>13. InitLives' /\ Served'
    BY <2>1, <2>12 DEF IInv, InitLives, Served
  <2>. QED BY <2>6, <2>7, <2>9, <2>10, <2>11, <2>12, <2>13 DEF IInv
<1>. QED BY <1>2, <1>3

\* MM waits for a request, or takes that of the first who is sending one, whom
\* nothing else holds back.
LEMMA ReceiveInv == ASSUME IInv, Receive PROVE IInv'
<1>1. mm.pc = "loop" /\ ~Adopting /\ UNCHANGED <<p_parent, stage, msg, known>>
  BY DEF Receive, Serving, Adopting, Cleaning
<1>2. CASE q_sending = <<>>
  <2>1. /\ mm' = [Loop EXCEPT !.pc = "listen"]
        /\ UNCHANGED <<p_flags, q_sending>>
    BY <1>2 DEF Receive
  <2>2. mm' \in MmRecord /\ mm'.pc = "listen"
    BY <2>1, LoopFields, GoOn
  <2>3. Hands' /\ Ending' /\ Burying'
    BY <2>2 DEF Hands, Posting, Ending, Burying, Adopting, Cleaning
  <2>. QED BY <1>1, <2>1, <2>2, <2>3, Frame DEF IInv, TypeOK
<1>3. CASE q_sending # <<>>
  <2>1. /\ q_sending \in Seq(Proc) /\ Distinct(q_sending)
        /\ \A p \in Proc : Asking(p) <=> In(p, q_sending)
    BY DEF IInv, TypeOK, QueueExact
  <2>2. /\ Head(q_sending) \in Proc /\ In(Head(q_sending), q_sending)
        /\ Tail(q_sending) \in Seq(Proc) /\ Distinct(Tail(q_sending))
        /\ \A r : In(r, Tail(q_sending)) <=> In(r, q_sending) /\ r # Head(q_sending)
    BY <1>3, <2>1, TailOne
  <2>3. PICK p \in Proc : p = Head(q_sending)
    BY <2>2
  <2>4. Asking(p) /\ p_flags[p] = {"SENDING"} /\ stage[p] = "sent"
    BY <2>1, <2>2, <2>3 DEF Asking
  <2>5. /\ p_flags' = [p_flags EXCEPT ![p] = {}] /\ q_sending' = Tail(q_sending)
        /\ mm' = [Loop EXCEPT !.pc = "dispatch", !.src = p]
    BY <1>3, <2>3, <2>4 DEF Receive
  <2>6. /\ p_flags' \in [Proc -> FlagSets] /\ p_flags'[p] = {}
        /\ \A q \in Proc : q # p => p_flags'[q] = p_flags[q]
    BY <2>5, SetFlags DEF IInv, FlagSets
  <2>7. InHand(p)' /\ ~Asking(p)' /\ ~Free(p)
    BY <1>1, <2>4, <2>6 DEF InHand, AtMM, Asking, Free
  <2>8. mm' \in MmRecord /\ mm'.pc = "dispatch" /\ mm'.src = p
    BY <2>5, LoopFields DEF MmRecord
  <2>9. TypeOK'
    <3>1. /\ p_parent' \in [Proc -> Proc \cup {NO_TASK}]
          /\ stage' \in [Proc -> {"run", "sent", "mm", "fs"}]
          /\ msg' \in [Proc -> Requests \cup {Nothing}] /\ known' \in [Proc -> BOOLEAN]
      BY <1>1 DEF IInv, TypeOK
    <3>2. q_sending' \in Seq(Proc)
      BY <2>2, <2>5
    <3>3. {mm'.src, mm'.victim, mm'.to, mm'.dead} \subseteq Proc \cup {NO_TASK}
      BY <2>8 DEF MmRecord
    <3>. QED BY <2>6, <3>1, <3>2, <3>3 DEF TypeOK, FlagSets
  <2>10. QueueExact'
    <3>1. ASSUME NEW q \in Proc PROVE Asking(q)' <=> In(q, Tail(q_sending))
      BY <1>1, <2>1, <2>2, <2>3, <2>6, <2>7, Same
    <3>. QED BY <2>2, <2>5, <3>1 DEF QueueExact
  <2>11. Hands'
    BY <2>7, <2>8 DEF Hands, Posting
  <2>12. Ending' /\ Burying'
    BY <2>8 DEF Ending, Burying, Adopting, Cleaning
  <2>13. Stages' /\ Alive(InitProc)' /\ Parents' /\ NoZombie'
    BY <1>1, <2>6, <2>7, Living
  <2>14. InitLives' /\ Served'
    BY <1>1, <2>13 DEF IInv, InitLives, Served
  <2>. QED BY <2>8, <2>9, <2>10, <2>11, <2>12, <2>13, <2>14 DEF IInv
<1>. QED BY <1>2, <1>3

\* A process that runs makes a request: MM is not sending to it.
LEMMA AskInv == ASSUME IInv, NEW p \in Proc, NEW m \in Requests, Ask(p, m) PROVE IInv'
<1>1. AtWork(p) /\ m.type \in Kinds /\ (p = InitProc => InitMay(m.type))
  BY DEF Ask, MayRun, AtWork
<1>2. ~AtMM(p) /\ ~InHand(p) /\ ~Asking(p) /\ ~Free(p)
  BY <1>1 DEF AtMM, InHand, AtWork, Asking, Free
<1>3. ~SentByMM(p)
  BY <1>2 DEF SentByMM, Serving, IInv, Hands, Posting
<1>4. /\ stage' = [stage EXCEPT ![p] = "sent"] /\ msg' = [msg EXCEPT ![p] = m]
      /\ UNCHANGED <<p_parent, known>>
  BY DEF Ask
<1>5. /\ stage' \in [Proc -> {"run", "sent", "mm", "fs"}] /\ stage'[p] = "sent"
      /\ \A q \in Proc : q # p => stage'[q] = stage[q]
  BY <1>4, SetStage DEF IInv
<1>6. /\ msg' \in [Proc -> Requests \cup {Nothing}] /\ msg'[p] = m
      /\ \A q \in Proc : q # p => msg'[q] = msg[q]
  BY <1>4 DEF IInv, TypeOK
<1>7. Served'
  BY <1>1, <1>6 DEF IInv, Served
<1>8. Alive(InitProc)' => InitLives'
  <2>1. p = InitProc => m.type \in {"FORK", "WAIT"}
    BY <1>1 DEF InitMay
  <2>. QED BY <1>4, <1>6, <2>1, MmAssumption DEF IInv, InitLives
<1>9. CASE mm.pc = "listen"
  <2>1. /\ mm' = [mm EXCEPT !.pc = "dispatch", !.src = p]
        /\ UNCHANGED <<p_flags, q_sending>>
    BY <1>9 DEF Ask, Serving
  <2>2. mm' \in MmRecord /\ mm'.pc = "dispatch" /\ mm'.src = p /\ ~Adopting
    BY <1>9, <2>1 DEF IInv, MmRecord, Adopting, Cleaning
  <2>3. InHand(p)' /\ ~Asking(p)'
    BY <1>1, <1>5, <2>1 DEF InHand, AtMM, Asking, AtWork
  <2>4. TypeOK'
    BY <1>4, <1>5, <1>6, <2>1, <2>2 DEF IInv, TypeOK, MmRecord
  <2>5. QueueExact'
    BY <1>2, <1>5, <2>1, <2>3, Same DEF IInv, QueueExact
  <2>6. Hands'
    BY <2>2, <2>3 DEF Hands, Posting
  <2>7. Ending' /\ Burying'
    BY <2>2 DEF Ending, Burying, Adopting, Cleaning
  <2>8. Stages' /\ Alive(InitProc)' /\ Parents' /\ NoZombie'
    BY <1>2, <1>4, <1>5, <2>1, <2>2, <2>3, Living
  <2>. QED BY <1>7, <1>8, <2>2, <2>4, <2>5, <2>6, <2>7, <2>8 DEF IInv
<1>10. CASE mm.pc # "listen"
  <2>1. /\ p_flags' = [p_flags EXCEPT ![p] = {"SENDING"}]
        /\ q_sending' = Append(q_sending, p) /\ UNCHANGED mm
    BY <1>3, <1>10 DEF Ask, Serving
  <2>2. /\ p_flags' \in [Proc -> FlagSets] /\ p_flags'[p] = {"SENDING"}
        /\ \A q \in Proc : q # p => p_flags'[q] = p_flags[q]
    BY <2>1, SetFlags DEF IInv, FlagSets
  <2>3. Asking(p)'
    BY <1>5, <2>2 DEF Asking
  <2>4. /\ Append(q_sending, p) \in Seq(Proc) /\ Distinct(Append(q_sending, p))
        /\ \A r : In(r, Append(q_sending, p)) <=> In(r, q_sending) \/ r = p
    BY <1>2, AppendOne DEF IInv, TypeOK, QueueExact
  <2>5. TypeOK' /\ mm' \in MmRecord
    BY <1>4, <1>5, <1>6, <2>1, <2>2, <2>4 DEF IInv, TypeOK, FlagSets, MmRecord
  <2>6. QueueExact'
    <3>1. ASSUME NEW q \in Proc PROVE Asking(q)' <=> In(q, Append(q_sending, p))
      BY <1>5, <2>2, <2>3, <2>4, Same DEF IInv, QueueExact
    <3>. QED BY <2>1, <2>4, <3>1 DEF QueueExact
  <2>7. Hands'
    BY <1>2, <1>5, <2>1, <2>2, Same DEF IInv, Hands, Posting
  <2>8. Ending'
    BY <1>2, <1>5, <1>6, <2>1, <2>2, Same DEF IInv, Ending, Posting, Adopting, Cleaning
  <2>9. Burying'
    BY <1>2, <1>5, <2>1, <2>2, Same DEF IInv, Burying, Posting, Adopting, Cleaning
  <2>10. Stages' /\ Alive(InitProc)' /\ Parents' /\ NoZombie'
    BY <1>2, <1>4, <1>5, <2>1, <2>2, <2>3, Living DEF Adopting, Cleaning
  <2>. QED BY <1>7, <1>8, <2>5, <2>6, <2>7, <2>8, <2>9, <2>10 DEF IInv
<1>. QED BY <1>9, <1>10

\* The child is as its parent is: in MM's hands.
LEMMA ForkCopyInv == ASSUME IInv, NEW c \in Proc, ForkCopy(c) PROVE IInv'
<1>1. mm.src \in Proc /\ InHand(mm.src) /\ ~Adopting
  BY Served1 DEF ForkCopy
<1>2. PICK s \in Proc : s = mm.src
  BY <1>1
<1>3. InHand(s) /\ ~Free(s) /\ Free(c) /\ c # s /\ c # InitProc /\ ~Alive(c)
  BY <1>1, <1>2, Situations DEF ForkCopy, First, FreeSlots, IInv, InitLives, Free, Alive
<1>4. UNCHANGED q_sending
  BY DEF ForkCopy
<1>5. p_flags[s] \in FlagSets /\ stage[s] \in {"run", "sent", "mm", "fs"}
  BY DEF IInv, TypeOK, FlagSets
<1>6. /\ p_flags' \in [Proc -> FlagSets] /\ p_flags'[c] = p_flags[s]
      /\ \A q \in Proc : q # c => p_flags'[q] = p_flags[q]
  BY <1>2, <1>5, SetFlags DEF ForkCopy, IInv
<1>7. /\ stage' \in [Proc -> {"run", "sent", "mm", "fs"}] /\ stage'[c] = stage[s]
      /\ \A q \in Proc : q # c => stage'[q] = stage[q]
  BY <1>2, <1>5, SetStage DEF ForkCopy, IInv
<1>8. /\ msg' \in [Proc -> Requests \cup {Nothing}] /\ msg'[c] = msg[s]
      /\ \A q \in Proc : q # c => msg'[q] = msg[q]
  BY <1>2 DEF ForkCopy, IInv, TypeOK
<1>9. /\ p_parent' \in [Proc -> Proc \cup {NO_TASK}] /\ p_parent'[c] = s
      /\ \A q \in Proc : q # c => p_parent'[q] = p_parent[q]
  BY <1>2 DEF ForkCopy, IInv, TypeOK
<1>10. known' \in [Proc -> BOOLEAN]
  BY DEF ForkCopy, IInv, TypeOK
<1>11. /\ mm' \in MmRecord
       /\ mm'.pc = "fork_fs" /\ mm'.src = s /\ mm'.victim = c
  BY <1>2 DEF ForkCopy, IInv, MmRecord
<1>12. InHand(c)' /\ InHand(s)' /\ ~Asking(c) /\ ~Asking(c)' /\ ~Free(c)'
  BY <1>3, <1>6, <1>7 DEF InHand, AtMM, Asking, Free
<1>13. Alive(c)' /\ "HANGING" \notin p_flags'[c] /\ ~IsWaiting(c)'
  BY <1>12 DEF InHand, AtMM, Alive, IsWaiting
<1>14. TypeOK'
  <2>1. {mm'.src, mm'.victim, mm'.to, mm'.dead} \subseteq Proc \cup {NO_TASK}
    BY <1>11 DEF MmRecord
  <2>2. q_sending' \in Seq(Proc)
    BY <1>4 DEF IInv, TypeOK
  <2>. QED BY <1>6, <1>7, <1>8, <1>9, <1>10, <2>1, <2>2 DEF TypeOK, FlagSets
<1>15. Stages'
  BY <1>6, <1>7, <1>12, Same DEF IInv, Stages, InHand
<1>16. QueueExact'
  BY <1>4, <1>6, <1>7, <1>12, Same DEF IInv, QueueExact
<1>17. InitLives'
  BY <1>3, <1>6, <1>7, <1>8, <1>9, Same, MmAssumption DEF IInv, InitLives
<1>18. Served'
  BY <1>8 DEF IInv, Served
<1>19. Hands'
  BY <1>3, <1>11, <1>12 DEF Hands, Posting
<1>20. Ending' /\ Burying'
  BY <1>11 DEF Ending, Burying, Adopting, Cleaning
<1>21. Parents'
  <2>1. ASSUME NEW q \in Proc PROVE p_parent'[q] # q
    BY <1>3, <1>9 DEF IInv, Parents
  <2>2. ASSUME NEW q \in Proc \ {InitProc}, ~Free(q)'
        PROVE  \E r \in Proc : r = p_parent'[q] /\ Alive(r)'
    <3>1. CASE q = c
      <4>1. Alive(s)'
        BY <1>12 DEF InHand, AtMM, Alive
      <4>. QED BY <1>9, <3>1, <4>1
    <3>2. CASE q # c
      <4>1. ~Free(q)
        BY <1>6, <1>7, <2>2, <3>2, Same
      <4>2. PICK r \in Proc : r = p_parent[q]
        BY <4>1 DEF IInv, Parents
      <4>3. Alive(r) /\ r # c
        BY <1>1, <1>3, <4>1, <4>2 DEF IInv, Parents
      <4>4. Alive(r)'
        BY <1>6, <1>7, <4>3, Same
      <4>. QED BY <1>9, <3>2, <4>2, <4>4
    <3>. QED BY <3>1, <3>2
  <2>. QED BY <2>1, <2>2 DEF Parents, Alive
<1>22. NoZombie'
  <2>1. ASSUME NEW q \in Proc, "HANGING" \in p_flags'[q], NEW r \in Proc, r = p_parent'[q]
        PROVE  "WAITING" \notin p_flags'[r]
    <3>1. "HANGING" \in p_flags[q] /\ r = p_parent[q]
      BY <1>6, <1>9, <1>13, <2>1
    <3>2. CASE r = c
      BY <1>13, <3>2 DEF IsWaiting
    <3>3. CASE r # c
      BY <1>6, <3>1, <3>3 DEF IInv, NoZombie, IsWaiting
    <3>. QED BY <3>2, <3>3
  <2>. QED BY <2>1 DEF NoZombie, IsWaiting
<1>. QED
   BY <1>11, <1>14, <1>15, <1>16, <1>17, <1>18, <1>19, <1>20, <1>21, <1>22 DEF IInv

\* The caller of execv is in RECEIVE, and stays there.
LEMMA ExecInv == ASSUME IInv, Exec PROVE IInv'
<1>1. mm.pc = "exec_fs" /\ mm.src \in Proc /\ InHand(mm.src) /\ stage[mm.src] = "mm" /\ ~Adopting
  BY DEF Exec, Serving, IInv, Hands, Adopting, Cleaning
<1>2. AtReceive(mm.src)
  BY <1>1 DEF InHand, AtMM, AtReceive
<1>3. UNCHANGED stage
  BY <1>2 DEF Exec, IInv, TypeOK
<1>. QED BY <1>1, <1>3, Answer DEF Exec, IInv, TypeOK

\* A parent that has no dead child waits.
LEMMA WaitBlocksInv == ASSUME IInv, WaitBlocks PROVE IInv'
<1>1. mm.src \in Proc /\ InHand(mm.src) /\ ~Adopting
  BY Served1 DEF WaitBlocks
<1>2. PICK s \in Proc : s = mm.src
  BY <1>1
<1>3. InHand(s) /\ AtMM(s) /\ p_flags[s] \cup {"WAITING"} \in FlagSets /\ ~Free(s)
  BY <1>1, <1>2, Situations DEF InHand, AtMM, FlagSets
<1>4. /\ p_flags' = [p_flags EXCEPT ![s] = p_flags[s] \cup {"WAITING"}]
      /\ UNCHANGED <<p_parent, stage, msg, known, q_sending>>
      /\ mm' = Loop
  BY <1>2 DEF WaitBlocks
<1>5. /\ p_flags' \in [Proc -> FlagSets] /\ p_flags'[s] = p_flags[s] \cup {"WAITING"}
      /\ \A q \in Proc : q # s => p_flags'[q] = p_flags[q]
  BY <1>3, <1>4, SetFlags DEF IInv
<1>6. mm' \in MmRecord /\ mm'.pc = "loop"
  BY <1>4, LoopFields
<1>7. AtMM(s)' /\ ~Asking(s) /\ ~Asking(s)'
  BY <1>3, <1>4, <1>5 DEF AtMM, Asking
<1>8. \A q \in Proc : (Free(q)' <=> Free(q)) /\ (Alive(q)' <=> Alive(q))
  BY <1>3, <1>4, <1>5, Same DEF Free, Alive, AtMM
<1>9. TypeOK'
  BY <1>4, <1>5, <1>6, Types DEF IInv, TypeOK
<1>10. Stages'
  BY <1>4, <1>5, <1>7, Same DEF IInv, Stages
<1>11. QueueExact'
  BY <1>4, <1>5, <1>7, Same DEF IInv, QueueExact
<1>12. InitLives' /\ Served'
  BY <1>4, <1>8, MmAssumption DEF IInv, InitLives, Served
<1>13. Hands' /\ Ending' /\ Burying'
  BY <1>6 DEF Hands, Posting, Ending, Burying, Adopting, Cleaning
<1>14. Parents'
  BY <1>1, <1>4, <1>8 DEF IInv, Parents
<1>15. NoZombie'
  <2>1. ASSUME NEW q \in Proc, "HANGING" \in p_flags'[q] PROVE ~IsWaiting(p_parent[q])'
    <3>1. "HANGING" \in p_flags[q]
      BY <1>5, <2>1
    <3>2. p_parent[q] # s
      BY <1>2, <3>1 DEF WaitBlocks, Zombies, Children
    <3>. QED BY <1>4, <1>5, <3>1, <3>2 DEF IInv, NoZombie, IsWaiting
  <2>. QED BY <1>4, <2>1 DEF NoZombie, IsWaiting
<1>. QED BY <1>6, <1>9, <1>10, <1>11, <1>12, <1>13, <1>14, <1>15 DEF IInv

\* The end of a process: MM will tell the parent that waits, or lets it hang.
LEMMA ExitInv == ASSUME IInv, ~KillAnybody, Exit PROVE IInv'
<1>1. mm.pc = "exit_fs" /\ ~Adopting
  BY DEF Exit, Serving, Adopting, Cleaning
<1>2. PICK s \in Proc : s = mm.src /\ InHand(s)
  BY <1>1 DEF IInv, Hands
<1>3. PICK v \in Proc \ {InitProc} : v = mm.victim
  BY <1>1 DEF IInv, Ending
<1>4. /\ AtMM(v) /\ Alive(v)
      /\ \/ msg[s].type = "EXIT" /\ v = s
         \/ msg[s].type = "KILL" /\ v # s
  <2>1. CASE msg[s].type = "EXIT" /\ v = s
    BY <1>2, <2>1, Situations
  <2>2. CASE msg[s].type = "KILL"
    <3>1. Alive(v) /\ IsWaiting(v)
      BY <1>2, <1>3, <2>2 DEF Exit, KillTaken
    <3>. QED BY <1>2, <2>2, <3>1, Situations DEF IInv, Stages
  <2>. QED BY <1>1, <1>2, <1>3, <2>1, <2>2 DEF IInv, Ending
<1>5. PICK p \in Proc : p = p_parent[v] /\ Alive(p) /\ p # v
  BY <1>1, <1>4, Situations DEF IInv, Parents
<1>6. /\ ~Free(v) /\ ~Asking(v)
      /\ UNCHANGED <<p_parent, stage, msg, known, q_sending>>
  BY <1>4, Situations DEF Exit
<1>7. CASE IsWaiting(p)
  <2>1. /\ p_flags' = [p_flags EXCEPT ![p] = p_flags[p] \ {"WAITING"}]
        /\ mm' = CleanUp(v, p, "adopt")
    BY <1>3, <1>5, <1>7 DEF Exit
  <2>2. AtMM(p) /\ p # s /\ p_flags[p] \ {"WAITING"} \in FlagSets
    <3>1. AtMM(p)
      BY <1>5, <1>7, Situations DEF IInv, Stages
    <3>. QED BY <1>2, <1>7, <3>1, Situations DEF AtMM, FlagSets
  <2>3. /\ p_flags' \in [Proc -> FlagSets] /\ p_flags'[p] = p_flags[p] \ {"WAITING"}
        /\ \A q \in Proc : q # p => p_flags'[q] = p_flags[q]
    BY <2>1, <2>2, SetFlags DEF IInv
  <2>4. /\ mm' \in MmRecord
        /\ mm'.pc = "send" /\ mm'.to = p /\ mm'.dead = v /\ mm'.then = "free"
        /\ mm'.next = "adopt" /\ mm'.src = s /\ mm'.victim = v
    BY <1>2, <1>3, <2>1, CleanUpFields DEF IInv
  <2>5. AtMM(p)' /\ InHand(p)' /\ ~Asking(p) /\ ~Asking(p)'
    BY <1>5, <1>6, <2>2, <2>3 DEF AtMM, InHand, Asking, Alive
  <2>6. \A q \in Proc : (Free(q)' <=> Free(q)) /\ (Alive(q)' <=> Alive(q))
    BY <1>6, <2>2, <2>3, <2>5, Same DEF Free, Alive, AtMM
  <2>7. TypeOK'
    BY <1>6, <2>3, <2>4, Types DEF IInv, TypeOK
  <2>8. Stages'
    BY <1>6, <2>3, <2>5, Same DEF IInv, Stages
  <2>9. QueueExact'
    BY <1>6, <2>3, <2>5, Same DEF IInv, QueueExact
  <2>10. InitLives' /\ Served'
    BY <1>6, <2>6, MmAssumption DEF IInv, InitLives, Served
  <2>11. Hands'
    BY <2>4, <2>5 DEF Hands, Posting
  <2>12. InHand(s)' /\ AtMM(s)' /\ AtMM(v)'
    BY <1>2, <1>4, <1>5, <1>6, <2>2, <2>3, Same, Situations
  <2>13. Ending'
    BY <1>4, <1>6, <2>2, <2>4, <2>12 DEF Ending
  <2>14. Burying'
    BY <1>5, <2>4, <2>12 DEF Burying, Adopting, Cleaning
  <2>15. Parents'
    BY <1>1, <1>6, <2>6 DEF IInv, Parents
  <2>16. NoZombie'
    BY <1>6, <2>3 DEF IInv, NoZombie, IsWaiting
  <2>. QED
     BY <2>4, <2>7, <2>8, <2>9, <2>10, <2>11, <2>13, <2>14, <2>15, <2>16 DEF IInv
<1>8. CASE ~IsWaiting(p)
  <2>1. /\ p_flags' = [p_flags EXCEPT ![v] = p_flags[v] \cup {"HANGING"}]
        /\ mm' = [mm EXCEPT !.pc = "adopt"]
    BY <1>3, <1>5, <1>8 DEF Exit
  <2>2. p_flags[v] \cup {"HANGING"} \in FlagSets
    BY <1>4 DEF AtMM, FlagSets
  <2>3. /\ p_flags' \in [Proc -> FlagSets] /\ p_flags'[v] = p_flags[v] \cup {"HANGING"}
        /\ \A q \in Proc : q # v => p_flags'[q] = p_flags[q]
    BY <2>1, <2>2, SetFlags DEF IInv
  <2>4. /\ mm' \in MmRecord /\ mm'.pc = "adopt" /\ mm'.src = s /\ mm'.victim = v
    BY <1>2, <1>3, <2>1, GoOn DEF IInv
  <2>5. AtMM(v)' /\ ~Asking(v)' /\ ~Free(v)'
    BY <1>4, <1>6, <2>3 DEF AtMM, Asking, Free
  <2>6. \A q \in Proc : q # v => (Alive(q) => Alive(q)')
    BY <1>6, <2>3, Same
  <2>7. TypeOK'
    BY <1>6, <2>3, <2>4, Types DEF IInv, TypeOK
  <2>8. Stages'
    BY <1>6, <2>3, <2>5, Same DEF IInv, Stages
  <2>9. QueueExact'
    BY <1>6, <2>3, <2>5, Same DEF IInv, QueueExact
  <2>10. InitLives' /\ Served'
    BY <1>3, <1>6, <2>6, MmAssumption DEF IInv, InitLives, Served
  <2>11. Hands'
    BY <2>4 DEF Hands, Posting
  <2>12. Ending'
    <3>1. v # s => InHand(s)'
      BY <1>2, <1>6, <2>3, Same
    <3>. QED BY <1>3, <1>4, <1>6, <2>4, <2>5, <3>1 DEF Ending, Posting
  <2>13. Burying'
    BY <2>4 DEF Burying, Cleaning
  <2>14. Parents'
    <3>1. Adopting' /\ mm'.victim = v
      BY <2>4 DEF Adopting
    <3>2. ASSUME NEW q \in Proc \ {InitProc}, ~Free(q)'
          PROVE  \E r \in Proc : r = p_parent[q] /\ (Alive(r)' \/ r = v)
      <4>1. ~Free(q)
        BY <1>6, <2>3, <3>2, Same
      <4>2. PICK r \in Proc : r = p_parent[q] /\ Alive(r)
        BY <1>1, <4>1 DEF IInv, Parents
      <4>. QED BY <2>6, <4>2
    <3>3. \A q \in Proc : p_parent[q] # q
      BY DEF IInv, Parents
    <3>. QED BY <1>6, <3>1, <3>2, <3>3 DEF Parents, Alive
  <2>15. NoZombie'
    <3>1. ASSUME NEW q \in Proc, "HANGING" \in p_flags'[q], NEW r \in Proc, r = p_parent[q]
          PROVE  "WAITING" \notin p_flags'[r]
      <4>1. "WAITING" \notin p_flags[r]
        BY <1>5, <1>8, <2>3, <3>1 DEF IInv, NoZombie, IsWaiting
      <4>. QED BY <2>3, <4>1
    <3>. QED BY <1>6, <3>1 DEF NoZombie, IsWaiting
  <2>. QED
     BY <2>4, <2>7, <2>8, <2>9, <2>10, <2>11, <2>12, <2>13, <2>14, <2>15 DEF IInv
<1>. QED BY <1>7, <1>8

\* A dead process is no more; if it left children, MM is still finding them a parent.
LEMMA ReleaseInv == ASSUME IInv, Release PROVE IInv'
<1>1. mm.pc = "free" /\ Cleaning
  BY DEF Release, Serving, Cleaning
<1>2. PICK z \in Proc \ {InitProc} :
          z = mm.dead /\ AtMM(z) /\ ((Adopting /\ z = mm.victim) \/ "HANGING" \in p_flags[z])
  BY <1>1 DEF IInv, Burying
<1>3. /\ p_flags' = [p_flags EXCEPT ![z] = {"FREE_SLOT"}]
      /\ mm' = [mm EXCEPT !.pc = mm.next, !.dead = NO_TASK]
      /\ UNCHANGED <<p_parent, stage, msg, known, q_sending>>
  BY <1>2 DEF Release
<1>4. /\ p_flags' \in [Proc -> FlagSets] /\ p_flags'[z] = {"FREE_SLOT"}
      /\ \A q \in Proc : q # z => p_flags'[q] = p_flags[q]
  BY <1>3, SetFlags DEF IInv, FlagSets
<1>5. /\ mm' \in MmRecord
      /\ mm'.pc = mm.next /\ mm.next \in {"loop", "adopt"}
      /\ mm'.src = mm.src /\ mm'.victim = mm.victim
  BY <1>3, Buried DEF IInv, MmRecord
<1>6. Adopting' <=> Adopting
  BY <1>1, <1>5 DEF Adopting, Cleaning
<1>7. Free(z)' /\ ~Free(z) /\ ~Asking(z) /\ ~Asking(z)'
  BY <1>2, <1>4, Situations DEF Free, Asking
<1>8. TypeOK'
  BY <1>3, <1>4, <1>5, Types DEF IInv, TypeOK
<1>9. Stages'
  BY <1>3, <1>4, <1>7, Same DEF IInv, Stages
<1>10. QueueExact'
  BY <1>3, <1>4, <1>7, Same DEF IInv, QueueExact
<1>11. InitLives' /\ Served'
  BY <1>2, <1>3, <1>4, Same, MmAssumption DEF IInv, InitLives, Served
<1>12. Hands' /\ Burying'
  BY <1>5 DEF Hands, Posting, Burying, Cleaning
<1>13. Ending'
  <2>1. ASSUME Adopting
        PROVE  /\ mm.src \in Proc /\ mm.victim \in Proc \ {InitProc}
               /\ \/ /\ msg[mm.src].type = "EXIT" /\ mm.victim = mm.src
                     /\ Free(mm.src) \/ AtMM(mm.src)
                  \/ msg[mm.src].type = "KILL" /\ InHand(mm.src) /\ mm.victim # mm.src
    BY <2>1 DEF IInv, Ending
  <2>2. ASSUME Adopting, NEW s \in Proc, s = mm.src
        PROVE  /\ Free(s) \/ AtMM(s) => Free(s)' \/ AtMM(s)'
               /\ InHand(s) /\ mm.victim # s => InHand(s)'
    <3>1. CASE s = z
      BY <1>2, <1>7, <3>1, Situations
    <3>2. CASE s # z
      BY <1>3, <1>4, <3>2, Same
    <3>. QED BY <3>1, <3>2
  <2>3. mm'.pc = "exit_fs" \/ Adopting' => Adopting
    BY <1>5, <1>6
  <2>4. ~Posting'
    BY <1>5 DEF Posting
  <2>. QED BY <1>3, <1>5, <2>1, <2>2, <2>3, <2>4 DEF Ending
<1>14. Parents'
  <2>1. ASSUME NEW q \in Proc \ {InitProc}, ~Free(q)'
        PROVE  \E r \in Proc :
                   r = p_parent[q] /\ (Alive(r)' \/ (Adopting' /\ r = mm'.victim))
    <3>1. ~Free(q)
      BY <1>3, <1>4, <1>7, <2>1, Same
    <3>2. PICK r \in Proc : r = p_parent[q] /\ (Alive(r) \/ (Adopting /\ r = mm.victim))
      BY <3>1 DEF IInv, Parents
    <3>3. CASE r = z
      <4>1. Adopting /\ r = mm.victim
        BY <1>2, <3>2, <3>3, Situations
      <4>. QED BY <1>5, <1>6, <3>2, <4>1
    <3>4. CASE r # z
      BY <1>3, <1>4, <1>5, <1>6, <3>2, <3>4, Same
    <3>. QED BY <3>3, <3>4
  <2>2. \A q \in Proc : p_parent[q] # q
    BY DEF IInv, Parents
  <2>. QED BY <1>3, <2>1, <2>2 DEF Parents, Alive
<1>15. NoZombie'
  BY <1>3, <1>4 DEF IInv, NoZombie, IsWaiting
<1>. QED
   BY <1>5, <1>8, <1>9, <1>10, <1>11, <1>12, <1>13, <1>14, <1>15 DEF IInv

\* INIT, which lives, gets one more child; if both are waiting it is told.
LEMMA AdoptInv == ASSUME IInv, NEW c \in Proc, Adopt(c) PROVE IInv'
<1>1. mm.pc = "adopt" /\ Adopting
  BY DEF Adopt, Serving, Adopting
<1>2. PICK s, v \in Proc :
          /\ s = mm.src /\ v = mm.victim /\ v # InitProc
          /\ \/ msg[s].type = "EXIT" /\ v = s /\ (Free(s) \/ AtMM(s))
             \/ msg[s].type = "KILL" /\ InHand(s) /\ v # s
  BY <1>1 DEF IInv, Ending
<1>3. c # InitProc
  BY <1>2, MmAssumption DEF Adopt, First, Children, IInv, InitLives
<1>4. UNCHANGED <<stage, msg, known, q_sending>>
  BY DEF Adopt
<1>5. /\ p_parent' \in [Proc -> Proc \cup {NO_TASK}] /\ p_parent'[c] = InitProc
      /\ \A q \in Proc : q # c => p_parent'[q] = p_parent[q]
  BY MmAssumption DEF Adopt, IInv, TypeOK
<1>6. ASSUME \A q \in Proc : (~Free(q)' => ~Free(q)) /\ (Alive(q) => Alive(q)'),
             Adopting', mm'.victim = v
      PROVE  InitLives' /\ Parents'
  <2>1. InitLives'
    BY <1>3, <1>4, <1>5, <1>6, MmAssumption DEF IInv, InitLives
  <2>2. \A q \in Proc : p_parent'[q] # q
    BY <1>3, <1>5 DEF IInv, Parents
  <2>3. ASSUME NEW q \in Proc \ {InitProc}, ~Free(q)'
        PROVE  \E r \in Proc : r = p_parent'[q] /\ (Alive(r)' \/ r = v)
    <3>1. CASE q = c
      BY <1>5, <1>6, <3>1, MmAssumption DEF IInv, InitLives
    <3>2. CASE q # c
      <4>1. PICK r \in Proc : r = p_parent[q] /\ (Alive(r) \/ r = v)
        BY <1>2, <1>6, <2>3 DEF IInv, Parents
      <4>. QED BY <1>5, <1>6, <3>2, <4>1
    <3>. QED BY <3>1, <3>2
  <2>. QED BY <1>6, <2>1, <2>2, <2>3 DEF Parents, Alive
<1>7. Served'
  BY <1>4 DEF IInv, Served
<1>8. CASE IsWaiting(InitProc) /\ "HANGING" \in p_flags[c]
  <2>1. /\ p_flags' = [p_flags EXCEPT ![InitProc] = p_flags[InitProc] \ {"WAITING"}]
        /\ mm' = CleanUp(c, InitProc, "adopt")
    BY <1>8 DEF Adopt
  <2>2. /\ InitProc \in Proc /\ AtMM(InitProc) /\ Alive(InitProc) /\ AtMM(c)
        /\ p_flags[InitProc] \ {"WAITING"} \in FlagSets
    <3>1. InitProc \in Proc /\ Alive(InitProc)
      BY MmAssumption DEF IInv, InitLives
    <3>2. AtMM(InitProc) /\ AtMM(c)
      BY <1>8, <3>1, Situations DEF IInv, Stages
    <3>. QED BY <3>1, <3>2 DEF AtMM, FlagSets
  <2>3. /\ p_flags' \in [Proc -> FlagSets] /\ p_flags'[InitProc] = p_flags[InitProc] \ {"WAITING"}
        /\ \A q \in Proc : q # InitProc => p_flags'[q] = p_flags[q]
    BY <2>1, <2>2, SetFlags DEF IInv
  <2>4. /\ mm' \in MmRecord
        /\ mm'.pc = "send" /\ mm'.to = InitProc /\ mm'.dead = c /\ mm'.then = "free"
        /\ mm'.next = "adopt" /\ mm'.src = s /\ mm'.victim = v
    BY <1>2, <2>1, <2>2, CleanUpFields DEF IInv
  <2>5. /\ AtMM(InitProc)' /\ InHand(InitProc)' /\ ~Asking(InitProc) /\ ~Asking(InitProc)'
        /\ ~Free(InitProc)
    BY <1>4, <2>2, <2>3, Situations DEF AtMM, InHand, Asking, Alive
  <2>6. \A q \in Proc : (Free(q)' <=> Free(q)) /\ (Alive(q)' <=> Alive(q))
    BY <1>4, <2>2, <2>3, <2>5, Same DEF Free, Alive, AtMM
  <2>7. TypeOK'
    BY <1>4, <1>5, <2>3, <2>4 DEF IInv, TypeOK, FlagSets, MmRecord
  <2>8. Stages'
    BY <1>4, <2>3, <2>5, Same DEF IInv, Stages
  <2>9. QueueExact'
    BY <1>4, <2>3, <2>5, Same DEF IInv, QueueExact
  <2>10. Hands'
    BY <2>2, <2>4, <2>5 DEF Hands, Posting
  <2>11. s # InitProc
    BY <1>2, <1>8, Situations
  <2>12. Ending'
    <3>1. (Free(s) => Free(s)') /\ (AtMM(s) => AtMM(s)') /\ (InHand(s) => InHand(s)')
      BY <1>4, <2>3, <2>11, Same
    <3>. QED BY <1>2, <1>4, <2>4, <2>11, <3>1 DEF Ending
  <2>13. Burying'
    <3>1. AtMM(c)' /\ "HANGING" \in p_flags'[c]
      BY <1>3, <1>4, <1>8, <2>2, <2>3, Same
    <3>. QED BY <1>3, <2>4, <3>1 DEF Burying
  <2>14. Adopting' /\ mm'.victim = v
    BY <2>4 DEF Adopting, Cleaning
  <2>15. NoZombie'
    <3>1. ASSUME NEW q \in Proc, "HANGING" \in p_flags'[q], NEW r \in Proc, r = p_parent'[q]
          PROVE  "WAITING" \notin p_flags'[r]
      BY <1>5, <2>3, <3>1 DEF IInv, NoZombie, IsWaiting
    <3>. QED BY <3>1 DEF NoZombie, IsWaiting
  <2>. QED
     BY <1>6, <1>7, <2>4, <2>6, <2>7, <2>8, <2>9, <2>10, <2>12, <2>13, <2>14, <2>15 DEF IInv
<1>9. CASE ~(IsWaiting(InitProc) /\ "HANGING" \in p_flags[c])
  <2>1. UNCHANGED <<p_flags, mm>>
    BY <1>9 DEF Adopt
  <2>2. TypeOK' /\ mm' \in MmRecord
    BY <1>4, <1>5, <2>1 DEF IInv, TypeOK, FlagSets, MmRecord
  <2>3. Stages'
    BY <1>4, <2>1, Same DEF IInv, Stages
  <2>4. QueueExact'
    BY <1>4, <2>1, Same DEF IInv, QueueExact
  <2>5. Hands'
    BY <1>4, <2>1, Same DEF IInv, Hands, Posting
  <2>6. Ending' /\ Burying'
    BY <1>4, <2>1, Same DEF IInv, Ending, Burying, Posting, Adopting, Cleaning
  <2>7. Adopting' /\ mm'.victim = v /\ \A q \in Proc : (Free(q)' <=> Free(q)) /\ (Alive(q)' <=> Alive(q))
    BY <1>1, <1>2, <1>4, <2>1, Same DEF Adopting, Cleaning
  <2>8. NoZombie'
    <3>1. ASSUME NEW q \in Proc, "HANGING" \in p_flags[q], NEW r \in Proc, r = p_parent'[q]
          PROVE  "WAITING" \notin p_flags[r]
      BY <1>5, <1>9, <3>1 DEF IInv, NoZombie, IsWaiting
    <3>. QED BY <2>1, <3>1 DEF NoZombie, IsWaiting
  <2>. QED BY <1>6, <1>7, <2>2, <2>3, <2>4, <2>5, <2>6, <2>7, <2>8 DEF IInv
<1>. QED BY <1>8, <1>9

-----------------------------------------------------------------------------
(* Every step *)

\* Only INIT is there at first, and runs.
LEMMA InitInv == Init => IInv
<1> SUFFICES ASSUME Init PROVE IInv
  OBVIOUS
<1> USE MmAssumption DEF Init
<1>1. mm \in MmRecord /\ mm.pc = "loop"
  BY LoopFields
<1>2. TypeOK
  <2>1. q_sending \in Seq(Proc)
    OBVIOUS
  <2>2. {mm.src, mm.victim, mm.to, mm.dead} \subseteq Proc \cup {NO_TASK}
    BY <1>1 DEF MmRecord
  <2>. QED BY <2>1, <2>2 DEF TypeOK, Nothing
<1>3. Stages
  BY DEF Stages, Free, AtWork
<1>4. QueueExact
  <2>1. \A p \in Proc : ~Asking(p)
    BY DEF Asking
  <2>2. Distinct(q_sending) /\ \A p : ~In(p, q_sending)
    BY DEF Distinct, In
  <2>. QED BY <2>1, <2>2 DEF QueueExact
<1>5. InitLives /\ Served
  BY DEF InitLives, Served, Alive, Nothing
<1>6. Hands /\ Ending /\ Burying
  BY <1>1 DEF Hands, Ending, Burying, Posting, Adopting, Cleaning
<1>7. Parents
  BY DEF Parents, Free, Alive
<1>8. NoZombie
  BY DEF NoZombie
<1>. QED BY <1>1, <1>2, <1>3, <1>4, <1>5, <1>6, <1>7, <1>8 DEF IInv

\* Every step of MM and of the processes keeps the invariant.
LEMMA NextInv == ASSUME ~KillAnybody, PromptExec PROVE IInv /\ [Next]_vars => IInv'
<1> SUFFICES ASSUME IInv, [Next]_vars PROVE IInv'
  OBVIOUS
<1>1. CASE MMStep
  BY <1>1, ReceiveInv, SendInv, ForkFailsInv, ForkBirthInv, ForkDoneInv, ForkCopyInv,
     ExecDispatchInv, ExecFailsInv, ExecInv, ExitDispatchInv, ExitInv, ReleaseInv, AdoptInv,
     AdoptDoneInv, WaitReapsInv, WaitBlocksInv, WaitFailsInv
  DEF MMStep
<1>2. ASSUME NEW p \in Proc,
             (\E m \in Requests : Ask(p, m)) \/ AwaitReply(p) \/ CallFS(p) \/ FSAnswers(p)
      PROVE  IInv'
  BY <1>2, AskInv, AwaitReplyInv, CallFSInv, FSAnswersInv
<1>3. CASE UNCHANGED vars
  <2>1. UNCHANGED <<p_flags, p_parent, stage, msg, known, q_sending, mm>>
    BY <1>3 DEF vars
  <2>2. mm' \in MmRecord /\ known' \in [Proc -> BOOLEAN]
    BY <2>1 DEF IInv, TypeOK
  <2>3. Hands' /\ Ending' /\ Burying'
    BY <2>1 DEF IInv, Hands, Ending, Burying, Posting, Adopting, Cleaning, InHand, AtMM, Free
  <2>4. Adopting => Adopting'
    BY <2>1 DEF Adopting, Cleaning
  <2>. QED BY <2>1, <2>2, <2>3, <2>4, Frame
<1>. QED BY <1>1, <1>2, <1>3 DEF Next

\* The inductive invariant holds of every table of processes, as long as kill
\* finds its victims waiting and execv its caller in RECEIVE.
THEOREM Invariance == ASSUME ~KillAnybody, PromptExec PROVE Spec => []IInv
<1>1. Init => IInv
  BY InitInv
<1>2. IInv /\ [Next]_vars => IInv'
  BY NextInv
<1>. QED BY <1>1, <1>2, PTL DEF Spec

\* TypeOK: in particular, a slot that is free or sends has no other flag.
THEOREM TypeCorrect == ASSUME ~KillAnybody, PromptExec PROVE Spec => []TypeOK
<1>1. IInv => TypeOK
  BY DEF IInv
<1>. QED BY <1>1, Invariance, PTL

\* KernelGoesOn: no assertion of unblock() or msg_receive fails, and deadlock()
\* finds no cycle: MM never sends to a process that could be sending to it.
THEOREM AssertionsHold == ASSUME ~KillAnybody, PromptExec PROVE Spec => []KernelGoesOn
<1>1. IInv => KernelGoesOn
  BY DEF IInv, MmRecord, KernelGoesOn, Running
<1>. QED BY <1>1, Invariance, PTL

\* NoForgottenZombie: between requests of MM no process waits whose child hangs.
THEOREM NoZombieForgotten == ASSUME ~KillAnybody, PromptExec PROVE Spec => []NoForgottenZombie
<1>1. IInv => NoForgottenZombie
  BY DEF IInv, NoZombie, NoForgottenZombie
<1>. QED BY <1>1, Invariance, PTL

\* ParentsLive: between requests of MM whoever is not free has a parent that lives.
THEOREM ParentsAlive == ASSUME ~KillAnybody, PromptExec PROVE Spec => []ParentsLive
<1>1. IInv => ParentsLive
  BY DEF IInv, Parents, ParentsLive, Idle, Adopting, Cleaning
<1>. QED BY <1>1, Invariance, PTL
=============================================================================
