--------------------------- MODULE SchedulerProofs ---------------------------
(* Proofs about module Scheduler, for every table of processes, priorities   *)
(* and time pieces.                                                          *)
EXTENDS Scheduler, SequenceTheorems, TLAPS

-----------------------------------------------------------------------------
(* The inductive invariants *)

\* The processes that kernel_main made are there for ever, and are nobody's
\* children.
NativesLive == forking.child \notin Native /\ \A p \in Native : p_flags[p] # "free"

\* A native process that runs came from a queue (but for the first).
NativeRunner ==
    pass.pc = "user" /\ p_proc_ready \in Native \ {FIRST} =>
        inqueue[p_proc_ready] /\ p_flags[p_proc_ready] = "ready"

\* A native process out of the queues has spent its ticks, or is one of those
\* that the first schedule() has still to take.
SpentOrNew ==
    \A p \in Native \ {FIRST} :
        ~inqueue[p] /\ ticks[p] # 0 =>
            /\ p_flags[p] = "ready" /\ ~isschedule[p] /\ ticks[p] = Priority[p]
            /\ \/ pass.pc = "user" /\ p_proc_ready = FIRST
               \/ pass.pc = "fill" /\ pass.slot <= p

\* What holds of the native processes whatever slots fork takes.
NInv ==
    /\ TypeOK
    /\ NativesLive
    /\ NativeRunner
    /\ SpentOrNew

\* p is at no place of q, or at one.
Absent(q, p) == \A i \in 1 .. Len(q) : q[i] # p
Once(q, p)   == \E i \in 1 .. Len(q) : \A j \in 1 .. Len(q) : q[j] = p <=> j = i

\* The bookkeeping of p says it is in queue k, and is p's own.
Queued(p, k) == inqueue[p] /\ whichqueue[p] = k /\ p # forking.child

\* QueuesConsistent, without the sets of places.
Places ==
    \A p \in Proc, k \in Level :
        /\ Queued(p, k) => Once(queue[k], p)
        /\ ~Queued(p, k) => Absent(queue[k], p)

\* The scan always looks at the front of its queue, and never past its end, so
\* that outqueue drops the process that was visited.
ScanState ==
    /\ pass.pc \in {"user", "fill", "scan"}
    /\ pass.pc = "scan" => pass.skip = 0 /\ pass.count <= Len(queue[pass.queue_num])

\* The parent of a fork in progress waits, and the child wears its fields.
ForkState ==
    \/ forking = NotForking
    \/ /\ forking.parent \in Proc \ (IntTasks \cup {MM}) /\ p_flags[forking.parent] = "blocked"
       /\ forking.child \in Proc \ Native /\ inqueue[forking.child]
       /\ forking.child # forking.parent
       /\ p_flags[forking.child] = IF forking.sent THEN "ready" ELSE "blocked"

\* Only a task that an interrupt served can block without being in a queue.
BlockedQueued == \A p \in Proc \ IntTasks : p_flags[p] = "blocked" => inqueue[p]

\* Whoever runs can run, and came from a queue (but for the first).
Runner ==
    pass.pc = "user" =>
        /\ p_flags[p_proc_ready] = "ready" /\ p_proc_ready # forking.child
        /\ inqueue[p_proc_ready] \/ p_proc_ready = FIRST

\* NobodyForgotten, of the blocked too: they may be woken at any time.
Remembered ==
    \A p \in Proc : p_flags[p] # "free" /\ ~inqueue[p] => ticks[p] = 0 \/ ~isschedule[p]

\* Whoever could run is in a queue the scan has still to visit, or in the part of
\* its queue still to visit (the last queue is refilled while it is scanned).
HigherDone ==
    pass.pc = "scan" =>
        \A p \in Proc \ IntTasks :
            CouldRun(p) =>
                /\ pass.queue_num <= whichqueue[p]
                /\ pass.queue_num < 2 /\ whichqueue[p] = pass.queue_num =>
                       \E i \in 1 .. pass.count : queue[pass.queue_num][i] = p

\* What holds besides as long as fork takes no slot which a dead process left in a queue.
IInv ==
    /\ Places
    /\ ScanState
    /\ ForkState
    /\ BlockedQueued
    /\ Runner
    /\ Remembered
    /\ HigherDone

-----------------------------------------------------------------------------
(* Queues *)

\* Appending a process that is not in a queue puts it there once, and moves
\* nobody.
LEMMA AppendAbsent ==
    ASSUME NEW S, NEW q \in Seq(S), NEW p \in S, Absent(q, p)
    PROVE  /\ Append(q, p) \in Seq(S)
           /\ Len(Append(q, p)) = Len(q) + 1
           /\ \A i \in 1 .. Len(q) : Append(q, p)[i] = q[i]
           /\ Once(Append(q, p), p)
           /\ \A r : r # p /\ Once(q, r) => Once(Append(q, p), r)
           /\ \A r : r # p /\ Absent(q, r) => Absent(Append(q, p), r)
<1> DEFINE t == Append(q, p)
<1>1. /\ t \in Seq(S) /\ Len(q) \in Nat /\ Len(t) = Len(q) + 1
      /\ \A i \in 1 .. Len(q) : t[i] = q[i]
      /\ t[Len(q) + 1] = p
  OBVIOUS
<1> HIDE DEF t
<1>2. Once(t, p)
  <2>1. \A j \in 1 .. Len(t) : t[j] = p <=> j = Len(q) + 1
    BY <1>1 DEF Absent
  <2>. QED BY <2>1, <1>1 DEF Once
<1>3. ASSUME NEW r, r # p, Once(q, r) PROVE Once(t, r)
  <2>1. PICK i \in 1 .. Len(q) : \A j \in 1 .. Len(q) : q[j] = r <=> j = i
    BY <1>3 DEF Once
  <2>2. \A j \in 1 .. Len(t) : t[j] = r <=> j = i
    BY <1>1, <1>3, <2>1
  <2>. QED BY <2>2, <1>1 DEF Once
<1>4. ASSUME NEW r, r # p, Absent(q, r) PROVE Absent(t, r)
  BY <1>1, <1>4 DEF Absent
<1>. QED BY <1>1, <1>2, <1>3, <1>4 DEF t

\* Dropping the front of a queue drops the process at the front, and moves the
\* others one place forward.
LEMMA DropFront ==
    ASSUME NEW S, NEW q \in Seq(S), Len(q) > 0, Once(q, q[1])
    PROVE  /\ SubSeq(q, 2, Len(q)) \in Seq(S)
           /\ Len(SubSeq(q, 2, Len(q))) = Len(q) - 1
           /\ \A i \in 1 .. Len(q) - 1 : SubSeq(q, 2, Len(q))[i] = q[i + 1]
           /\ Absent(SubSeq(q, 2, Len(q)), q[1])
           /\ \A r : r # q[1] /\ Once(q, r) => Once(SubSeq(q, 2, Len(q)), r)
           /\ \A r : Absent(q, r) => Absent(SubSeq(q, 2, Len(q)), r)
<1> DEFINE t == SubSeq(q, 2, Len(q))
<1>1. Len(q) \in Nat
  OBVIOUS
<1>2. /\ t \in Seq(S) /\ Len(t) = Len(q) - 1
      /\ \A i \in 1 .. Len(q) - 1 : t[i] = q[i + 1]
  <2>1. \A i \in 2 .. Len(q) : q[i] \in S
    BY <1>1
  <2>2. /\ t \in Seq(S)
        /\ Len(t) = IF 2 <= Len(q) THEN Len(q) - 2 + 1 ELSE 0
        /\ \A i \in 1 .. Len(q) - 2 + 1 : t[i] = q[2 + i - 1]
    <3>1. 2 \in Int /\ Len(q) \in Int
      BY <1>1
    <3>. HIDE DEF t
    <3>2. t = SubSeq(q, 2, Len(q))
      BY DEF t
    <3>. QED BY <2>1, <3>1, <3>2, SubSeqProperties
  <2>. HIDE DEF t
  <2>3. ASSUME NEW n \in Nat, n > 0
        PROVE  n - 2 + 1 = n - 1 /\ (IF 2 <= n THEN n - 2 + 1 ELSE 0) = n - 1
    BY <2>3
  <2>4. Len(q) - 2 + 1 = Len(q) - 1 /\ Len(t) = Len(q) - 1
    BY <2>2, <2>3, <1>1, Zenon
  <2>5. ASSUME NEW i \in 1 .. Len(q) - 1 PROVE t[i] = q[i + 1]
    <3>1. t[i] = q[2 + i - 1]
      BY <2>2, <2>4
    <3>2. 2 + i - 1 = i + 1
      BY <1>1
    <3>. QED BY <3>1, <3>2
  <2>. QED BY <2>2, <2>4, <2>5
<1> HIDE DEF t
<1>3. Absent(t, q[1])
  BY <1>1, <1>2 DEF Once, Absent
<1>4. ASSUME NEW r, r # q[1], Once(q, r) PROVE Once(t, r)
  <2>1. PICK i \in 1 .. Len(q) : \A j \in 1 .. Len(q) : q[j] = r <=> j = i
    BY <1>4 DEF Once
  <2>2. i # 1
    BY <2>1, <1>1, <1>4
  <2>3. i - 1 \in 1 .. Len(t) /\ \A j \in 1 .. Len(t) : t[j] = r <=> j = i - 1
    BY <2>1, <2>2, <1>1, <1>2
  <2>. QED BY <2>3 DEF Once
<1>5. ASSUME NEW r, Absent(q, r) PROVE Absent(t, r)
  BY <1>1, <1>2, <1>5 DEF Absent
<1>. QED BY <1>2, <1>3, <1>4, <1>5 DEF t

-----------------------------------------------------------------------------
(* What fork cannot break *)

PassType == [pc : {"user", "fill", "scan", "assert", "underflow"},
             slot : Nat, queue_num : Level, skip : Nat, count : Nat]

\* schedule() starts in a state of the right type.
LEMMA EnteredType == Entered \in PassType
  BY DEF Entered, Outside, Level, PassType

\* A scan of a whole queue begins in a state of the right type.
LEMMA ScanningType ==
    ASSUME TypeOK, NEW k \in Level
    PROVE  /\ Scanning(k) \in PassType
           /\ Scanning(k).pc = "scan" /\ Scanning(k).queue_num = k /\ Scanning(k).skip = 0
           /\ Scanning(k).count = Len(queue[k]) /\ Len(queue[k]) \in Nat
<1>1. queue[k] \in Seq(Proc)
  BY DEF TypeOK
<1>2. Len(queue[k]) \in Nat
  BY <1>1
<1>3. ASSUME NEW n \in Nat, NEW r,
             r = [Outside EXCEPT !.pc = "scan", !.queue_num = k, !.count = n]
      PROVE  /\ r \in PassType
             /\ r.pc = "scan" /\ r.queue_num = k /\ r.skip = 0 /\ r.count = n
  BY <1>3 DEF Outside, Level, PassType
<1>. QED BY <1>2, <1>3, Zenon DEF Scanning

\* So is the state after a visit, whatever the scan has met.
LEMMA VisitType ==
    ASSUME TypeOK, NEW p \in Proc, Visiting(p)
    PROVE  Left(p) \in PassType /\ outqueue(p) \in [Level -> Seq(Proc)]
<1>1. pass \in PassType /\ pass.count \in Nat /\ pass.count > 0 /\ pass.skip \in Nat
  BY DEF TypeOK, Visiting, PassType
<1>2. pass.count - 1 \in Nat /\ pass.skip + 1 \in Nat
  BY <1>1
<1>3. ASSUME NEW m \in Nat, NEW n \in Nat
      PROVE  [pass EXCEPT !.count = m, !.skip = n] \in PassType
  BY <1>1 DEF PassType
<1>4. Visited(p) \in PassType
  BY <1>1, <1>2, <1>3 DEF Visited
<1>5. Stop("assert") \in PassType /\ Stop("underflow") \in PassType
  BY DEF Stop, Outside, PassType, Level
<1>6. ASSUME NEW q \in Seq(Proc) PROVE SubSeq(q, 2, Len(q)) \in Seq(Proc)
  <2>1. 2 \in Int /\ Len(q) \in Int /\ \A i \in 2 .. Len(q) : q[i] \in Proc
    OBVIOUS
  <2>. QED BY <2>1, SubSeqProperties
<1>7. outqueue(p) \in [Level -> Seq(Proc)]
  BY <1>6 DEF outqueue, TypeOK
<1>. QED BY <1>4, <1>5, <1>7 DEF Left

\* Every step goes from a state of the right type to one of the right type.
LEMMA TypeNext == ASSUME TypeOK, [Next]_vars PROVE TypeOK'
<1> USE SchedulerAssumption
<1>1. ASSUME NEW t \in Nat PROVE (IF t > 0 THEN t - 1 ELSE 0) \in Nat
  OBVIOUS
<1>2. CASE clock_handler
  <2>1. ticks' \in [Proc -> Nat] /\ time' \in [Proc -> Nat]
    BY <1>1, <1>2 DEF TypeOK, clock_handler
  <2>. QED BY <2>1, <1>2, EnteredType DEF TypeOK, clock_handler, PassType
<1>3. CASE block
  <2>1. p_flags' \in [Proc -> {"ready", "blocked", "free"}]
    BY <1>3 DEF TypeOK, block
  <2>. QED BY <2>1, <1>3, EnteredType DEF TypeOK, block, book, PassType
<1>4. ASSUME NEW p \in Proc, unblock(p) \/ Exit(p) PROVE TypeOK'
  <2>1. \E f \in {"ready", "free"} : p_flags' = [p_flags EXCEPT ![p] = f]
    BY <1>4 DEF unblock, Exit
  <2>2. p_flags' \in [Proc -> {"ready", "blocked", "free"}]
    BY <2>1 DEF TypeOK
  <2>3. CASE unblock(p)
    BY <2>2, <2>3 DEF TypeOK, unblock, book
  <2>4. CASE Exit(p)
    BY <2>2, <2>4 DEF TypeOK, Exit, book
  <2>. QED BY <1>4, <2>3, <2>4
<1>5. ASSUME NEW p \in Proc, Enqueue(p) PROVE TypeOK'
  <2>1. 0 \in Level /\ p \in Nat
    BY DEF Level
  <2>2. queue' \in [Level -> Seq(Proc)]
    <3>1. queue[0] \in Seq(Proc)
      BY <2>1 DEF TypeOK
    <3>2. Append(queue[0], p) \in Seq(Proc)
      BY <3>1
    <3>. QED BY <3>2, <2>1, <1>5 DEF TypeOK, Enqueue
  <2>3. time' \in [Proc -> Nat] /\ ticks' \in [Proc -> Nat]
    BY <2>1, <1>5 DEF TypeOK, Enqueue
  <2>4. inqueue' \in [Proc -> BOOLEAN] /\ isschedule' \in [Proc -> BOOLEAN]
        /\ whichqueue' \in [Proc -> Level]
    BY <2>1, <1>5 DEF TypeOK, Enqueue
  <2>5. pass' \in PassType
    BY <2>1, <1>5 DEF TypeOK, Enqueue, PassType
  <2>. QED BY <2>2, <2>3, <2>4, <2>5, <1>5 DEF TypeOK, Enqueue, PassType
<1>6. CASE StartScan
  <2>1. pass' \in PassType
    BY <1>6, ScanningType DEF StartScan, Level
  <2>. QED BY <2>1, <1>6 DEF TypeOK, StartScan, book, PassType
<1>7. CASE NextQueue
  <2>1. pass.queue_num + 1 \in Level
    BY <1>7, SMTT(30) DEF NextQueue, TypeOK, Level
  <2>2. pass' \in PassType
    BY <2>1, <1>7, ScanningType DEF NextQueue
  <2>. QED BY <2>2, <1>7 DEF TypeOK, NextQueue, book, PassType
<1>8. CASE Unlock
  BY <1>8, EnteredType DEF TypeOK, Unlock, PassType
<1>9. ASSUME NEW p \in Proc, Visiting(p), NEW d \in Level,
             queue' = outqueue(p) \/ queue' = [outqueue(p) EXCEPT ![d] = Append(@, p)]
      PROVE  queue' \in [Level -> Seq(Proc)]
  <2>1. outqueue(p) \in [Level -> Seq(Proc)]
    BY <1>9, VisitType
  <2>2. Append(outqueue(p)[d], p) \in Seq(Proc)
    <3>1. outqueue(p)[d] \in Seq(Proc)
      BY <2>1
    <3>. QED BY <3>1
  <2>. QED BY <2>1, <2>2, <1>9
<1>10. ASSUME NEW p \in Proc, VisitBlocked(p) PROVE TypeOK'
  <2>1. pass' \in PassType /\ queue' \in [Level -> Seq(Proc)]
    BY <1>9, <1>10, VisitType DEF VisitBlocked, TypeOK
  <2>. QED BY <2>1, <1>10 DEF TypeOK, VisitBlocked, PassType
<1>11. ASSUME NEW p \in Proc, VisitFound(p) PROVE TypeOK'
  <2>1. pass' \in PassType
    BY <1>11 DEF VisitFound, Outside, PassType, Level
  <2>. QED BY <2>1, <1>11 DEF TypeOK, VisitFound, book, PassType
<1>12. ASSUME NEW p \in Proc, VisitSpent(p) PROVE TypeOK'
  <2>1. pass' \in PassType /\ queue' \in [Level -> Seq(Proc)]
    BY <1>12, VisitType DEF VisitSpent
  <2>. QED BY <2>1, <1>12 DEF TypeOK, VisitSpent, PassType
<1>13. ASSUME NEW p \in Proc, VisitDemoted(p) PROVE TypeOK'
  <2>1. DemotedTo(p) \in Level /\ TimePiece[DemotedTo(p)] \in Nat
    <3>1. whichqueue[p] \in Level
      BY DEF TypeOK
    <3>2. DemotedTo(p) \in Level
      BY <3>1 DEF DemotedTo, Level
    <3>. QED BY <3>2
  <2>2. pass' \in PassType /\ queue' \in [Level -> Seq(Proc)]
    BY <1>9, <1>13, <2>1, VisitType DEF VisitDemoted
  <2>3. time' \in [Proc -> Nat] /\ whichqueue' \in [Proc -> Level]
    BY <2>1, <1>13 DEF TypeOK, VisitDemoted
  <2>. QED BY <2>2, <2>3, <1>13 DEF TypeOK, VisitDemoted, PassType
<1>14. ASSUME NEW parent \in Proc, NEW child \in Proc, ForkCopy(parent, child) PROVE TypeOK'
  BY <1>14 DEF TypeOK, ForkCopy
<1>15. CASE ForkSend
  <2>1. p_flags' \in [Proc -> {"ready", "blocked", "free"}]
    BY <1>15 DEF TypeOK, ForkSend
  <2>. QED BY <2>1, <1>15 DEF TypeOK, ForkSend, book
<1>16. CASE ForkDone
  BY <1>16 DEF TypeOK, ForkDone, NotForking
<1>17. CASE UNCHANGED vars
  BY <1>17 DEF TypeOK, vars
<1>. QED BY <1>2, <1>3, <1>4, <1>5, <1>6, <1>7, <1>8, <1>10, <1>11, <1>12, <1>13, <1>14,
         <1>15, <1>16, <1>17 DEF Next, Schedule

\* Before the first schedule() all the native processes are new.
LEMMA InitNInv == Init => NInv
<1> SUFFICES ASSUME Init PROVE NInv
  OBVIOUS
<1> USE SchedulerAssumption DEF Init, Level, Outside, NotForking
<1>1. TypeOK
  <2>1. FIRST \in Native /\ FIRST \in Proc
    OBVIOUS
  <2>. QED BY <2>1 DEF TypeOK
<1>2. NativesLive /\ NativeRunner
  BY DEF NativesLive, NativeRunner
<1>3. SpentOrNew
  BY DEF SpentOrNew
<1>. QED BY <1>1, <1>2, <1>3 DEF NInv

\* A native process out of the queues neither runs nor loses a tick, and the
\* first scan begins when all are in a queue.
LEMMA NextNInv == ASSUME NInv, [Next]_vars PROVE NInv'
<1> USE SchedulerAssumption DEF NInv
<1>1. TypeOK'
  BY TypeNext
<1>2. CASE clock_handler
  <2>1. pass'.pc = "fill" /\ pass'.slot = 0
    BY <1>2 DEF clock_handler, Entered, Outside
  <2>2. NativesLive' /\ NativeRunner'
    BY <1>2, <2>1 DEF clock_handler, NativesLive, NativeRunner
  <2>3. SpentOrNew'
    <3>. SUFFICES ASSUME NEW p \in Native \ {FIRST}, ~inqueue'[p], ticks'[p] # 0
                  PROVE  /\ p_flags'[p] = "ready" /\ ~isschedule'[p] /\ ticks'[p] = Priority[p]
                         /\ pass'.slot <= p
      BY <2>1 DEF SpentOrNew
    <3>1. p # p_proc_ready /\ p \in Nat
      BY <1>2 DEF clock_handler, NativeRunner
    <3>2. ticks'[p] = ticks[p]
      BY <1>2, <3>1 DEF clock_handler, TypeOK
    <3>. QED BY <1>2, <2>1, <3>1, <3>2 DEF clock_handler, SpentOrNew
  <2>. QED BY <1>1, <2>2, <2>3
<1>3. CASE block
  <2>1. pass'.pc = "fill" /\ pass'.slot = 0
    BY <1>3 DEF block, Entered, Outside
  <2>2. NativesLive' /\ NativeRunner'
    BY <1>3, <2>1 DEF block, NativesLive, NativeRunner, TypeOK
  <2>3. SpentOrNew'
    BY <1>3, <2>1 DEF block, book, SpentOrNew, NativeRunner, TypeOK
  <2>. QED BY <1>1, <2>2, <2>3
<1>4. ASSUME NEW p \in Proc, unblock(p) \/ Exit(p) PROVE NInv'
  <2>1. UNCHANGED <<ticks, inqueue, isschedule, p_proc_ready, pass, forking>>
    BY <1>4 DEF unblock, Exit, book
  <2>2. \/ p_flags' = [p_flags EXCEPT ![p] = "ready"]
        \/ p \notin Native /\ p_flags' = [p_flags EXCEPT ![p] = "free"]
    BY <1>4 DEF unblock, Exit
  <2>3. \A q \in Native :
            /\ p_flags[q] = "ready" => p_flags'[q] = "ready"
            /\ p_flags'[q] # "free"
    <3>. SUFFICES ASSUME NEW q \in Native
                  PROVE  (p_flags[q] = "ready" => p_flags'[q] = "ready") /\ p_flags'[q] # "free"
      OBVIOUS
    <3>1. p_flags \in [Proc -> {"ready", "blocked", "free"}] /\ q \in Proc /\ p_flags[q] # "free"
      BY DEF NativesLive, TypeOK
    <3>2. CASE p_flags' = [p_flags EXCEPT ![p] = "ready"]
      BY <3>1, <3>2
    <3>3. CASE p \notin Native /\ p_flags' = [p_flags EXCEPT ![p] = "free"]
      BY <3>1, <3>3
    <3>. QED BY <3>2, <3>3, <2>2
  <2>4. NativesLive' /\ NativeRunner'
    BY <2>1, <2>3 DEF NativesLive, NativeRunner
  <2>5. SpentOrNew'
    BY <2>1, <2>3 DEF SpentOrNew
  <2>. QED BY <1>1, <2>4, <2>5
<1>5. ASSUME NEW p \in Proc, Enqueue(p) PROVE NInv'
  <2>1. pass'.pc = "fill" /\ pass'.slot = p /\ pass.pc = "fill"
    BY <1>5 DEF Enqueue, TypeOK
  <2>2. NativesLive' /\ NativeRunner'
    BY <1>5, <2>1 DEF Enqueue, NativesLive, NativeRunner
  <2>3. SpentOrNew'
    BY <1>5, <2>1 DEF Enqueue, Eligible, SpentOrNew, TypeOK
  <2>. QED BY <1>1, <2>2, <2>3
<1>6. CASE StartScan \/ NextQueue \/ Unlock
  <2>1. \A p \in Native \ {FIRST} : ~inqueue[p] => ticks[p] = 0
    BY <1>6 DEF StartScan, NextQueue, Unlock, SpentOrNew, Eligible
  <2>2. pass'.pc \in {"scan", "fill"}
    BY <1>6 DEF StartScan, NextQueue, Unlock, Scanning, Entered, Outside
  <2>3. NativesLive' /\ NativeRunner' /\ SpentOrNew'
    BY <1>6, <2>1, <2>2 DEF StartScan, NextQueue, Unlock, book, NativesLive, NativeRunner, SpentOrNew
  <2>. QED BY <1>1, <2>3
<1>7. ASSUME NEW p \in Proc, VisitBlocked(p) \/ VisitSpent(p) \/ VisitDemoted(p) PROVE NInv'
  <2>1. pass.pc = "scan" /\ pass' = Left(p)
    BY <1>7 DEF VisitBlocked, VisitSpent, VisitDemoted, Visiting
  <2>2. pass'.pc # "user"
    BY <2>1 DEF Left, Stop, Visited, Outside, TypeOK
  <2>3. \A q \in Native \ {FIRST} : ~inqueue'[q] => ticks'[q] = 0
    BY <1>7, <2>1 DEF VisitBlocked, VisitSpent, VisitDemoted, SpentOrNew, TypeOK
  <2>4. NativesLive' /\ NativeRunner' /\ SpentOrNew'
    BY <1>7, <2>2, <2>3 DEF VisitBlocked, VisitSpent, VisitDemoted, NativesLive, NativeRunner, SpentOrNew
  <2>. QED BY <1>1, <2>4
<1>8. ASSUME NEW p \in Proc, VisitFound(p) PROVE NInv'
  <2>1. pass.pc = "scan" /\ pass'.pc = "user" /\ p_proc_ready' = p
    BY <1>8 DEF VisitFound, Visiting, Outside
  <2>2. p \in Native \ {FIRST} => inqueue[p]
    BY <1>8, <2>1 DEF VisitFound, SpentOrNew, TypeOK
  <2>3. NativesLive' /\ NativeRunner'
    BY <1>8, <2>1, <2>2 DEF VisitFound, book, NativesLive, NativeRunner
  <2>4. SpentOrNew'
    BY <1>8, <2>1 DEF VisitFound, book, SpentOrNew
  <2>. QED BY <1>1, <2>3, <2>4
<1>9. ASSUME NEW parent \in Proc, NEW child \in Proc, ForkCopy(parent, child) PROVE NInv'
  <2>1. child \notin Native
    BY <1>9 DEF ForkCopy, NativesLive
  <2>2. NativesLive' /\ NativeRunner'
    BY <1>9, <2>1, ZenonT(30) DEF ForkCopy, NativesLive, NativeRunner, TypeOK
  <2>3. SpentOrNew'
    BY <1>9, <2>1 DEF ForkCopy, MMRuns, SpentOrNew, TypeOK
  <2>. QED BY <1>1, <2>2, <2>3
<1>10. CASE ForkSend \/ ForkDone
  <2>1. NO_PROC \notin Native /\ forking.child \notin Native
    BY DEF NativesLive
  <2>2. /\ forking'.child \notin Native
        /\ \A q \in Native : p_flags'[q] = p_flags[q]
    <3>1. forking' = NotForking \/ forking' = [forking EXCEPT !.sent = TRUE]
      BY <1>10 DEF ForkSend, ForkDone
    <3>2. p_flags' = p_flags \/ p_flags' = [p_flags EXCEPT ![forking.child] = "ready"]
      BY <1>10 DEF ForkSend, ForkDone
    <3>3. forking'.child \notin Native
      <4>1. CASE forking' = NotForking
        BY <4>1, <2>1 DEF NotForking
      <4>2. CASE forking' = [forking EXCEPT !.sent = TRUE]
        <5>1. forking'.child = forking.child
          BY <4>2 DEF TypeOK
        <5>. QED BY <5>1, <2>1
      <4>. QED BY <4>1, <4>2, <3>1
    <3>. QED BY <3>2, <3>3, <2>1 DEF TypeOK
  <2>3. \A q \in Native : inqueue'[q] = inqueue[q] /\ isschedule'[q] = isschedule[q]
    <3>1. \/ inqueue' = inqueue /\ isschedule' = isschedule
          \/ /\ inqueue' = [inqueue EXCEPT ![forking.child] = FALSE]
             /\ isschedule' = [isschedule EXCEPT ![forking.child] = FALSE]
      BY <1>10 DEF ForkSend, ForkDone, book
    <3>. QED BY <3>1, <2>1 DEF TypeOK
  <2>4. UNCHANGED <<ticks, p_proc_ready, pass>>
    BY <1>10 DEF ForkSend, ForkDone, book
  <2>5. NativesLive' /\ NativeRunner'
    BY <2>2, <2>3, <2>4 DEF NativesLive, NativeRunner
  <2>6. SpentOrNew'
    BY <2>2, <2>3, <2>4 DEF SpentOrNew
  <2>. QED BY <1>1, <2>5, <2>6
<1>11. CASE UNCHANGED vars
  BY <1>1, <1>11 DEF vars, NativesLive, NativeRunner, SpentOrNew
<1>. QED BY <1>2, <1>3, <1>4, <1>5, <1>6, <1>7, <1>8, <1>9, <1>10, <1>11 DEF Next, Schedule

\* Their invariant holds throughout.
THEOREM NativeInvariance == Spec => []NInv
<1>1. NInv /\ [Next]_vars => NInv'
  BY NextNInv
<1>. QED BY <1>1, InitNInv, PTL DEF Spec

\* Every state is of the right type.
THEOREM TypeCorrect == Spec => []TypeOK
<1>1. NInv => TypeOK
  BY DEF NInv
<1>. QED BY <1>1, NativeInvariance, PTL

\* Only those who come back to the first queue get new ticks, and they have
\* used those they had.
THEOREM RefillsAreDue == Spec => NoEarlyRefill
<1> DEFINE Due == \A p \in Native \ {FIRST} : ticks'[p] > ticks[p] => ticks[p] = 0
<1>1. ASSUME NInv, Next PROVE Due
  <2> USE SchedulerAssumption
  <2>. SUFFICES ASSUME NEW p \in Native \ {FIRST}, ticks'[p] > ticks[p], ticks[p] # 0
                PROVE  FALSE
    OBVIOUS
  <2>1. p \in Proc /\ ticks \in [Proc -> Nat] /\ ticks[p] \in Nat
    BY <1>1 DEF NInv, TypeOK
  <2>2. CASE clock_handler
    <3>1. ticks'[p] = ticks[p] \/ ticks'[p] = ticks[p] - 1
      BY <2>1, <2>2 DEF clock_handler
    <3>. QED BY <3>1, <2>1
  <2>3. CASE ticks' = ticks
    BY <2>1, <2>3
  <2>4. ASSUME NEW q \in Proc, Enqueue(q) PROVE FALSE
    <3>1. ~inqueue[q] /\ ticks' = [ticks EXCEPT ![q] = Priority[q]]
      BY <2>4 DEF Enqueue, Eligible
    <3>2. CASE q = p
      <4>1. ticks[p] = Priority[p]
        BY <3>1, <3>2, <1>1 DEF NInv, SpentOrNew
      <4>. QED BY <4>1, <3>1, <3>2, <2>1
    <3>3. CASE q # p
      BY <3>1, <3>3, <2>1
    <3>. QED BY <3>2, <3>3
  <2>5. ASSUME NEW parent \in Proc, NEW child \in Proc, ForkCopy(parent, child) PROVE FALSE
    <3>1. child # p /\ ticks' = [ticks EXCEPT ![child] = ticks[parent]]
      BY <2>5, <1>1 DEF NInv, NativesLive, ForkCopy
    <3>. QED BY <3>1, <2>1
  <2>. QED
    <3>1. Schedule => ticks' = ticks \/ \E q \in Proc : Enqueue(q)
      BY DEF Schedule, StartScan, NextQueue, Unlock, VisitBlocked, VisitFound, VisitSpent,
             VisitDemoted, book
    <3>2. block \/ ForkSend \/ ForkDone \/ (\E q \in Proc : unblock(q) \/ Exit(q)) => ticks' = ticks
      BY DEF block, ForkSend, ForkDone, unblock, Exit, book
    <3>. QED BY <1>1, <3>1, <3>2, <2>2, <2>3, <2>4, <2>5 DEF Next
<1>2. NInv /\ [Next]_vars => [Due]_vars
  BY <1>1
<1>. QED BY <1>2, NativeInvariance, PTL DEF Spec, NoEarlyRefill

-----------------------------------------------------------------------------
(* Without recycled slots: the initial state *)

\* Before the first schedule() the queues are empty and nothing is in progress.
LEMMA InitInv == ASSUME Init, NInv PROVE IInv
<1> USE SchedulerAssumption DEF Init, Level, Outside, NotForking
<1>1. Places
  BY DEF Places, Queued, Absent
<1>2. ScanState /\ HigherDone
  BY DEF ScanState, HigherDone
<1>3. ForkState /\ Runner
  BY DEF ForkState, Runner
<1>4. BlockedQueued /\ Remembered
  BY DEF BlockedQueued, Remembered
<1>. QED BY <1>1, <1>2, <1>3, <1>4 DEF IInv

-----------------------------------------------------------------------------
(* Ways into schedule() *)

\* A fork in progress has not the fields of one that is not.
LEMMA ForkCases ==
    ASSUME TypeOK, ForkState
    PROVE  \/ /\ forking = NotForking
              /\ forking.child \notin Proc /\ forking.parent \notin Proc /\ ~forking.sent
           \/ /\ forking # NotForking
              /\ forking.parent \in Proc \ (IntTasks \cup {MM}) /\ p_flags[forking.parent] = "blocked"
              /\ forking.child \in Proc \ Native /\ inqueue[forking.child]
              /\ forking.child # forking.parent
              /\ p_flags[forking.child] = IF forking.sent THEN "ready" ELSE "blocked"
  BY SchedulerAssumption DEF ForkState, NotForking

\* Nobody has moved while the queues and what tells of them are the same.
LEMMA PlacesKept ==
    ASSUME Places, UNCHANGED <<inqueue, whichqueue, queue>>, forking'.child = forking.child
    PROVE  Places'
  BY DEF Places, Queued, Absent, Once

\* The clock charges a process that is in a queue, and enters schedule().
LEMMA ClockInv == ASSUME NInv, IInv, clock_handler PROVE IInv'
<1> USE SchedulerAssumption DEF IInv, NInv, clock_handler
<1>1. pass'.pc = "fill"
  BY DEF Entered, Outside
<1>2. Places'
  BY PlacesKept
<1>3. ScanState' /\ HigherDone' /\ Runner'
  BY <1>1 DEF ScanState, HigherDone, Runner
<1>4. ForkState' /\ BlockedQueued'
  BY DEF ForkState, BlockedQueued
<1>5. Remembered'
  BY DEF Remembered, TypeOK
<1>. QED BY <1>2, <1>3, <1>4, <1>5 DEF IInv

\* The process that blocks is in a queue, or is a task.
LEMMA BlockInv == ASSUME NInv, IInv, block PROVE IInv'
<1> USE SchedulerAssumption DEF IInv, NInv, block, book
<1>1. pass'.pc = "fill"
  BY DEF Entered, Outside
<1>2. Places'
  BY PlacesKept
<1>3. ScanState' /\ HigherDone' /\ Runner'
  BY <1>1 DEF ScanState, HigherDone, Runner
<1>4. p_proc_ready \in Proc /\ p_flags[p_proc_ready] = "ready" /\ p_proc_ready # forking.child
  BY DEF TypeOK, Runner
<1>5. ForkState'
  BY <1>4 DEF ForkState, TypeOK
<1>6. BlockedQueued'
  BY DEF BlockedQueued, TypeOK, Runner
<1>7. Remembered'
  BY <1>4 DEF Remembered, TypeOK
<1>. QED BY <1>2, <1>3, <1>5, <1>6, <1>7 DEF IInv

\* Only a task that the scan does not answer for is woken in the middle of it.
LEMMA UnblockInv == ASSUME NInv, IInv, NEW p \in Proc, unblock(p) PROVE IInv'
<1> USE SchedulerAssumption DEF IInv, NInv, unblock, book
<1>1. Places'
  BY PlacesKept
<1>2. ScanState'
  BY DEF ScanState
<1>3. ForkState'
  BY DEF ForkState, TypeOK
<1>4. BlockedQueued'
  BY DEF BlockedQueued, TypeOK
<1>5. Runner'
  BY DEF Runner, TypeOK
<1>6. Remembered'
  BY DEF Remembered, TypeOK
<1>7. HigherDone'
  <2>1. ASSUME pass.pc = "scan", NEW q \in Proc \ IntTasks PROVE CouldRun(q)' <=> CouldRun(q)
    BY <2>1 DEF CouldRun, TypeOK
  <2>. QED BY <2>1 DEF HigherDone
<1>. QED BY <1>1, <1>2, <1>3, <1>4, <1>5, <1>6, <1>7 DEF IInv

-----------------------------------------------------------------------------
(* schedule *)

\* Whoever is to enter the first queue is in none.
LEMMA EnqueueInv == ASSUME NInv, IInv, NEW p \in Proc, Enqueue(p) PROVE IInv'
<1> USE SchedulerAssumption DEF IInv, NInv, Enqueue
<1>1. /\ p_flags[p] = "ready" /\ ~inqueue[p] /\ 0 \in Level
      /\ queue \in [Level -> Seq(Proc)] /\ queue[0] \in Seq(Proc)
  BY DEF Eligible, TypeOK, Level
<1>2. \A k \in Level : Absent(queue[k], p)
  BY <1>1 DEF Places, Queued
<1>3. p # forking.child
  BY <1>1, ForkCases
<1>4. Append(queue[0], p) \in Seq(Proc)
  BY <1>1
<1>5. /\ queue' \in [Level -> Seq(Proc)]
      /\ queue'[0] = Append(queue[0], p) /\ \A k \in Level \ {0} : queue'[k] = queue[k]
  BY <1>1, <1>4
<1>6. /\ inqueue' \in [Proc -> BOOLEAN] /\ whichqueue' \in [Proc -> Level]
      /\ inqueue'[p] /\ whichqueue'[p] = 0
      /\ \A q \in Proc \ {p} : inqueue'[q] = inqueue[q] /\ whichqueue'[q] = whichqueue[q]
  BY <1>1 DEF TypeOK
<1>7. pass'.pc = "fill"
  BY DEF TypeOK
<1>8. Places'
  <2>. SUFFICES ASSUME NEW q \in Proc, NEW k \in Level
                PROVE  /\ Queued(q, k)' => Once(queue'[k], q)
                       /\ ~Queued(q, k)' => Absent(queue'[k], q)
    BY DEF Places, Once, Absent
  <2>1. (Queued(q, k) => Once(queue[k], q)) /\ (~Queued(q, k) => Absent(queue[k], q))
    BY DEF Places
  <2>2. CASE q = p
    <3>1. Queued(q, k)' <=> k = 0
      BY <2>2, <1>3, <1>6 DEF Queued
    <3>2. CASE k = 0
      BY <3>1, <3>2, <2>2, <1>1, <1>2, <1>5, AppendAbsent
    <3>3. CASE k # 0
      BY <3>1, <3>3, <2>2, <1>2, <1>5
    <3>. QED BY <3>2, <3>3
  <2>3. CASE q # p
    <3>1. Queued(q, k)' <=> Queued(q, k)
      BY <2>3, <1>6 DEF Queued
    <3>2. CASE k = 0
      BY <3>1, <3>2, <2>1, <2>3, <1>1, <1>2, <1>5, AppendAbsent
    <3>3. CASE k # 0
      BY <3>1, <3>3, <2>1, <1>5
    <3>. QED BY <3>2, <3>3
  <2>. QED BY <2>2, <2>3
<1>9. ScanState' /\ HigherDone' /\ Runner'
  BY <1>7 DEF ScanState, HigherDone, Runner
<1>10. ForkState' /\ BlockedQueued'
  BY <1>6 DEF ForkState, BlockedQueued
<1>11. Remembered'
  BY <1>6 DEF Remembered, TypeOK
<1>. QED BY <1>8, <1>9, <1>10, <1>11 DEF IInv

\* What does not look at the pass holds while nothing else changes.
LEMMA BookKept ==
    ASSUME NInv, IInv, UNCHANGED <<p_flags, book, forking>>
    PROVE  Places' /\ ForkState' /\ BlockedQueued' /\ Remembered'
<1> USE DEF IInv, NInv, book
<1>1. Places'
  BY PlacesKept
<1>2. ForkState' /\ BlockedQueued'
  BY DEF ForkState, BlockedQueued
<1>3. Remembered'
  BY DEF Remembered
<1>. QED BY <1>1, <1>2, <1>3

\* The scan begins at the first queue, with everybody still to visit.
LEMMA StartScanInv == ASSUME NInv, IInv, StartScan PROVE IInv'
<1> USE SchedulerAssumption DEF IInv, NInv, StartScan, book
<1>1. whichqueue \in [Proc -> Level] /\ 0 \in Level
  BY DEF TypeOK, Level
<1>2. pass' = Scanning(0)
  OBVIOUS
<1>3. /\ pass'.pc = "scan" /\ pass'.queue_num = 0 /\ pass'.skip = 0
      /\ pass'.count = Len(queue[0]) /\ Len(queue[0]) \in Nat
  BY <1>1, <1>2, ScanningType
<1>4. ScanState' /\ Runner'
  BY <1>3 DEF ScanState, Runner
<1>5. Places' /\ ForkState' /\ BlockedQueued' /\ Remembered'
  BY BookKept
<1>6. HigherDone'
  <2>. SUFFICES ASSUME NEW p \in Proc \ IntTasks, CouldRun(p)
                PROVE  /\ 0 <= whichqueue[p]
                       /\ whichqueue[p] = 0 => \E i \in 1 .. Len(queue[0]) : queue[0][i] = p
    <3>1. \A p \in Proc : CouldRun(p)' <=> CouldRun(p)
      BY DEF CouldRun
    <3>. QED BY <3>1, <1>3, SMTT(30) DEF HigherDone
  <2>1. whichqueue[p] = 0 => Once(queue[0], p)
    BY <1>1 DEF Places, Queued, CouldRun
  <2>. QED BY <2>1, <1>1 DEF Once, Level
<1>. QED BY <1>3, <1>4, <1>5, <1>6 DEF IInv

\* The next queue is scanned when nobody of the one before can run.
LEMMA NextQueueInv == ASSUME NInv, IInv, NextQueue PROVE IInv'
<1> USE SchedulerAssumption DEF IInv, NInv, NextQueue, book
<1> DEFINE k == pass.queue_num + 1
<1>1. /\ whichqueue \in [Proc -> Level] /\ k \in Level
      /\ pass.queue_num \in Level /\ pass.queue_num < 2 /\ pass.count = 0
  <2>1. whichqueue \in [Proc -> Level] /\ pass.queue_num \in Level
    BY DEF TypeOK
  <2>2. k \in Level
    BY <2>1 DEF Level
  <2>. QED BY <2>1, <2>2
<1>2. pass' = Scanning(k)
  OBVIOUS
<1> HIDE DEF k
<1>3. /\ pass'.pc = "scan" /\ pass'.queue_num = k /\ pass'.skip = 0
      /\ pass'.count = Len(queue[k]) /\ Len(queue[k]) \in Nat
  BY <1>1, <1>2, ScanningType
<1>4. ScanState' /\ Runner'
  BY <1>3 DEF ScanState, Runner
<1>5. Places' /\ ForkState' /\ BlockedQueued' /\ Remembered'
  BY BookKept
<1>6. HigherDone'
  <2>. SUFFICES ASSUME NEW p \in Proc \ IntTasks, CouldRun(p)
                PROVE  /\ k <= whichqueue[p]
                       /\ whichqueue[p] = k => \E i \in 1 .. Len(queue[k]) : queue[k][i] = p
    <3>1. \A p \in Proc : CouldRun(p)' <=> CouldRun(p)
      BY DEF CouldRun
    <3>. QED BY <3>1, <1>3 DEF HigherDone
  <2>1. whichqueue[p] = k => Once(queue[k], p)
    BY <1>1 DEF Places, Queued, CouldRun
  <2>2. pass.queue_num <= whichqueue[p] /\ whichqueue[p] # pass.queue_num
    <3>1. /\ pass.queue_num <= whichqueue[p]
          /\ pass.queue_num < 2 /\ whichqueue[p] = pass.queue_num =>
                 \E i \in 1 .. pass.count : queue[pass.queue_num][i] = p
      BY DEF HigherDone
    <3>2. 1 .. pass.count = {} /\ pass.queue_num < 2
      BY <1>1
    <3>. QED BY <3>1, <3>2
  <2>3. whichqueue[p] \in {0, 1, 2} /\ pass.queue_num \in {0, 1}
    BY <1>1 DEF Level
  <2>. QED BY <2>1, <2>2, <2>3, <1>1 DEF Once, k
<1>. QED BY <1>3, <1>4, <1>5, <1>6 DEF IInv

\* A new round begins for those that can run; the blocked keep their place.
LEMMA UnlockInv == ASSUME NInv, IInv, Unlock PROVE IInv'
<1> USE SchedulerAssumption DEF IInv, NInv, Unlock
<1>1. pass'.pc = "fill"
  BY DEF Entered, Outside
<1>2. Places'
  BY PlacesKept
<1>3. ScanState' /\ HigherDone' /\ Runner'
  BY <1>1 DEF ScanState, HigherDone, Runner
<1>4. ForkState' /\ BlockedQueued'
  BY DEF ForkState, BlockedQueued
<1>5. Remembered'
  BY DEF Remembered, TypeOK
<1>. QED BY <1>2, <1>3, <1>4, <1>5 DEF IInv

-----------------------------------------------------------------------------
(* The visits of the scan *)

\* The process visited is the front of the queue that it says it is in.
LEMMA VisitingFront ==
    ASSUME NInv, IInv, NEW p \in Proc, Visiting(p)
    PROVE  /\ pass.queue_num \in Level /\ whichqueue[p] = pass.queue_num
           /\ inqueue[p] /\ p # forking.child
           /\ Len(queue[pass.queue_num]) > 0 /\ queue[pass.queue_num][1] = p
           /\ Once(queue[pass.queue_num], p)
           /\ pass.count \in Nat /\ pass.count > 0
           /\ Left(p) = [pass EXCEPT !.count = pass.count - 1]
<1> USE DEF IInv, NInv
<1>1. /\ pass.queue_num \in Level /\ queue[pass.queue_num] \in Seq(Proc)
      /\ pass.count \in Nat /\ pass.count > 0 /\ pass.skip = 0
      /\ pass.count <= Len(queue[pass.queue_num])
      /\ Len(queue[pass.queue_num]) \in Nat
  BY DEF TypeOK, Visiting, ScanState
<1>2. queue[pass.queue_num][1] = p /\ 1 \in 1 .. Len(queue[pass.queue_num])
  BY <1>1 DEF Visiting
<1>3. ~Absent(queue[pass.queue_num], p)
  BY <1>2 DEF Absent
<1>4. Queued(p, pass.queue_num)
  BY <1>1, <1>3 DEF Places
<1>5. Once(queue[pass.queue_num], p)
  BY <1>1, <1>4 DEF Places
<1>6. queue[whichqueue[p]] # <<>>
  BY <1>2, <1>4 DEF Queued
<1>7. Left(p) = [pass EXCEPT !.count = pass.count - 1]
  BY <1>1, <1>4, <1>6 DEF Left, Visited, Queued, TypeOK
<1>. QED BY <1>1, <1>2, <1>4, <1>5, <1>7 DEF Queued

\* outqueue takes the process visited out of its queue, and touches nobody else.
LEMMA Outqueue ==
    ASSUME NInv, IInv, NEW p \in Proc, Visiting(p)
    PROVE  /\ outqueue(p) \in [Level -> Seq(Proc)]
           /\ Len(outqueue(p)[pass.queue_num]) = Len(queue[pass.queue_num]) - 1
           /\ \A i \in 1 .. Len(queue[pass.queue_num]) - 1 :
                  outqueue(p)[pass.queue_num][i] = queue[pass.queue_num][i + 1]
           /\ \A k \in Level : Absent(outqueue(p)[k], p)
           /\ \A k \in Level, r \in Proc \ {p} :
                  /\ Once(queue[k], r) => Once(outqueue(p)[k], r)
                  /\ Absent(queue[k], r) => Absent(outqueue(p)[k], r)
<1> DEFINE n == pass.queue_num
           t == SubSeq(queue[n], 2, Len(queue[n]))
<1>1. /\ queue \in [Level -> Seq(Proc)] /\ n \in Level /\ whichqueue[p] = n
      /\ Len(queue[n]) > 0 /\ queue[n][1] = p /\ Once(queue[n], p)
  BY VisitingFront DEF IInv, NInv, TypeOK
<1>2. /\ t \in Seq(Proc) /\ Len(t) = Len(queue[n]) - 1
      /\ \A i \in 1 .. Len(queue[n]) - 1 : t[i] = queue[n][i + 1]
      /\ Absent(t, p)
      /\ \A r : r # p /\ Once(queue[n], r) => Once(t, r)
      /\ \A r : Absent(queue[n], r) => Absent(t, r)
  BY <1>1, DropFront
<1>3. outqueue(p) = [queue EXCEPT ![n] = t]
  BY <1>1 DEF outqueue
<1> HIDE DEF t, n
<1>4. /\ outqueue(p) \in [Level -> Seq(Proc)]
      /\ outqueue(p)[n] = t /\ \A k \in Level \ {n} : outqueue(p)[k] = queue[k]
  BY <1>1, <1>2, <1>3
<1>5. \A k \in Level \ {n} : Absent(queue[k], p)
  BY <1>1 DEF IInv, Places, Queued
<1>6. \A k \in Level : Absent(outqueue(p)[k], p)
  BY <1>2, <1>4, <1>5
<1>7. \A k \in Level, r \in Proc \ {p} :
          /\ Once(queue[k], r) => Once(outqueue(p)[k], r)
          /\ Absent(queue[k], r) => Absent(outqueue(p)[k], r)
  BY <1>2, <1>4
<1>. QED BY <1>2, <1>4, <1>6, <1>7 DEF n

\* The scan goes on after a visit: the others come one place nearer, and nobody
\* becomes able to run in a queue that is done with.
LEMMA ScanGoesOn ==
    ASSUME NInv, IInv, NEW p \in Proc, Visiting(p), pass' = Left(p),
           Len(queue'[pass.queue_num]) \in Nat,
           Len(queue'[pass.queue_num]) >= Len(queue[pass.queue_num]) - 1,
           \A i \in 1 .. Len(queue[pass.queue_num]) - 1 :
               queue'[pass.queue_num][i] = queue[pass.queue_num][i + 1],
           \A q \in Proc \ {p} :
               (CouldRun(q)' => CouldRun(q)) /\ whichqueue'[q] = whichqueue[q],
           whichqueue'[p] \in Level,
           CouldRun(p)' =>
               pass.queue_num < whichqueue'[p] \/ (pass.queue_num = 2 /\ whichqueue'[p] = 2)
    PROVE  /\ ScanState' /\ HigherDone' /\ Runner'
<1> DEFINE k == pass.queue_num
           n == Len(queue[k])
<1>1. /\ k \in {0, 1, 2} /\ n \in Nat /\ n > 0 /\ queue[k][1] = p
      /\ pass.count \in Nat /\ pass.count > 0 /\ pass.count <= n
      /\ pass' = [pass EXCEPT !.count = pass.count - 1]
      /\ pass.pc = "scan" /\ pass.skip = 0
  <2>1. queue[k] \in Seq(Proc)
    BY VisitingFront DEF IInv, NInv, TypeOK
  <2>2. n \in Nat
    BY <2>1
  <2>3. pass.pc = "scan" /\ pass.skip = 0 /\ pass.count <= n
    BY DEF IInv, ScanState, Visiting
  <2>. QED BY <2>2, <2>3, VisitingFront DEF Level
<1>2. /\ pass'.pc = "scan" /\ pass'.queue_num = k /\ pass'.skip = 0
      /\ pass'.count = pass.count - 1
  <2>1. pass.count - 1 \in Nat
    BY <1>1
  <2>2. ASSUME NEW m \in Nat, NEW r, r = [pass EXCEPT !.count = m]
        PROVE  /\ r.pc = pass.pc /\ r.queue_num = pass.queue_num /\ r.skip = pass.skip
               /\ r.count = m
    BY <2>2 DEF IInv, NInv, TypeOK
  <2>. QED BY <1>1, <2>1, <2>2, Zenon
<1> HIDE DEF k, n
<1>3. /\ Len(queue'[k]) \in Nat /\ Len(queue'[k]) >= n - 1
      /\ \A i \in 1 .. n - 1 : queue'[k][i] = queue[k][i + 1]
  BY DEF k, n
<1>4. pass.count - 1 <= Len(queue'[k])
  <2>. HIDE <1>2
  <2>. QED BY <1>1, <1>3
<1>5. ScanState' /\ Runner'
  BY <1>2, <1>4 DEF ScanState, Runner
<1>6. HigherDone'
  <2>. SUFFICES ASSUME NEW q \in Proc \ IntTasks, CouldRun(q)'
                PROVE  /\ k <= whichqueue'[q]
                       /\ k < 2 /\ whichqueue'[q] = k =>
                              \E i \in 1 .. pass.count - 1 : queue'[k][i] = q
    BY <1>2 DEF HigherDone
  <2>1. CASE q = p
    <3>1. k < whichqueue'[q] \/ (k = 2 /\ whichqueue'[q] = 2)
      BY <2>1 DEF k, CouldRun
    <3>2. whichqueue'[q] \in {0, 1, 2}
      BY <2>1 DEF Level
    <3>. QED BY <3>1, <3>2, <1>1
  <2>2. CASE q # p
    <3>1. CouldRun(q) /\ whichqueue'[q] = whichqueue[q]
      BY <2>2
    <3>2. /\ k <= whichqueue[q]
          /\ k < 2 /\ whichqueue[q] = k => \E i \in 1 .. pass.count : queue[k][i] = q
      BY <3>1, <1>1 DEF IInv, HigherDone, k
    <3>3. ASSUME NEW i \in 1 .. pass.count, queue[k][i] = q
          PROVE  \E j \in 1 .. pass.count - 1 : queue'[k][j] = q
      <4>1. i # 1
        BY <2>2, <3>3, <1>1
      <4>2. i - 1 \in 1 .. pass.count - 1 /\ i - 1 \in 1 .. n - 1 /\ (i - 1) + 1 = i
        BY <4>1, <1>1
      <4>3. queue'[k][i - 1] = q
        BY <4>2, <3>3, <1>3
      <4>. QED BY <4>2, <4>3
    <3>. QED BY <3>1, <3>2, <3>3
  <2>. QED BY <2>1, <2>2
<1>. QED BY <1>2, <1>5, <1>6

\* Whoever is found can run.
LEMMA VisitFoundInv == ASSUME NInv, IInv, NEW p \in Proc, VisitFound(p) PROVE IInv'
<1> USE SchedulerAssumption DEF VisitFound
<1>1. inqueue[p] /\ p # forking.child
  BY VisitingFront
<1>2. pass'.pc = "user"
  BY DEF Outside
<1>3. pass' \in [pc : {"user", "fill", "scan", "assert", "underflow"},
                 slot : Nat, queue_num : Level, skip : Nat, count : Nat]
  BY DEF Outside, Level
<1>4. ScanState' /\ HigherDone' /\ Runner'
  BY <1>1, <1>2 DEF ScanState, HigherDone, Runner, book
<1>. QED BY <1>4, BookKept DEF IInv

\* A process that leaves the queues has used all its ticks.
LEMMA VisitSpentInv == ASSUME NInv, IInv, NEW p \in Proc, VisitSpent(p) PROVE IInv'
<1> USE SchedulerAssumption DEF VisitSpent
<1> DEFINE k == pass.queue_num
<1>1. /\ k \in Level /\ whichqueue[p] = k /\ p # forking.child
      /\ queue' \in [Level -> Seq(Proc)] /\ queue'[k] \in Seq(Proc)
      /\ Len(queue'[k]) = Len(queue[k]) - 1
      /\ \A i \in 1 .. Len(queue[k]) - 1 : queue'[k][i] = queue[k][i + 1]
      /\ \A l \in Level : Absent(queue'[l], p)
      /\ \A l \in Level, r \in Proc \ {p} :
             /\ Once(queue[l], r) => Once(queue'[l], r)
             /\ Absent(queue[l], r) => Absent(queue'[l], r)
  <2>1. k \in Level /\ whichqueue[p] = k /\ p # forking.child /\ queue' = outqueue(p)
    BY VisitingFront
  <2>2. queue' \in [Level -> Seq(Proc)]
    BY <2>1, Outqueue
  <2>3. queue'[k] \in Seq(Proc)
    BY <2>1, <2>2
  <2>4. /\ Len(queue'[k]) = Len(queue[k]) - 1
        /\ \A i \in 1 .. Len(queue[k]) - 1 : queue'[k][i] = queue[k][i + 1]
    <3>1. /\ Len(outqueue(p)[k]) = Len(queue[k]) - 1
          /\ \A i \in 1 .. Len(queue[k]) - 1 : outqueue(p)[k][i] = queue[k][i + 1]
      BY Outqueue
    <3>. QED BY <3>1, <2>1
  <2>5. /\ \A l \in Level : Absent(queue'[l], p)
        /\ \A l \in Level, r \in Proc \ {p} :
               /\ Once(queue[l], r) => Once(queue'[l], r)
               /\ Absent(queue[l], r) => Absent(queue'[l], r)
    BY <2>1, Outqueue, Zenon
  <2>. QED BY <2>1, <2>2, <2>3, <2>4, <2>5, Zenon
<1>2. /\ inqueue' \in [Proc -> BOOLEAN] /\ ~inqueue'[p]
      /\ \A q \in Proc \ {p} : inqueue'[q] = inqueue[q]
  BY DEF IInv, NInv, TypeOK
<1>3. ScanState' /\ HigherDone' /\ Runner'
  <2>1. Len(queue'[k]) \in Nat /\ Len(queue'[k]) >= Len(queue[k]) - 1
    <3>1. Len(queue'[k]) \in Nat
      BY <1>1
    <3>2. \A m \in Nat : m >= m
      OBVIOUS
    <3>. QED BY <3>1, <3>2, <1>1, Zenon
  <2>2. \A q \in Proc \ {p} : (CouldRun(q)' => CouldRun(q)) /\ whichqueue'[q] = whichqueue[q]
    BY <1>2 DEF CouldRun
  <2>3. ~CouldRun(p)'
    BY <1>2 DEF CouldRun
  <2>4. whichqueue'[p] \in Level
    BY <1>1
  <2>. QED BY <2>1, <2>2, <2>3, <2>4, <1>1, ScanGoesOn
<1>4. Places'
  <2>. SUFFICES ASSUME NEW q \in Proc, NEW l \in Level
                PROVE  /\ Queued(q, l)' => Once(queue'[l], q)
                       /\ ~Queued(q, l)' => Absent(queue'[l], q)
    BY DEF Places, Once, Absent
  <2>1. CASE q = p
    BY <2>1, <1>1, <1>2 DEF Queued
  <2>2. CASE q # p
    <3>1. Queued(q, l)' <=> Queued(q, l)
      BY <2>2, <1>2 DEF Queued
    <3>. QED BY <3>1, <2>2, <1>1 DEF IInv, Places
  <2>. QED BY <2>1, <2>2
<1>5. ForkState'
  BY <1>1, <1>2 DEF IInv, ForkState
<1>6. BlockedQueued' /\ Remembered'
  BY <1>2 DEF IInv, BlockedQueued, Remembered
<1>. QED BY <1>3, <1>4, <1>5, <1>6 DEF IInv

\* A process that goes from its queue to the back of queue d.
LEMMA Requeued ==
    ASSUME NInv, IInv, NEW p \in Proc, Visiting(p), NEW d \in Level,
           queue' = [outqueue(p) EXCEPT ![d] = Append(@, p)],
           inqueue' = inqueue, forking' = forking,
           whichqueue' = [whichqueue EXCEPT ![p] = d],
           pass' = Left(p),
           \A q \in Proc \ {p} : CouldRun(q)' => CouldRun(q),
           CouldRun(p)' => pass.queue_num < d \/ (pass.queue_num = 2 /\ d = 2)
    PROVE  Places' /\ ScanState' /\ HigherDone' /\ Runner'
<1> DEFINE k == pass.queue_num
           out == outqueue(p)
           n == Len(queue[k])
<1>1. /\ k \in Level /\ whichqueue[p] = k /\ inqueue[p] /\ p # forking.child
      /\ out \in [Level -> Seq(Proc)] /\ Len(out[k]) = n - 1
      /\ \A i \in 1 .. n - 1 : out[k][i] = queue[k][i + 1]
      /\ \A l \in Level : Absent(out[l], p)
      /\ \A l \in Level, r \in Proc \ {p} :
             /\ Once(queue[l], r) => Once(out[l], r)
             /\ Absent(queue[l], r) => Absent(out[l], r)
  BY VisitingFront, Outqueue, Zenon
<1>2. n \in Nat /\ n > 0
  <2>1. queue[k] \in Seq(Proc)
    BY <1>1 DEF IInv, NInv, TypeOK
  <2>. QED BY <2>1, VisitingFront
<1> HIDE DEF out, n
<1>3. queue' = [out EXCEPT ![d] = Append(@, p)]
  BY DEF out
<1>4. /\ queue' \in [Level -> Seq(Proc)]
      /\ Len(queue'[d]) = Len(out[d]) + 1
      /\ \A i \in 1 .. Len(out[d]) : queue'[d][i] = out[d][i]
      /\ \A l \in Level \ {d} : queue'[l] = out[l]
      /\ Once(queue'[d], p)
      /\ \A l \in Level, r \in Proc \ {p} :
             /\ Once(out[l], r) => Once(queue'[l], r)
             /\ Absent(out[l], r) => Absent(queue'[l], r)
  <2> DEFINE t == Append(out[d], p)
  <2>1. out[d] \in Seq(Proc) /\ Absent(out[d], p)
    BY <1>1
  <2>2. /\ t \in Seq(Proc) /\ Len(t) = Len(out[d]) + 1
        /\ \A i \in 1 .. Len(out[d]) : t[i] = out[d][i]
        /\ Once(t, p)
        /\ \A r : r # p /\ Once(out[d], r) => Once(t, r)
        /\ \A r : r # p /\ Absent(out[d], r) => Absent(t, r)
    BY <2>1, AppendAbsent
  <2>3. queue' = [out EXCEPT ![d] = t]
    BY <1>3
  <2> HIDE DEF t
  <2>4. /\ queue' \in [Level -> Seq(Proc)]
        /\ queue'[d] = t /\ \A l \in Level \ {d} : queue'[l] = out[l]
    BY <1>1, <2>2, <2>3, ZenonT(30)
  <2>5. \A l \in Level, r \in Proc \ {p} :
            /\ Once(out[l], r) => Once(queue'[l], r)
            /\ Absent(out[l], r) => Absent(queue'[l], r)
    BY <2>2, <2>4
  <2>. QED BY <2>2, <2>4, <2>5
<1>5. /\ whichqueue' \in [Proc -> Level] /\ whichqueue'[p] = d
      /\ \A q \in Proc \ {p} : whichqueue'[q] = whichqueue[q]
  BY DEF IInv, NInv, TypeOK
<1>6. Places'
  <2>. SUFFICES ASSUME NEW q \in Proc, NEW l \in Level
                PROVE  /\ Queued(q, l)' => Once(queue'[l], q)
                       /\ ~Queued(q, l)' => Absent(queue'[l], q)
    BY DEF Places, Once, Absent
  <2>1. CASE q = p
    <3>1. Queued(q, l)' <=> l = d
      BY <2>1, <1>1, <1>5 DEF Queued
    <3>. QED BY <3>1, <2>1, <1>1, <1>4
  <2>2. CASE q # p
    <3>1. Queued(q, l)' <=> Queued(q, l)
      BY <2>2, <1>5 DEF Queued
    <3>2. (Queued(q, l) => Once(queue[l], q)) /\ (~Queued(q, l) => Absent(queue[l], q))
      BY DEF IInv, Places
    <3>. QED BY <3>1, <3>2, <2>2, <1>1, <1>4
  <2>. QED BY <2>1, <2>2
<1>7. /\ Len(queue'[k]) \in Nat /\ Len(queue'[k]) >= n - 1
      /\ \A i \in 1 .. n - 1 : queue'[k][i] = queue[k][i + 1]
  <2>1. CASE k = d
    <3>1. Len(queue'[k]) = n - 1 + 1 /\ \A i \in 1 .. n - 1 : queue'[k][i] = out[k][i]
      BY <2>1, <1>1, <1>4
    <3>2. n - 1 + 1 \in Nat /\ n - 1 + 1 >= n - 1
      BY <1>2
    <3>. QED BY <3>1, <3>2, <1>1, Zenon
  <2>2. CASE k # d
    <3>1. queue'[k] = out[k] /\ n - 1 \in Nat /\ n - 1 >= n - 1
      BY <2>2, <1>1, <1>2, <1>4
    <3>. QED BY <3>1, <1>1, Zenon
  <2>. QED BY <2>1, <2>2
<1>8. CouldRun(p)' =>
          pass.queue_num < whichqueue'[p] \/ (pass.queue_num = 2 /\ whichqueue'[p] = 2)
  BY <1>5
<1>9. ScanState' /\ HigherDone' /\ Runner'
  BY <1>5, <1>7, <1>8, ScanGoesOn DEF n
<1>. QED BY <1>4, <1>5, <1>6, <1>9

\* A process that cannot run keeps its level.
LEMMA VisitBlockedInv == ASSUME NInv, IInv, NEW p \in Proc, VisitBlocked(p) PROVE IInv'
<1> USE SchedulerAssumption DEF VisitBlocked
<1>1. /\ whichqueue[p] \in Level /\ whichqueue' = [whichqueue EXCEPT ![p] = whichqueue[p]]
      /\ inqueue[p]
  BY VisitingFront DEF IInv, NInv, TypeOK
<1>2. \A q \in Proc : CouldRun(q)' <=> CouldRun(q)
  BY DEF CouldRun
<1>3. ~CouldRun(p)
  BY DEF CouldRun
<1>4. Places' /\ ScanState' /\ HigherDone' /\ Runner'
  BY <1>1, <1>2, <1>3, Requeued
<1>5. ForkState' /\ BlockedQueued'
  BY DEF IInv, ForkState, BlockedQueued
<1>6. Remembered'
  BY <1>1 DEF IInv, NInv, Remembered, TypeOK
<1>. QED BY <1>4, <1>5, <1>6 DEF IInv

\* A process that has used its time piece goes one level down, if there is one.
LEMMA VisitDemotedInv == ASSUME NInv, IInv, NEW p \in Proc, VisitDemoted(p) PROVE IInv'
<1> USE SchedulerAssumption DEF VisitDemoted
<1>1. whichqueue[p] = pass.queue_num /\ whichqueue[p] \in Level /\ inqueue[p]
  BY VisitingFront
<1>2. /\ DemotedTo(p) \in Level
      /\ pass.queue_num < DemotedTo(p) \/ (pass.queue_num = 2 /\ DemotedTo(p) = 2)
  BY <1>1 DEF DemotedTo, Level
<1>3. \A q \in Proc \ {p} : CouldRun(q)' => CouldRun(q)
  BY DEF CouldRun, IInv, TypeOK
<1>4. Places' /\ ScanState' /\ HigherDone' /\ Runner'
  BY <1>1, <1>2, <1>3, Requeued
<1>5. ForkState' /\ BlockedQueued'
  BY DEF IInv, ForkState, BlockedQueued
<1>6. Remembered'
  BY <1>1 DEF IInv, NInv, Remembered, TypeOK
<1>. QED BY <1>4, <1>5, <1>6 DEF IInv

-----------------------------------------------------------------------------
(* fork and exit *)

\* The child takes a slot that is in no queue, and then says it is where its
\* parent is.
LEMMA ForkCopyInv ==
    ASSUME NInv, IInv, ~Recycle, NEW parent \in Proc, NEW child \in Proc, ForkCopy(parent, child)
    PROVE  IInv'
<1> USE SchedulerAssumption DEF IInv, NInv, ForkCopy, MMRuns
<1>1. /\ forking.child \notin Proc /\ ~inqueue[child] /\ child \notin Native
      /\ child # parent /\ child # p_proc_ready /\ inqueue[parent]
  BY ForkCases DEF NativesLive, BlockedQueued, Runner
<1>2. Places'
  <2>. SUFFICES ASSUME NEW q \in Proc, NEW l \in Level
                PROVE  Queued(q, l)' <=> Queued(q, l)
    BY DEF Places, Once, Absent
  <2>. QED BY <1>1 DEF Queued, TypeOK
<1>3. ScanState' /\ HigherDone'
  BY DEF ScanState, HigherDone
<1>4. ForkState'
  BY <1>1 DEF ForkState, TypeOK
<1>5. BlockedQueued'
  BY <1>1 DEF BlockedQueued, TypeOK
<1>6. Runner'
  BY <1>1 DEF Runner, TypeOK
<1>7. Remembered'
  BY <1>1 DEF Remembered, TypeOK
<1>. QED BY <1>2, <1>3, <1>4, <1>5, <1>6, <1>7 DEF IInv

\* The message wakes a child that no queue knows.
LEMMA ForkSendInv == ASSUME NInv, IInv, ForkSend PROVE IInv'
<1> USE SchedulerAssumption DEF IInv, NInv, ForkSend, MMRuns, book
<1>1. /\ forking.parent \in Proc \ (IntTasks \cup {MM}) /\ p_flags[forking.parent] = "blocked"
      /\ forking.child \in Proc \ Native /\ inqueue[forking.child]
      /\ forking.child # forking.parent /\ p_flags[forking.child] = "blocked"
  BY ForkCases
<1>2. forking'.parent = forking.parent /\ forking'.child = forking.child /\ forking'.sent
  BY DEF TypeOK
<1>3. Places'
  BY <1>2 DEF Places, Queued, Once, Absent
<1>4. ScanState' /\ HigherDone'
  BY DEF ScanState, HigherDone
<1>5. ForkState'
  BY <1>1, <1>2 DEF ForkState, TypeOK
<1>6. BlockedQueued' /\ Remembered'
  BY <1>1 DEF BlockedQueued, Remembered, TypeOK
<1>7. Runner'
  BY <1>1, <1>2 DEF Runner, TypeOK
<1>. QED BY <1>3, <1>4, <1>5, <1>6, <1>7 DEF IInv

\* The child becomes a newcomer that the next schedule() takes.
LEMMA ForkDoneInv == ASSUME NInv, IInv, ForkDone PROVE IInv'
<1> USE SchedulerAssumption DEF IInv, NInv, ForkDone, MMRuns
<1>1. /\ forking.child \in Proc \ Native /\ p_flags[forking.child] = "ready"
      /\ forking'.child \notin Proc /\ forking' = NotForking
  BY ForkCases DEF NotForking
<1>2. /\ ~inqueue'[forking.child] /\ ~isschedule'[forking.child]
      /\ \A q \in Proc \ {forking.child} :
             inqueue'[q] = inqueue[q] /\ isschedule'[q] = isschedule[q]
  BY <1>1 DEF TypeOK
<1>3. Places'
  <2>1. \A q \in Proc, l \in Level : Queued(q, l)' <=> Queued(q, l)
    BY <1>1, <1>2 DEF Queued
  <2>. SUFFICES ASSUME NEW q \in Proc, NEW l \in Level
                PROVE  /\ Queued(q, l)' => Once(queue'[l], q)
                       /\ ~Queued(q, l)' => Absent(queue'[l], q)
    BY DEF Places, Once, Absent
  <2>. QED BY <2>1 DEF Places
<1>4. ScanState' /\ HigherDone'
  BY DEF ScanState, HigherDone
<1>5. ForkState'
  BY <1>1 DEF ForkState
<1>6. BlockedQueued'
  BY <1>1, <1>2 DEF BlockedQueued
<1>7. Remembered'
  BY <1>1, <1>2 DEF Remembered
<1>8. Runner'
  BY <1>1, <1>2 DEF Runner, TypeOK
<1>. QED BY <1>3, <1>4, <1>5, <1>6, <1>7, <1>8 DEF IInv

\* The dead process stays where it was; it only cannot run.
LEMMA ExitInv == ASSUME NInv, IInv, NEW p \in Proc, Exit(p) PROVE IInv'
<1> USE SchedulerAssumption DEF IInv, NInv, Exit, MMRuns, book
<1>1. Places'
  BY PlacesKept
<1>2. ScanState' /\ HigherDone'
  BY DEF ScanState, HigherDone
<1>3. ForkState'
  BY ForkCases DEF ForkState
<1>4. BlockedQueued' /\ Remembered'
  BY DEF BlockedQueued, Remembered, TypeOK
<1>5. Runner'
  BY DEF Runner, TypeOK
<1>. QED BY <1>1, <1>2, <1>3, <1>4, <1>5 DEF IInv

-----------------------------------------------------------------------------
(* The theorems *)

\* Nothing changes when nobody of the system moves.
LEMMA StutterInv == ASSUME NInv, IInv, UNCHANGED vars PROVE IInv'
<1> USE DEF vars, book
<1>1. TypeOK' /\ ScanState' /\ Runner'
  BY DEF IInv, NInv, TypeOK, ScanState, Runner
<1>2. HigherDone'
  BY DEF IInv, HigherDone, CouldRun
<1>. QED BY <1>1, <1>2, BookKept DEF IInv

\* Every step of the system keeps the invariant.
LEMMA NextInv == ASSUME NInv, IInv, ~Recycle, [Next]_vars PROVE IInv'
<1>1. CASE clock_handler \/ block
  BY <1>1, ClockInv, BlockInv
<1>2. CASE Schedule
  BY <1>2, StartScanInv, NextQueueInv, UnlockInv, EnqueueInv, VisitBlockedInv,
     VisitFoundInv, VisitSpentInv, VisitDemotedInv DEF Schedule
<1>3. CASE \E p \in Proc : unblock(p) \/ Exit(p)
  BY <1>3, UnblockInv, ExitInv
<1>4. CASE \E parent, child \in Proc : ForkCopy(parent, child)
  BY <1>4, ForkCopyInv
<1>5. CASE ForkSend \/ ForkDone
  BY <1>5, ForkSendInv, ForkDoneInv
<1>6. CASE UNCHANGED vars
  BY <1>6, StutterInv
<1>. QED BY <1>1, <1>2, <1>3, <1>4, <1>5, <1>6 DEF Next

\* The inductive invariant holds throughout.
THEOREM Invariance == ASSUME ~Recycle PROVE Spec => [](NInv /\ IInv)
<1>1. Init /\ NInv => IInv
  BY InitInv
<1>2. NInv /\ IInv /\ [Next]_vars => IInv'
  BY NextInv
<1>. QED BY <1>1, <1>2, NativeInvariance, PTL DEF Spec

\* outqueue never drops a process other than the one that leaves: the flags and
\* the queues agree, and its assertion holds.
THEOREM QueuesStayConsistent == ASSUME ~Recycle PROVE Spec => []QueuesConsistent
<1>1. ASSUME NInv, IInv PROVE QueuesConsistent
  <2>1. pass.pc # "assert"
    BY <1>1 DEF IInv, ScanState
  <2>2. ASSUME NEW p \in Proc, NEW k \in Level, Queued(p, k)
        PROVE  \E i \in 1 .. Len(queue[k]) : Occurs(p, k) = {i}
    <3>1. PICK i \in 1 .. Len(queue[k]) : \A j \in 1 .. Len(queue[k]) : queue[k][j] = p <=> j = i
      BY <1>1, <2>2 DEF IInv, Places, Once
    <3>2. Occurs(p, k) = {i}
      BY <3>1 DEF Occurs
    <3>. QED BY <3>2
  <2>3. ASSUME NEW p \in Proc, NEW k \in Level, ~Queued(p, k) PROVE Occurs(p, k) = {}
    BY <1>1, <2>3 DEF IInv, Places, Absent, Occurs
  <2>. QED BY <2>1, <2>2, <2>3 DEF QueuesConsistent, Queued
<1>. QED BY <1>1, Invariance, PTL

\* schedule() forgets no runnable process.
THEOREM NobodyIsForgotten == ASSUME ~Recycle PROVE Spec => []NobodyForgotten
<1>1. IInv => NobodyForgotten
  BY DEF IInv, Remembered, NobodyForgotten
<1>. QED BY <1>1, Invariance, PTL

\* The process that schedule() finds is of the highest queue that has one.
THEOREM HighestQueueAlwaysRuns == ASSUME ~Recycle PROVE Spec => HighestQueueRuns
<1> DEFINE Highest ==
             pass.pc = "scan" /\ pass'.pc = "user" =>
                 \A p \in Proc \ IntTasks :
                     CouldRun(p) => whichqueue[p_proc_ready'] <= whichqueue[p]
<1>1. ASSUME NInv, IInv, Next, pass.pc = "scan", pass'.pc = "user"
      PROVE  \E q \in Proc : VisitFound(q)
  <2>1. \A q \in Proc : Visiting(q) => pass' # Left(q)
    <3>. SUFFICES ASSUME NEW q \in Proc, Visiting(q) PROVE Left(q).pc = "scan"
      BY <1>1
    <3>. QED BY <1>1, VisitingFront DEF IInv, NInv, TypeOK
  <2>2. ~clock_handler /\ ~block /\ ~ForkSend /\ ~ForkDone
        /\ ~\E parent, child \in Proc : ForkCopy(parent, child)
    BY <1>1 DEF clock_handler, block, ForkSend, ForkDone, ForkCopy, MMRuns
  <2>3. \A q \in Proc : ~unblock(q) /\ ~Exit(q) /\ ~Enqueue(q)
    BY <1>1 DEF unblock, Exit, Enqueue, MMRuns
  <2>4. ~StartScan /\ ~NextQueue /\ ~Unlock
    BY <1>1 DEF StartScan, NextQueue, Unlock, Scanning, Entered, Outside
  <2>5. \A q \in Proc : ~VisitBlocked(q) /\ ~VisitSpent(q) /\ ~VisitDemoted(q)
    BY <1>1, <2>1 DEF VisitBlocked, VisitSpent, VisitDemoted
  <2>. QED BY <1>1, <2>2, <2>3, <2>4, <2>5 DEF Next, Schedule
<1>2. ASSUME NInv, IInv, NEW q \in Proc, VisitFound(q), NEW p \in Proc \ IntTasks, CouldRun(p)
      PROVE  whichqueue[p_proc_ready'] <= whichqueue[p]
  <2>1. p_proc_ready' = q /\ whichqueue[q] = pass.queue_num /\ pass.pc = "scan"
    BY <1>2, VisitingFront DEF VisitFound, Visiting
  <2>. QED BY <1>2, <2>1 DEF IInv, HigherDone
<1>3. NInv /\ IInv /\ [Next]_vars => [Highest]_vars
  BY <1>1, <1>2
<1>. QED BY <1>3, Invariance, PTL DEF Spec, HighestQueueRuns
=============================================================================
