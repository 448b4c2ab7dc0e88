------------------------------ MODULE IpcProofs -----------------------------
(* Proofs about module Ipc, for every set of processes, drivers and ticked  *)
(* tasks.                                                                   *)
EXTENDS Ipc, TLAPS

\* The inductive invariant.  None of its parts is inductive alone: that a queue
\* is exact needs the fields to go with the flags, that no rendezvous is missed
\* needs the queues to be exact, and what msg_send has matched must still be
\* there when it goes on.
IInv ==
    /\ TypeOK
    /\ FieldsMatchFlags
    /\ QueueExact
    /\ NoMissedRendezvous
    /\ NoCircularWait
    /\ NoLostInterrupt
    /\ InFlight

-----------------------------------------------------------------------------
(* Queues *)

\* q lists each of its elements once.
Distinct(q) == \A i, j \in 1 .. Len(q) : q[i] = q[j] => i = j

\* s is in q.
In(s, q) == \E i \in 1 .. Len(q) : q[i] = s

\* Appending a newcomer adds it and nothing else.
LEMMA AppendNew ==
    ASSUME NEW S, NEW q \in Seq(S), NEW s \in S, Distinct(q), ~In(s, q)
    PROVE  /\ Append(q, s) \in Seq(S)
           /\ Distinct(Append(q, s))
           /\ \A x : In(x, Append(q, s)) <=> In(x, q) \/ x = s
<1>1. /\ Append(q, s) \in Seq(S)
      /\ Len(Append(q, s)) = Len(q) + 1
      /\ \A i \in 1 .. Len(q) : Append(q, s)[i] = q[i]
      /\ Append(q, s)[Len(q) + 1] = s
      /\ Len(q) \in Nat
  OBVIOUS
<1>2. Distinct(Append(q, s))
  BY <1>1 DEF Distinct, In
<1>3. ASSUME NEW x PROVE In(x, Append(q, s)) <=> In(x, q) \/ x = s
  BY <1>1 DEF In
<1>. QED BY <1>1, <1>2, <1>3

\* Taking a member out of a queue leaves all the others, each still once.
LEMMA UnlinkMember ==
    ASSUME NEW S, NEW q \in Seq(S), NEW s \in S, Distinct(q), In(s, q)
    PROVE  /\ Unlink(q, s) \in Seq(S)
           /\ Distinct(Unlink(q, s))
           /\ \A x : In(x, Unlink(q, s)) <=> In(x, q) /\ x # s
<1> DEFINE k == CHOOSE i \in 1 .. Len(q) : q[i] = s
           n == Len(q)
           u == [j \in 1 .. n - 1 |-> IF j < k THEN q[j] ELSE q[j + 1]]
<1>1. k \in 1 .. n /\ q[k] = s
  BY DEF In
<1>2. n \in Nat /\ n # 0 /\ q \in [1 .. n -> S]
  BY <1>1
<1>3. Unlink(q, s) = u
  BY DEF Unlink, DropAt
<1> HIDE DEF k, n
<1>4. \A j \in 1 .. n - 1 : (IF j < k THEN q[j] ELSE q[j + 1]) \in S
  BY <1>1, <1>2
<1>5. u \in [1 .. n - 1 -> S]
  BY <1>4
<1>6. u \in Seq(S) /\ Len(u) = n - 1
  <2>1. n - 1 \in Nat
    BY <1>2
  <2>2. QED BY <1>5, <2>1
<1>7. \A i \in 1 .. n - 1 : u[i] = IF i < k THEN q[i] ELSE q[i + 1]
  OBVIOUS
<1> HIDE DEF u
<1>8. Distinct(u)
  BY <1>1, <1>2, <1>6, <1>7 DEF Distinct, n
<1>9. ASSUME NEW x PROVE In(x, u) <=> In(x, q) /\ x # s
  <2>1. ASSUME In(x, u) PROVE In(x, q) /\ x # s
    <3>1. PICK i \in 1 .. n - 1 : u[i] = x
      BY <2>1, <1>6 DEF In
    <3>2. CASE i < k
      BY <3>1, <3>2, <1>1, <1>2, <1>7 DEF In, Distinct, n
    <3>3. CASE ~(i < k)
      BY <3>1, <3>3, <1>1, <1>2, <1>7 DEF In, Distinct, n
    <3>4. QED BY <3>2, <3>3
  <2>2. ASSUME In(x, q), x # s PROVE In(x, u)
    <3>1. PICK i \in 1 .. n : q[i] = x
      BY <2>2 DEF In, n
    <3>2. CASE i < k
      BY <3>1, <3>2, <1>1, <1>2, <1>6, <1>7 DEF In
    <3>3. CASE ~(i < k)
      <4>1. i - 1 \in 1 .. n - 1 /\ ~(i - 1 < k)
        BY <2>2, <3>1, <3>3, <1>1, <1>2
      <4>2. u[i - 1] = q[i]
        BY <4>1, <1>7, <1>2
      <4>3. QED BY <4>1, <4>2, <3>1, <1>6 DEF In
    <3>4. QED BY <3>2, <3>3
  <2>3. QED BY <2>1, <2>2
<1>10. QED BY <1>3, <1>6, <1>8, <1>9

-----------------------------------------------------------------------------
(* The initial state *)

LEMMA InitInv == Init => IInv
<1> SUFFICES ASSUME Init PROVE IInv
  OBVIOUS
<1> USE IpcAssumption DEF Init, User
<1>1. TypeOK
  BY DEF TypeOK
<1>2. FieldsMatchFlags
  BY DEF FieldsMatchFlags, SENDING, RECEIVING
<1>3. QueueExact
  BY DEF QueueExact
<1>4. NoMissedRendezvous
  BY DEF NoMissedRendezvous, Listening
<1>5. NoCircularWait
  BY DEF NoCircularWait, Sending
<1>6. NoLostInterrupt
  BY DEF NoLostInterrupt, Listening
<1>7. InFlight
  BY DEF InFlight
<1>. QED BY <1>1, <1>2, <1>3, <1>4, <1>5, <1>6, <1>7 DEF IInv

-----------------------------------------------------------------------------
(* msg_send *)

\* A process is runnable, sending or receiving.
LEMMA FlagCases ==
    ASSUME TypeOK, FieldsMatchFlags, NEW p \in Proc
    PROVE  \/ /\ p_flags[p] = {} /\ ~p_msg[p]
              /\ p_sendto[p] = NO_TASK /\ p_recvfrom[p] = NO_TASK
           \/ /\ p_flags[p] = {SENDING} /\ p_msg[p]
              /\ p_sendto[p] # NO_TASK /\ p_recvfrom[p] = NO_TASK
           \/ /\ p_flags[p] = {RECEIVING} /\ p_msg[p]
              /\ p_sendto[p] = NO_TASK /\ p_recvfrom[p] # NO_TASK
<1>1. p_flags[p] \in {{}, {SENDING}, {RECEIVING}}
  <2>1. p_flags[p] \in SUBSET {SENDING, RECEIVING} /\ p_flags[p] # {SENDING, RECEIVING}
    BY DEF TypeOK, FieldsMatchFlags
  <2>. QED BY <2>1
<1>2. SENDING # RECEIVING
  BY DEF SENDING, RECEIVING
<1>. QED BY <1>1, <1>2 DEF FieldsMatchFlags

LEMMA SendDeadlockInv ==
    ASSUME IInv, NEW s \in Proc, NEW d \in Proc, SendDeadlock(s, d) PROVE IInv'
<1> USE DEF SendDeadlock, IInv
<1>1. TypeOK'
  BY DEF TypeOK, Stopped
<1>2. (FieldsMatchFlags /\ QueueExact)'
  BY DEF FieldsMatchFlags, QueueExact
<1>3. (NoMissedRendezvous /\ NoCircularWait /\ NoLostInterrupt)'
  BY DEF NoMissedRendezvous, NoCircularWait, NoLostInterrupt, Listening, Sending, InCommand
<1>4. InFlight'
  BY DEF InFlight, Stopped
<1>. QED BY <1>1, <1>2, <1>3, <1>4

LEMMA SendMatchInv ==
    ASSUME IInv, NEW s \in Proc, NEW d \in Proc, SendMatch(s, d) PROVE IInv'
<1> USE DEF SendMatch, IInv
<1>1. TypeOK'
  BY DEF TypeOK, InSend
<1>2. (FieldsMatchFlags /\ QueueExact)'
  BY DEF FieldsMatchFlags, QueueExact
<1>3. (NoMissedRendezvous /\ NoCircularWait /\ NoLostInterrupt)'
  BY DEF NoMissedRendezvous, NoCircularWait, NoLostInterrupt, Listening, Sending, InCommand
<1>4. InFlight'
  BY DEF InFlight, InSend, MaySend, Runnable, Listening, InCommand
<1>. QED BY <1>1, <1>2, <1>3, <1>4

LEMMA SendEnqueueInv ==
    ASSUME IInv, NEW s \in Proc, NEW d \in Proc, SendEnqueue(s, d) PROVE IInv'
<1> USE IpcAssumption DEF IInv
<1>1. /\ s # d
      /\ cpu = User
      /\ p_flags[s] = {}
      /\ ~InCommand(s)
      /\ ~Deadlock(s, d)
      /\ ~Listening(d, {s, ANY})
      /\ p_flags' = [p_flags EXCEPT ![s] = @ \cup {SENDING}]
      /\ p_sendto' = [p_sendto EXCEPT ![s] = d]
      /\ p_msg' = [p_msg EXCEPT ![s] = TRUE]
      /\ q_sending' = [q_sending EXCEPT ![d] = Append(@, s)]
      /\ UNCHANGED <<p_recvfrom, has_int_msg, mail, device, cpu>>
  BY DEF SendEnqueue, MaySend, Runnable
<1>2. p_sendto[s] = NO_TASK /\ p_recvfrom[s] = NO_TASK /\ p_flags'[s] = {SENDING}
  BY <1>1 DEF TypeOK, FieldsMatchFlags
<1>3. /\ \A e \in Proc : q_sending[e] \in Seq(Proc) /\ Distinct(q_sending[e])
      /\ \A e, p \in Proc : p_sendto[p] = e <=> In(p, q_sending[e])
  BY DEF TypeOK, QueueExact, Distinct, In
<1>4. ~In(s, q_sending[d])
  BY <1>2, <1>3
<1>5. /\ q_sending'[d] \in Seq(Proc)
      /\ Distinct(q_sending'[d])
      /\ \A x : In(x, q_sending'[d]) <=> In(x, q_sending[d]) \/ x = s
  <2>1. q_sending'[d] = Append(q_sending[d], s)
    BY <1>1 DEF TypeOK
  <2>2. QED BY <2>1, <1>3, <1>4, AppendNew
<1>6. TypeOK'
  BY <1>1, <1>2, <1>5 DEF TypeOK
<1>7. FieldsMatchFlags'
  <2> SUFFICES ASSUME NEW p \in Proc
               PROVE  /\ p_flags'[p] # {SENDING, RECEIVING}
                      /\ SENDING \in p_flags'[p] <=> p_sendto'[p] # NO_TASK
                      /\ RECEIVING \in p_flags'[p] <=> p_recvfrom'[p] # NO_TASK
                      /\ p_msg'[p] <=> p_flags'[p] # {}
    BY DEF FieldsMatchFlags
  <2>1. CASE p = s
    <3>1. /\ p_flags'[p] = {SENDING}
          /\ p_sendto'[p] = d /\ d # NO_TASK
          /\ p_recvfrom'[p] = NO_TASK
      BY <2>1, <1>1, <1>2 DEF TypeOK
    <3>2. p_msg'[p]
      BY <2>1, <1>1 DEF TypeOK
    <3>3. SENDING # RECEIVING
      BY DEF SENDING, RECEIVING
    <3>. QED BY <3>1, <3>2, <3>3
  <2>2. CASE p # s
    BY <2>2, <1>1 DEF FieldsMatchFlags, TypeOK
  <2>. QED BY <2>1, <2>2
<1>8. QueueExact'
  <2> SUFFICES ASSUME NEW e \in Proc
               PROVE  /\ Distinct(q_sending'[e])
                      /\ \A p \in Proc : p_sendto'[p] = e <=> In(p, q_sending'[e])
    BY DEF QueueExact, Distinct, In
  <2>1. CASE e = d
    BY <2>1, <1>1, <1>2, <1>3, <1>5 DEF TypeOK
  <2>2. CASE e # d
    BY <2>2, <1>1, <1>2, <1>3 DEF TypeOK
  <2>. QED BY <2>1, <2>2
<1>9. \A x \in Proc : \A S : Listening(x, S)' <=> Listening(x, S)
  BY <1>1 DEF Listening, TypeOK, SENDING, RECEIVING
<1>10. NoMissedRendezvous'
  <2> SUFFICES ASSUME NEW a \in Proc, NEW b \in Proc, p_sendto'[a] = b
               PROVE  ~Listening(b, {a, ANY})'
    BY DEF NoMissedRendezvous
  <2>1. Listening(b, {a, ANY})' <=> Listening(b, {a, ANY})
    BY <1>9
  <2>2. CASE a = s
    BY <2>1, <2>2, <1>1 DEF TypeOK
  <2>3. CASE a # s
    BY <2>1, <2>3, <1>1 DEF NoMissedRendezvous, TypeOK
  <2>. QED BY <2>2, <2>3
<1>11. NoCircularWait'
  <2>1. PICK T \in SUBSET Proc :
          /\ d \in T
          /\ \A p \in T : Sending(p) => p_sendto[p] \in T
          /\ s \notin T
    BY <1>1 DEF Deadlock
  <2>2. /\ \A p \in Proc : p # s => (Sending(p)' <=> Sending(p)) /\ p_sendto'[p] = p_sendto[p]
        /\ p_sendto'[s] = d
    BY <1>1 DEF Sending, TypeOK
  <2> SUFFICES ASSUME NEW S \in SUBSET Proc, S # {},
                      \A p \in S : Sending(p)' /\ p_sendto'[p] \in S
               PROVE  FALSE
    BY DEF NoCircularWait
  <2>3. CASE s \notin S
    BY <2>2, <2>3 DEF NoCircularWait
  <2>4. CASE s \in S
    <3>1. d \in S \cap T
      BY <2>1, <2>2, <2>4
    <3>2. \A p \in S \cap T : Sending(p) /\ p_sendto[p] \in S \cap T
      BY <2>1, <2>2
    <3>. QED BY <3>1, <3>2 DEF NoCircularWait
  <2>. QED BY <2>3, <2>4
<1>12. NoLostInterrupt'
  BY <1>1, <1>2, <1>9 DEF NoLostInterrupt, TypeOK, InCommand
<1>13. InFlight'
  BY <1>1 DEF InFlight, User
<1>. QED BY <1>6, <1>7, <1>8, <1>10, <1>11, <1>12, <1>13

LEMMA SendAssertInv == IInv /\ SendAssert => IInv'
<1> SUFFICES ASSUME IInv, SendAssert PROVE IInv'
  OBVIOUS
<1> USE DEF SendAssert, IInv
<1>1. TypeOK'
  BY DEF TypeOK, Stopped
<1>2. (FieldsMatchFlags /\ QueueExact)'
  BY DEF FieldsMatchFlags, QueueExact
<1>3. (NoMissedRendezvous /\ NoCircularWait /\ NoLostInterrupt)'
  BY DEF NoMissedRendezvous, NoCircularWait, NoLostInterrupt, Listening, Sending, InCommand
<1>4. InFlight'
  BY DEF InFlight, Stopped, Listening, InCommand, TypeOK
<1>. QED BY <1>1, <1>2, <1>3, <1>4

LEMMA SendCopyInv == IInv /\ SendCopy => IInv'
<1> SUFFICES ASSUME IInv, SendCopy PROVE IInv'
  OBVIOUS
<1> USE DEF SendCopy, IInv
<1>1. TypeOK'
  BY DEF TypeOK
<1>2. (FieldsMatchFlags /\ QueueExact)'
  BY DEF FieldsMatchFlags, QueueExact
<1>3. (NoMissedRendezvous /\ NoCircularWait /\ NoLostInterrupt)'
  BY DEF NoMissedRendezvous, NoCircularWait, NoLostInterrupt, Listening, Sending, InCommand
<1>4. InFlight'
  BY DEF InFlight, Listening, InCommand, TypeOK
<1>. QED BY <1>1, <1>2, <1>3, <1>4

LEMMA SendWakeInv == IInv /\ SendWake => IInv'
<1> SUFFICES ASSUME IInv, SendWake PROVE IInv'
  OBVIOUS
<1> USE IpcAssumption DEF SendWake, IInv
<1>1. TypeOK'
  BY DEF TypeOK, User
<1>2. /\ cpu.dest \in Proc
      /\ p_sendto[cpu.dest] = NO_TASK
      /\ SENDING \notin p_flags[cpu.dest]
  <2>1. /\ cpu.dest \in Proc
        /\ RECEIVING \in p_flags[cpu.dest] \/ p_flags[cpu.dest] = {}
    BY DEF InFlight, Listening
  <2>2. SENDING # RECEIVING
    BY DEF SENDING, RECEIVING
  <2>. QED BY <2>1, <2>2, FlagCases
<1>3. FieldsMatchFlags'
  BY <1>2 DEF FieldsMatchFlags, TypeOK, SENDING, RECEIVING
<1>4. QueueExact'
  BY DEF QueueExact
<1>5. \A x \in Proc : \A S : Listening(x, S)' => Listening(x, S)
  BY DEF Listening, TypeOK
<1>6. \A p \in Proc : Sending(p)' <=> Sending(p)
  BY DEF Sending, TypeOK, SENDING, RECEIVING
<1>7. (NoMissedRendezvous /\ NoCircularWait /\ NoLostInterrupt)'
  BY <1>5, <1>6, ZenonT(30) DEF NoMissedRendezvous, NoCircularWait, NoLostInterrupt, TypeOK, InCommand
<1>8. InFlight'
  BY DEF InFlight, User
<1>. QED BY <1>1, <1>3, <1>4, <1>7, <1>8

-----------------------------------------------------------------------------
(* msg_receive *)

LEMMA ReceiveIntInv ==
    ASSUME IInv, NEW r \in Proc, NEW src, ReceiveInt(r, src) PROVE IInv'
<1> USE IpcAssumption DEF ReceiveInt, IInv
<1>1. cpu = User
  BY DEF MayReceive, Runnable
<1>2. TypeOK'
  BY DEF TypeOK
<1>3. (FieldsMatchFlags /\ QueueExact)'
  BY DEF FieldsMatchFlags, QueueExact
<1>4. (NoMissedRendezvous /\ NoCircularWait)'
  BY DEF NoMissedRendezvous, NoCircularWait, Listening, Sending
<1>5. NoLostInterrupt'
  <2>1. \A t \in Proc : has_int_msg'[t] <=> has_int_msg[t] /\ t # r
    BY DEF TypeOK
  <2>2. \A t \in DiskTasks : device'[t] = IF t = r THEN "idle" ELSE device[t]
    OBVIOUS
  <2>3. RECEIVING \notin p_flags[r]
    BY DEF MayReceive, Runnable
  <2>. QED BY <2>1, <2>2, <2>3 DEF NoLostInterrupt, Listening, InCommand
<1>6. InFlight'
  BY <1>1 DEF InFlight, User
<1>. QED BY <1>2, <1>3, <1>4, <1>5, <1>6

LEMMA ReceiveFromInv ==
    ASSUME IInv, NEW r \in Proc, NEW src, NEW s \in Proc, ReceiveFrom(r, src, s)
    PROVE  IInv'
<1> USE IpcAssumption DEF IInv
<1>1. /\ cpu = User
      /\ q_sending' = [q_sending EXCEPT ![r] = Unlink(@, s)]
      /\ mail' = [mail EXCEPT ![r] = s]
      /\ p_msg' = [p_msg EXCEPT ![s] = FALSE]
      /\ p_sendto' = [p_sendto EXCEPT ![s] = NO_TASK]
      /\ p_flags' = [p_flags EXCEPT ![s] = @ \ {SENDING}]
      /\ UNCHANGED <<p_recvfrom, has_int_msg, device, cpu>>
  BY DEF ReceiveFrom, MayReceive, Runnable
<1>2. /\ \A e \in Proc : q_sending[e] \in Seq(Proc) /\ Distinct(q_sending[e])
      /\ \A e, p \in Proc : p_sendto[p] = e <=> In(p, q_sending[e])
  BY DEF TypeOK, QueueExact, Distinct, In
<1>3. In(s, q_sending[r]) /\ p_sendto[s] = r
  <2>1. CASE src = ANY
    <3>1. q_sending[r] # <<>> /\ s = Head(q_sending[r])
      BY <2>1 DEF ReceiveFrom, IsSenderFor
    <3>2. s = q_sending[r][1] /\ 1 \in 1 .. Len(q_sending[r])
      BY <3>1, <1>2
    <3>. QED BY <3>2, <1>2 DEF In
  <2>2. CASE src # ANY
    BY <2>2, <1>2 DEF ReceiveFrom, IsSenderFor
  <2>. QED BY <2>1, <2>2
<1>4. p_flags[s] = {SENDING} /\ p_recvfrom[s] = NO_TASK /\ p_flags'[s] = {}
  BY <1>1, <1>3, FlagCases DEF TypeOK
<1>5. /\ q_sending'[r] \in Seq(Proc)
      /\ Distinct(q_sending'[r])
      /\ \A x : In(x, q_sending'[r]) <=> In(x, q_sending[r]) /\ x # s
  <2>1. q_sending'[r] = Unlink(q_sending[r], s)
    BY <1>1 DEF TypeOK
  <2>2. QED BY <2>1, <1>2, <1>3, UnlinkMember
<1>6. TypeOK'
  BY <1>1, <1>5 DEF TypeOK
<1>7. FieldsMatchFlags'
  <2> SUFFICES ASSUME NEW p \in Proc
               PROVE  /\ p_flags'[p] # {SENDING, RECEIVING}
                      /\ SENDING \in p_flags'[p] <=> p_sendto'[p] # NO_TASK
                      /\ RECEIVING \in p_flags'[p] <=> p_recvfrom'[p] # NO_TASK
                      /\ p_msg'[p] <=> p_flags'[p] # {}
    BY DEF FieldsMatchFlags
  <2>1. CASE p = s
    <3>1. /\ p_flags'[p] = {}
          /\ p_sendto'[p] = NO_TASK /\ p_recvfrom'[p] = NO_TASK
      BY <2>1, <1>1, <1>4 DEF TypeOK
    <3>2. ~p_msg'[p]
      BY <2>1, <1>1 DEF TypeOK
    <3>. QED BY <3>1, <3>2
  <2>2. CASE p # s
    BY <2>2, <1>1 DEF FieldsMatchFlags, TypeOK
  <2>. QED BY <2>1, <2>2
<1>8. QueueExact'
  <2> SUFFICES ASSUME NEW e \in Proc
               PROVE  /\ Distinct(q_sending'[e])
                      /\ \A p \in Proc : p_sendto'[p] = e <=> In(p, q_sending'[e])
    BY DEF QueueExact, Distinct, In
  <2>1. CASE e = r
    BY <2>1, <1>1, <1>2, <1>3, <1>5 DEF TypeOK
  <2>2. CASE e # r
    BY <2>2, <1>1, <1>2, <1>3 DEF TypeOK
  <2>. QED BY <2>1, <2>2
<1>9. \A x \in Proc : \A S : Listening(x, S)' <=> Listening(x, S)
  BY <1>1, <1>4 DEF Listening, TypeOK, SENDING, RECEIVING
<1>10. NoMissedRendezvous'
  <2> SUFFICES ASSUME NEW a \in Proc, NEW b \in Proc, p_sendto'[a] = b
               PROVE  ~Listening(b, {a, ANY})'
    BY DEF NoMissedRendezvous
  <2>1. p_sendto[a] = b
    BY <1>1 DEF TypeOK
  <2>2. Listening(b, {a, ANY})' <=> Listening(b, {a, ANY})
    BY <1>9
  <2>. QED BY <2>1, <2>2 DEF NoMissedRendezvous
<1>11. NoCircularWait'
  <2>1. \A p \in Proc : Sending(p)' => Sending(p) /\ p_sendto'[p] = p_sendto[p]
    BY <1>1, <1>4 DEF Sending, TypeOK
  <2>. QED BY <2>1 DEF NoCircularWait
<1>12. NoLostInterrupt'
  <2>1. \A p \in Proc : p_sendto'[p] \in {p_sendto[p], NO_TASK}
    BY <1>1 DEF TypeOK
  <2>. QED BY <1>1, <1>9, <2>1 DEF NoLostInterrupt, InCommand
<1>13. InFlight'
  BY <1>1 DEF InFlight, User
<1>. QED BY <1>6, <1>7, <1>8, <1>10, <1>11, <1>12, <1>13

LEMMA ReceiveBlockInv ==
    ASSUME IInv, NEW r \in Proc, NEW src \in Proc \cup {ANY, INTERRUPT},
           ReceiveBlock(r, src)
    PROVE  IInv'
<1> USE IpcAssumption DEF IInv
<1>1. /\ cpu = User
      /\ r # src
      /\ p_flags[r] = {}
      /\ InCommand(r) <=> src = INTERRUPT
      /\ NoInt(r, src)
      /\ \A s \in Proc : ~IsSenderFor(s, r, src)
      /\ p_flags' = [p_flags EXCEPT ![r] = @ \cup {RECEIVING}]
      /\ p_msg' = [p_msg EXCEPT ![r] = TRUE]
      /\ p_recvfrom' = [p_recvfrom EXCEPT ![r] = src]
      /\ mail' = [mail EXCEPT ![r] = NO_TASK]
      /\ UNCHANGED <<p_sendto, has_int_msg, q_sending, device, cpu>>
  BY DEF ReceiveBlock, MayReceive, Runnable
<1>2. p_sendto[r] = NO_TASK /\ p_flags'[r] = {RECEIVING} /\ src # NO_TASK
  BY <1>1, FlagCases, ZenonT(30) DEF TypeOK
<1>3. TypeOK'
  BY <1>1 DEF TypeOK
<1>4. FieldsMatchFlags'
  <2> SUFFICES ASSUME NEW p \in Proc
               PROVE  /\ p_flags'[p] # {SENDING, RECEIVING}
                      /\ SENDING \in p_flags'[p] <=> p_sendto'[p] # NO_TASK
                      /\ RECEIVING \in p_flags'[p] <=> p_recvfrom'[p] # NO_TASK
                      /\ p_msg'[p] <=> p_flags'[p] # {}
    BY DEF FieldsMatchFlags
  <2>1. CASE p = r
    <3>1. /\ p_flags'[p] = {RECEIVING}
          /\ p_sendto'[p] = NO_TASK /\ p_recvfrom'[p] = src
      BY <2>1, <1>1, <1>2 DEF TypeOK
    <3>2. p_msg'[p]
      BY <2>1, <1>1 DEF TypeOK
    <3>3. SENDING # RECEIVING
      BY DEF SENDING, RECEIVING
    <3>. QED BY <1>2, <3>1, <3>2, <3>3
  <2>2. CASE p # r
    BY <2>2, <1>1 DEF FieldsMatchFlags, TypeOK
  <2>. QED BY <2>1, <2>2
<1>5. QueueExact'
  BY <1>1, SMTT(30) DEF QueueExact
<1>6. /\ \A x \in Proc : \A S : x # r => (Listening(x, S)' <=> Listening(x, S))
      /\ \A S : Listening(r, S)' => src \in S
  BY <1>1 DEF Listening, TypeOK
<1>7. NoMissedRendezvous'
  <2> SUFFICES ASSUME NEW a \in Proc, NEW b \in Proc, p_sendto[a] = b,
                      Listening(b, {a, ANY})'
               PROVE  FALSE
    BY <1>1 DEF NoMissedRendezvous
  <2>1. b = r
    BY <1>6 DEF NoMissedRendezvous
  <2>2. src \in {a, ANY}
    BY <2>1, <1>6
  <2>3. CASE src = a
    <3>1. Sending(a)
      BY DEF FieldsMatchFlags, Sending
    <3>. QED BY <2>1, <2>3, <3>1, <1>1 DEF IsSenderFor
  <2>4. CASE src = ANY
    <3>1. PICK i \in 1 .. Len(q_sending[r]) : q_sending[r][i] = a
      BY <2>1 DEF QueueExact
    <3>2. q_sending[r] \in Seq(Proc) /\ q_sending[r] # <<>>
      BY <3>1 DEF TypeOK
    <3>3. Head(q_sending[r]) \in Proc
      BY <3>2
    <3>. QED BY <2>4, <3>2, <3>3, <1>1 DEF IsSenderFor
  <2>. QED BY <2>2, <2>3, <2>4
<1>8. NoCircularWait'
  <2>1. \A p \in Proc : Sending(p)' => Sending(p)
    BY <1>1 DEF Sending, TypeOK, SENDING, RECEIVING
  <2>. QED BY <2>1, <1>1 DEF NoCircularWait
<1>9. NoLostInterrupt'
  <2>1. ASSUME NEW t \in Proc, has_int_msg[t], Listening(t, {ANY, INTERRUPT})'
        PROVE  FALSE
    BY <2>1, <1>1, <1>6 DEF NoInt, NoLostInterrupt
  <2>2. ASSUME NEW t \in DiskTasks, Listening(t, {INTERRUPT})'
        PROVE  device[t] = "working"
    <3>1. CASE t = r
      <4>1. src = INTERRUPT /\ device[r] # "idle"
        BY <2>2, <3>1, <1>1, <1>6 DEF InCommand
      <4>2. ~has_int_msg[r]
        BY <4>1, <1>1 DEF NoInt
      <4>. QED BY <3>1, <4>1, <4>2 DEF NoLostInterrupt, TypeOK
    <3>2. CASE t # r
      BY <2>2, <3>2, <1>6 DEF NoLostInterrupt
    <3>. QED BY <3>1, <3>2
  <2>. QED BY <2>1, <2>2, <1>1 DEF NoLostInterrupt, InCommand, TypeOK
<1>10. InFlight'
  BY <1>1 DEF InFlight, User
<1>. QED BY <1>3, <1>4, <1>5, <1>7, <1>8, <1>9, <1>10

-----------------------------------------------------------------------------
(* Interrupts *)

\* What inform_int does to a task that listens for the interrupt.
LEMMA InformedInv ==
    ASSUME IInv, NEW t \in Proc, inform_int(t), UNCHANGED <<p_sendto, q_sending, cpu>>
    PROVE  /\ FieldsMatchFlags' /\ QueueExact' /\ NoMissedRendezvous' /\ NoCircularWait'
           /\ \A x \in Proc : \A S : Listening(x, S)' => Listening(x, S)
           /\ Listening(t, {INTERRUPT, ANY}) => p_flags'[t] = {}
           /\ ~Listening(t, {INTERRUPT, ANY}) => p_flags' = p_flags
           /\ \A p \in Proc : p # t => p_flags'[p] = p_flags[p] /\ p_recvfrom'[p] = p_recvfrom[p]
<1> USE IpcAssumption DEF IInv
<1>1. CASE Listening(t, {INTERRUPT, ANY})
  <2>1. /\ p_msg' = [p_msg EXCEPT ![t] = FALSE]
        /\ p_flags' = [p_flags EXCEPT ![t] = @ \ {RECEIVING}]
        /\ p_recvfrom' = [p_recvfrom EXCEPT ![t] = NO_TASK]
    BY <1>1 DEF inform_int
  <2>2. p_flags[t] = {RECEIVING} /\ p_sendto[t] = NO_TASK
    BY <1>1, FlagCases DEF Listening, SENDING, RECEIVING
  <2>3. p_flags'[t] = {} /\ p_recvfrom'[t] = NO_TASK
    BY <2>1, <2>2 DEF TypeOK
  <2>4. FieldsMatchFlags'
    <3> SUFFICES ASSUME NEW p \in Proc
                 PROVE  /\ p_flags'[p] # {SENDING, RECEIVING}
                        /\ SENDING \in p_flags'[p] <=> p_sendto'[p] # NO_TASK
                        /\ RECEIVING \in p_flags'[p] <=> p_recvfrom'[p] # NO_TASK
                        /\ p_msg'[p] <=> p_flags'[p] # {}
      BY DEF FieldsMatchFlags
    <3>1. CASE p = t
      <4>1. ~p_msg'[p]
        BY <3>1, <2>1 DEF TypeOK
      <4>. QED BY <3>1, <2>2, <2>3, <4>1
    <3>2. CASE p # t
      BY <3>2, <2>1 DEF FieldsMatchFlags, TypeOK
    <3>. QED BY <3>1, <3>2
  <2>5. \A x \in Proc : \A S : Listening(x, S)' => Listening(x, S)
    BY <2>1 DEF Listening, TypeOK
  <2>6. \A p \in Proc : Sending(p)' => Sending(p)
    BY <2>1 DEF Sending, TypeOK
  <2>7. QueueExact'
    BY DEF QueueExact
  <2>8. NoMissedRendezvous'
    BY <2>5 DEF NoMissedRendezvous
  <2>9. NoCircularWait'
    BY <2>6 DEF NoCircularWait
  <2>10. \A p \in Proc : p # t => p_flags'[p] = p_flags[p] /\ p_recvfrom'[p] = p_recvfrom[p]
    BY <2>1 DEF TypeOK
  <2>. QED BY <1>1, <2>3, <2>4, <2>5, <2>7, <2>8, <2>9, <2>10
<1>2. CASE ~Listening(t, {INTERRUPT, ANY})
  <2>1. UNCHANGED <<p_flags, p_msg, p_recvfrom, mail>>
    BY <1>2 DEF inform_int
  <2>. QED BY <1>2, <2>1 DEF FieldsMatchFlags, QueueExact, NoMissedRendezvous,
                             NoCircularWait, Listening, Sending
<1>. QED BY <1>1, <1>2

LEMMA DiskInterruptInv ==
    ASSUME IInv, NEW t \in DiskTasks, DiskInterrupt(t) PROVE IInv'
<1> USE IpcAssumption DEF IInv
<1>1. /\ t \in Proc /\ t \notin TickTasks
      /\ device[t] = "working"
      /\ device' = [device EXCEPT
           ![t] = IF Listening(t, {INTERRUPT, ANY}) THEN "idle" ELSE "answered"]
      /\ inform_int(t)
      /\ UNCHANGED <<p_sendto, q_sending, cpu>>
  BY DEF DiskInterrupt
<1>2. /\ FieldsMatchFlags' /\ QueueExact' /\ NoMissedRendezvous' /\ NoCircularWait'
      /\ \A x \in Proc : \A S : Listening(x, S)' => Listening(x, S)
      /\ Listening(t, {INTERRUPT, ANY}) => p_flags'[t] = {}
      /\ ~Listening(t, {INTERRUPT, ANY}) => p_flags' = p_flags
      /\ \A p \in Proc : p # t => p_flags'[p] = p_flags[p] /\ p_recvfrom'[p] = p_recvfrom[p]
  BY <1>1, InformedInv
<1>3. TypeOK'
  <2>1. CASE Listening(t, {INTERRUPT, ANY})
    <3>1. device' \in [DiskTasks -> {"idle", "working", "answered"}]
      BY <1>1, <2>1 DEF TypeOK
    <3>2. /\ mail' = [mail EXCEPT ![t] = INTERRUPT]
          /\ p_msg' = [p_msg EXCEPT ![t] = FALSE]
          /\ has_int_msg' = [has_int_msg EXCEPT ![t] = FALSE]
          /\ p_flags' = [p_flags EXCEPT ![t] = @ \ {RECEIVING}]
          /\ p_recvfrom' = [p_recvfrom EXCEPT ![t] = NO_TASK]
      BY <1>1, <2>1 DEF inform_int
    <3>. QED BY <1>1, <3>1, <3>2 DEF TypeOK
  <2>2. CASE ~Listening(t, {INTERRUPT, ANY})
    BY <1>1, <2>2 DEF TypeOK, inform_int
  <2>. QED BY <2>1, <2>2
<1>4. NoLostInterrupt'
  <2>1. CASE Listening(t, {INTERRUPT, ANY})
    <3>1. /\ has_int_msg' = [has_int_msg EXCEPT ![t] = FALSE]
          /\ \A x \in DiskTasks : device'[x] = IF x = t THEN "idle" ELSE device[x]
      BY <1>1, <2>1 DEF inform_int, TypeOK
    <3>2. \A S : ~Listening(t, S)'
      BY <2>1, <1>2 DEF Listening
    <3>3. \A x \in Proc : has_int_msg'[x] <=> has_int_msg[x] /\ x # t
      BY <3>1 DEF TypeOK
    <3>4. \A x \in DiskTasks : InCommand(x)' <=> InCommand(x) /\ x # t
      BY <3>1 DEF InCommand
    <3>. QED BY <3>1, <3>2, <3>3, <3>4, <1>1, <1>2, SMTT(30) DEF NoLostInterrupt
  <2>2. CASE ~Listening(t, {INTERRUPT, ANY})
    <3>1. /\ has_int_msg' = [has_int_msg EXCEPT ![t] = TRUE]
          /\ \A x \in DiskTasks : device'[x] = IF x = t THEN "answered" ELSE device[x]
      BY <1>1, <2>2 DEF inform_int, TypeOK
    <3>2. ~Listening(t, {ANY, INTERRUPT})' /\ ~Listening(t, {INTERRUPT})'
      BY <2>2, <1>2 DEF Listening
    <3>3. \A x \in Proc : has_int_msg'[x] <=> has_int_msg[x] \/ x = t
      BY <3>1 DEF TypeOK
    <3>4. \A x \in DiskTasks : InCommand(x)' <=> InCommand(x)
      BY <3>1, <1>1 DEF InCommand
    <3>5. UNCHANGED p_recvfrom
      BY <1>1, <2>2 DEF inform_int
    <3>. QED BY <3>1, <3>2, <3>3, <3>4, <3>5, <1>1, <1>2 DEF NoLostInterrupt
  <2>. QED BY <2>1, <2>2
<1>5. InFlight'
  <2> SUFFICES ASSUME cpu.pc \in {"matched", "asserted", "copied"}
               PROVE  /\ p_flags'[cpu.src] = {}
                      /\ ~InCommand(cpu.src)'
                      /\ \/ Listening(cpu.dest, {cpu.src, ANY})'
                         \/ cpu.dest \in TickTasks /\ p_flags'[cpu.dest] = {}
    BY <1>1 DEF InFlight
  <2>1. /\ cpu.src \in Proc /\ cpu.dest \in Proc
        /\ p_flags[cpu.src] = {}
        /\ ~InCommand(cpu.src)
    BY DEF InFlight
  <2>2. cpu.src # t
    BY <2>1, <1>1 DEF InCommand
  <2>3. p_flags'[cpu.src] = {} /\ ~InCommand(cpu.src)'
    BY <1>1, <1>2, <2>1, <2>2 DEF InCommand, TypeOK
  <2>4. CASE cpu.dest = t
    <3>1. RECEIVING \in p_flags[t] /\ p_recvfrom[t] \in {cpu.src, ANY}
      BY <2>4, <1>1 DEF InFlight, Listening
    <3>2. InCommand(t)
      BY <1>1 DEF InCommand
    <3>3. p_recvfrom[t] = INTERRUPT
      BY <3>1, <3>2, <2>1 DEF NoLostInterrupt, FieldsMatchFlags, TypeOK
    <3>. QED BY <3>1, <3>3, <2>1
  <2>5. CASE cpu.dest # t
    <3>1. p_flags'[cpu.dest] = p_flags[cpu.dest] /\ p_recvfrom'[cpu.dest] = p_recvfrom[cpu.dest]
      BY <2>5, <2>1, <1>2
    <3>2. \/ Listening(cpu.dest, {cpu.src, ANY})
          \/ cpu.dest \in TickTasks /\ p_flags[cpu.dest] = {}
      BY DEF InFlight
    <3>3. CASE Listening(cpu.dest, {cpu.src, ANY})
      BY <2>3, <3>1, <3>3, <1>1 DEF Listening
    <3>4. CASE cpu.dest \in TickTasks /\ p_flags[cpu.dest] = {}
      BY <2>3, <3>1, <3>4
    <3>. QED BY <3>2, <3>3, <3>4
  <2>. QED BY <2>3, <2>4, <2>5
<1>. QED BY <1>2, <1>3, <1>4, <1>5

LEMMA TickInterruptInv ==
    ASSUME IInv, NEW t \in TickTasks, TickInterrupt(t) PROVE IInv'
<1> USE IpcAssumption DEF IInv
<1>1. /\ t \in Proc /\ t \notin DiskTasks
      /\ inform_int(t)
      /\ UNCHANGED <<p_sendto, q_sending, device, cpu>>
  BY DEF TickInterrupt
<1>2. /\ FieldsMatchFlags' /\ QueueExact' /\ NoMissedRendezvous' /\ NoCircularWait'
      /\ \A x \in Proc : \A S : Listening(x, S)' => Listening(x, S)
      /\ Listening(t, {INTERRUPT, ANY}) => p_flags'[t] = {}
      /\ ~Listening(t, {INTERRUPT, ANY}) => p_flags' = p_flags
      /\ \A p \in Proc : p # t => p_flags'[p] = p_flags[p] /\ p_recvfrom'[p] = p_recvfrom[p]
  BY <1>1, InformedInv
<1>3. TypeOK'
  <2>1. CASE Listening(t, {INTERRUPT, ANY})
    <3>1. /\ mail' = [mail EXCEPT ![t] = INTERRUPT]
          /\ p_msg' = [p_msg EXCEPT ![t] = FALSE]
          /\ has_int_msg' = [has_int_msg EXCEPT ![t] = FALSE]
          /\ p_flags' = [p_flags EXCEPT ![t] = @ \ {RECEIVING}]
          /\ p_recvfrom' = [p_recvfrom EXCEPT ![t] = NO_TASK]
      BY <1>1, <2>1 DEF inform_int
    <3>. QED BY <1>1, <3>1 DEF TypeOK
  <2>2. CASE ~Listening(t, {INTERRUPT, ANY})
    BY <1>1, <2>2 DEF TypeOK, inform_int
  <2>. QED BY <2>1, <2>2
<1>4. NoLostInterrupt'
  <2>1. \A x \in DiskTasks : InCommand(x)' <=> InCommand(x)
    BY <1>1 DEF InCommand
  <2>2. \A x \in DiskTasks : x # t /\ x \in Proc
    BY <1>1
  <2>3. CASE Listening(t, {INTERRUPT, ANY})
    <3>1. \A x \in Proc : has_int_msg'[x] <=> has_int_msg[x] /\ x # t
      BY <1>1, <2>3 DEF inform_int, TypeOK
    <3>. QED BY <1>1, <1>2, <2>1, <2>2, <3>1 DEF NoLostInterrupt
  <2>4. CASE ~Listening(t, {INTERRUPT, ANY})
    <3>1. \A x \in Proc : has_int_msg'[x] <=> has_int_msg[x] \/ x = t
      BY <1>1, <2>4 DEF inform_int, TypeOK
    <3>2. ~Listening(t, {ANY, INTERRUPT})'
      BY <2>4, <1>2 DEF Listening
    <3>. QED BY <1>1, <1>2, <2>1, <2>2, <3>1, <3>2 DEF NoLostInterrupt
  <2>. QED BY <2>3, <2>4
<1>5. InFlight'
  <2> SUFFICES ASSUME cpu.pc \in {"matched", "asserted", "copied"}
               PROVE  /\ p_flags'[cpu.src] = {}
                      /\ ~InCommand(cpu.src)'
                      /\ \/ Listening(cpu.dest, {cpu.src, ANY})'
                         \/ cpu.dest \in TickTasks /\ p_flags'[cpu.dest] = {}
    BY <1>1 DEF InFlight
  <2>1. /\ cpu.src \in Proc /\ cpu.dest \in Proc
        /\ p_flags[cpu.src] = {}
        /\ ~InCommand(cpu.src)
    BY DEF InFlight
  <2>2. p_flags'[cpu.src] = {}
    BY <1>2, <2>1
  <2>3. ~InCommand(cpu.src)'
    BY <1>1, <2>1 DEF InCommand
  <2>4. CASE cpu.dest = t
    <3>1. CASE Listening(t, {INTERRUPT, ANY})
      <4>1. p_flags'[t] = {}
        BY <3>1, <1>2
      <4>. QED BY <2>2, <2>3, <2>4, <4>1, <1>1
    <3>2. CASE ~Listening(t, {INTERRUPT, ANY})
      <4>1. UNCHANGED <<p_flags, p_recvfrom>>
        BY <1>1, <3>2 DEF inform_int
      <4>2. \/ Listening(cpu.dest, {cpu.src, ANY})
            \/ cpu.dest \in TickTasks /\ p_flags[cpu.dest] = {}
        BY DEF InFlight
      <4>. QED BY <2>2, <2>3, <1>1, <4>1, <4>2 DEF Listening
    <3>. QED BY <3>1, <3>2
  <2>5. CASE cpu.dest # t
    <3>1. p_flags'[cpu.dest] = p_flags[cpu.dest] /\ p_recvfrom'[cpu.dest] = p_recvfrom[cpu.dest]
      BY <2>5, <2>1, <1>2
    <3>2. \/ Listening(cpu.dest, {cpu.src, ANY})
          \/ cpu.dest \in TickTasks /\ p_flags[cpu.dest] = {}
      BY DEF InFlight
    <3>3. CASE Listening(cpu.dest, {cpu.src, ANY})
      BY <2>2, <2>3, <3>1, <3>3, <1>1 DEF Listening
    <3>4. CASE cpu.dest \in TickTasks /\ p_flags[cpu.dest] = {}
      BY <2>2, <2>3, <3>1, <3>4
    <3>. QED BY <3>2, <3>3, <3>4
  <2>. QED BY <2>2, <2>3, <2>4, <2>5
<1>. QED BY <1>2, <1>3, <1>4, <1>5

LEMMA StartCommandInv ==
    ASSUME IInv, NEW t \in DiskTasks, StartCommand(t) PROVE IInv'
<1> USE IpcAssumption DEF IInv
<1>1. /\ t \in Proc /\ cpu = User
      /\ p_flags[t] = {}
      /\ device[t] = "idle"
      /\ device' = [device EXCEPT ![t] = "working"]
      /\ UNCHANGED <<p_flags, p_msg, p_recvfrom, p_sendto, has_int_msg, q_sending, mail, cpu>>
  BY DEF StartCommand, Runnable
<1>2. TypeOK'
  BY <1>1 DEF TypeOK
<1>3. (FieldsMatchFlags /\ QueueExact)'
  BY <1>1 DEF FieldsMatchFlags, QueueExact
<1>4. (NoMissedRendezvous /\ NoCircularWait)'
  BY <1>1 DEF NoMissedRendezvous, NoCircularWait, Listening, Sending
<1>5. NoLostInterrupt'
  <2>1. \A x \in DiskTasks : device'[x] = IF x = t THEN "working" ELSE device[x]
    BY <1>1 DEF TypeOK
  <2>2. p_sendto[t] = NO_TASK /\ p_recvfrom[t] = NO_TASK
    BY <1>1, FlagCases
  <2>3. \A x \in Proc : \A S : Listening(x, S)' <=> Listening(x, S)
    BY <1>1 DEF Listening
  <2>. QED BY <1>1, <2>1, <2>2, <2>3 DEF NoLostInterrupt, InCommand
<1>6. InFlight'
  BY <1>1 DEF InFlight, User
<1>. QED BY <1>2, <1>3, <1>4, <1>5, <1>6

-----------------------------------------------------------------------------
(* The theorems *)

LEMMA NextInv == IInv /\ [Next]_vars => IInv'
<1> SUFFICES ASSUME IInv, [Next]_vars PROVE IInv'
  OBVIOUS
<1>1. ASSUME NEW s \in Proc, NEW d \in Proc, Send(s, d) PROVE IInv'
  BY <1>1, SendDeadlockInv, SendMatchInv, SendEnqueueInv DEF Send
<1>2. CASE SendAssert \/ SendCopy \/ SendWake
  BY <1>2, SendAssertInv, SendCopyInv, SendWakeInv
<1>3. ASSUME NEW r \in Proc, NEW src \in Proc \cup {ANY, INTERRUPT}, Receive(r, src)
      PROVE IInv'
  BY <1>3, ReceiveIntInv, ReceiveFromInv, ReceiveBlockInv DEF Receive
<1>4. ASSUME NEW t \in DiskTasks, DiskInterrupt(t) \/ StartCommand(t) PROVE IInv'
  BY <1>4, DiskInterruptInv, StartCommandInv
<1>5. ASSUME NEW t \in TickTasks, TickInterrupt(t) PROVE IInv'
  BY <1>5, TickInterruptInv
<1>6. CASE UNCHANGED vars
  <2> USE <1>6 DEF vars, IInv
  <2>1. TypeOK'
    BY DEF TypeOK
  <2>2. (FieldsMatchFlags /\ QueueExact)'
    BY DEF FieldsMatchFlags, QueueExact
  <2>3. (NoMissedRendezvous /\ NoCircularWait)'
    BY DEF NoMissedRendezvous, NoCircularWait, Listening, Sending
  <2>4. NoLostInterrupt'
    BY DEF NoLostInterrupt, Listening, InCommand
  <2>5. InFlight'
    BY DEF InFlight, Listening, InCommand
  <2>. QED BY <2>1, <2>2, <2>3, <2>4, <2>5
<1>. QED BY <1>1, <1>2, <1>3, <1>4, <1>5, <1>6 DEF Next

\* The inductive invariant holds in every reachable state, for any number of
\* processes, drivers and ticked tasks.
THEOREM Invariance == Spec => []IInv
<1>1. Init => IInv
  BY InitInv
<1>2. IInv /\ [Next]_vars => IInv'
  BY NextInv
<1>. QED BY <1>1, <1>2, PTL DEF Spec

\* Type correctness of the kernel's message passing.
THEOREM TypeCorrect == Spec => []TypeOK
BY Invariance, PTL DEF IInv

\* The queue of every process holds exactly those blocked sending to it, once
\* each, whatever interrupts do in the middle of msg_send.
THEOREM QueuesAreExact == Spec => []QueueExact
BY Invariance, PTL DEF IInv

\* A sender never sleeps on a receiver that sleeps waiting for it.
THEOREM RendezvousNotMissed == Spec => []NoMissedRendezvous
BY Invariance, PTL DEF IInv

\* The check of one chain by deadlock() keeps the whole messaging graph acyclic,
\* for any number of processes.
THEOREM MessagingGraphAcyclic == Spec => []NoCircularWait
BY Invariance, PTL DEF IInv

\* No interrupt is lost: no task sleeps for an interrupt that has come.
THEOREM InterruptsKept == Spec => []NoLostInterrupt
BY Invariance, PTL DEF IInv

-----------------------------------------------------------------------------
(* First come, first served *)

\* Whoever is before a member of q in the queue t was before it in q.
InOrder(q, t) ==
    \A i \in 1 .. Len(q), k \in 1 .. Len(t) :
        q[i] = t[k] => \A l \in 1 .. k - 1 : \E h \in 1 .. i - 1 : q[h] = t[l]

\* A queue that stays keeps its order.
LEMMA SameInOrder == ASSUME NEW q, Distinct(q) PROVE InOrder(q, q)
BY DEF Distinct, InOrder

\* A newcomer is behind all the others.
LEMMA AppendInOrder ==
    ASSUME NEW S, NEW q \in Seq(S), NEW s \in S, Distinct(q), ~In(s, q)
    PROVE  InOrder(q, Append(q, s))
<1>1. /\ Len(Append(q, s)) = Len(q) + 1
      /\ \A i \in 1 .. Len(q) : Append(q, s)[i] = q[i]
      /\ Append(q, s)[Len(q) + 1] = s
      /\ Len(q) \in Nat
  OBVIOUS
<1> SUFFICES ASSUME NEW i \in 1 .. Len(q), NEW k \in 1 .. Len(q) + 1, q[i] = Append(q, s)[k],
                    NEW l \in 1 .. k - 1
             PROVE  \E h \in 1 .. i - 1 : q[h] = Append(q, s)[l]
  BY <1>1 DEF InOrder
<1>2. k # Len(q) + 1
  BY <1>1 DEF In
<1>3. k \in 1 .. Len(q) /\ l \in 1 .. Len(q)
  BY <1>1, <1>2
<1>4. i = k
  BY <1>1, <1>3 DEF Distinct
<1>. QED BY <1>1, <1>3, <1>4

\* Those behind one that is taken out of the middle move up together.
LEMMA UnlinkInOrder ==
    ASSUME NEW S, NEW q \in Seq(S), NEW s \in S, Distinct(q), In(s, q)
    PROVE  InOrder(q, Unlink(q, s))
<1> DEFINE m == CHOOSE i \in 1 .. Len(q) : q[i] = s
           n == Len(q)
           u == [j \in 1 .. n - 1 |-> IF j < m THEN q[j] ELSE q[j + 1]]
           at(j) == IF j < m THEN j ELSE j + 1
<1>1. m \in 1 .. n /\ q[m] = s
  BY DEF In
<1>2. n \in Nat /\ n # 0 /\ q \in [1 .. n -> S]
  BY <1>1
<1>3. Unlink(q, s) = u
  BY DEF Unlink, DropAt
<1> HIDE DEF m
<1>4. u \in Seq(S) /\ Len(u) = n - 1
  <2>1. n - 1 \in Nat
    BY <1>2
  <2>2. \A j \in 1 .. n - 1 : (IF j < m THEN q[j] ELSE q[j + 1]) \in S
    BY <1>1, <1>2
  <2> HIDE DEF n
  <2>3. u \in [1 .. n - 1 -> S]
    BY <2>2
  <2>. QED BY <2>1, <2>3
<1>5. \A j \in 1 .. n - 1 : at(j) \in 1 .. n /\ u[j] = q[at(j)]
  BY <1>1, <1>2
<1>6. \A j \in 1 .. n - 1, l \in 1 .. n - 1 : l < j => at(l) < at(j)
  BY <1>1, <1>2
<1> HIDE DEF u, at, n
<1>7. ASSUME NEW i \in 1 .. n, NEW k \in 1 .. n - 1, q[i] = u[k], NEW l \in 1 .. k - 1
      PROVE  \E h \in 1 .. i - 1 : q[h] = u[l]
  <2>1. at(k) = i
    BY <1>5, <1>7 DEF Distinct, n
  <2>2. l \in 1 .. n - 1 /\ l < k
    BY <1>2
  <2>3. at(l) \in 1 .. n /\ at(l) < i /\ u[l] = q[at(l)]
    BY <1>5, <1>6, <2>1, <2>2
  <2>4. at(l) \in 1 .. i - 1
    BY <1>2, <2>3
  <2>. QED BY <2>3, <2>4
<1>. QED BY <1>3, <1>4, <1>7 DEF InOrder, n

\* NoOvertaking: senders are served in the order in which they came, and a RECEIVE that
\* takes one from the middle of the queue leaves the order of the others.
THEOREM ServedInOrder == Spec => NoOvertaking
<1>1. IInv /\ [Next]_vars => \A d \in Proc : InOrder(q_sending[d], q_sending'[d])
  <2> SUFFICES ASSUME IInv, [Next]_vars, NEW d \in Proc
               PROVE  InOrder(q_sending[d], q_sending'[d])
    OBVIOUS
  <2>1. /\ \A e \in Proc : q_sending[e] \in Seq(Proc) /\ Distinct(q_sending[e])
        /\ \A e, p \in Proc : p_sendto[p] = e <=> In(p, q_sending[e])
        /\ q_sending \in [Proc -> Seq(Proc)]
    BY DEF IInv, TypeOK, QueueExact, Distinct, In
  <2>2. CASE UNCHANGED q_sending
    BY <2>1, <2>2, SameInOrder
  <2>3. ASSUME NEW s \in Proc, NEW e \in Proc, SendEnqueue(s, e)
        PROVE  InOrder(q_sending[d], q_sending'[d])
    <3>1. p_sendto[s] = NO_TASK
      BY <2>3 DEF IInv, FieldsMatchFlags, SendEnqueue, MaySend, Runnable
    <3>2. ~In(s, q_sending[e])
      BY <2>1, <3>1, IpcAssumption
    <3>3. q_sending'[d] = IF d = e THEN Append(q_sending[d], s) ELSE q_sending[d]
      BY <2>1, <2>3 DEF SendEnqueue
    <3>. QED BY <2>1, <3>2, <3>3, AppendInOrder, SameInOrder
  <2>4. ASSUME NEW r \in Proc, NEW src, NEW s \in Proc, ReceiveFrom(r, src, s)
        PROVE  InOrder(q_sending[d], q_sending'[d])
    <3>1. In(s, q_sending[r])
      <4>1. CASE src = ANY
        <5>1. q_sending[r] # <<>> /\ s = Head(q_sending[r])
          BY <2>4, <4>1, IpcAssumption DEF ReceiveFrom, IsSenderFor
        <5>2. s = q_sending[r][1] /\ 1 \in 1 .. Len(q_sending[r])
          BY <2>1, <5>1
        <5>. QED BY <5>2 DEF In
      <4>2. CASE src # ANY
        BY <2>1, <2>4, <4>2 DEF ReceiveFrom, IsSenderFor
      <4>. QED BY <4>1, <4>2
    <3>2. q_sending'[d] = IF d = r THEN Unlink(q_sending[d], s) ELSE q_sending[d]
      BY <2>1, <2>4 DEF ReceiveFrom
    <3>. QED BY <2>1, <3>1, <3>2, UnlinkInOrder, SameInOrder
  <2>. QED
     BY <2>2, <2>3, <2>4
     DEF Next, Send, SendDeadlock, SendMatch, SendAssert, SendCopy, SendWake, Receive,
         ReceiveInt, ReceiveBlock, DiskInterrupt, StartCommand, TickInterrupt, vars
<1>2. IInv /\ [Next]_vars
         => [\A d \in Proc :
               \A i \in 1 .. Len(q_sending[d]), k \in 1 .. Len(q_sending'[d]) :
                   q_sending[d][i] = q_sending'[d][k] =>
                       \A l \in 1 .. k - 1 :
                           \E h \in 1 .. i - 1 : q_sending[d][h] = q_sending'[d][l]]_vars
  BY <1>1 DEF InOrder
<1>. QED BY <1>2, Invariance, PTL DEF Spec, NoOvertaking
-----------------------------------------------------------------------------
(* Refinement: where no task is informed at every tick, msg_send, msg_receive *)
(* and inform_int implement the rendezvous of module Rendezvous.              *)

\* Nothing has been put in the buffer of a process that waits to receive, except
\* the message that msg_send is about to hand over; only drivers have
\* interrupts.
Awaits(p) == RECEIVING \in p_flags[p] /\ ~(cpu.pc = "copied" /\ p = cpu.dest)

BufferEmpty ==
    /\ \A p \in Proc : Awaits(p) => mail[p] = NO_TASK
    /\ \A p \in Proc : has_int_msg[p] => p \in DiskTasks

\* What the copy has put in the receiver's buffer is still there.
Carried == cpu.pc = "copied" => mail[cpu.dest] = cpu.src

\* What makes a step of the kernel a step of Rendezvous.
RInv == IInv /\ BufferEmpty /\ Carried /\ MatchedStillWaiting

LEMMA InitRInv == Init => RInv
<1> SUFFICES ASSUME Init PROVE RInv
  OBVIOUS
<1>1. IInv
  BY InitInv
<1>2. BufferEmpty /\ Carried /\ MatchedStillWaiting
  BY DEF Init, BufferEmpty, Awaits, Carried, MatchedStillWaiting, User
<1>. QED BY <1>1, <1>2 DEF RInv

LEMMA NextRInv ==
    ASSUME TickTasks = {}, RInv, [Next]_vars PROVE RInv'
<1>1. IInv'
  BY NextInv DEF RInv
<1> SUFFICES (BufferEmpty /\ Carried /\ MatchedStillWaiting)'
  BY <1>1 DEF RInv
<1> USE IpcAssumption DEF RInv, IInv
<1>2. ASSUME NEW s \in Proc, NEW d \in Proc, Send(s, d)
      PROVE (BufferEmpty /\ Carried /\ MatchedStillWaiting)'
  <2>1. CASE SendDeadlock(s, d)
    BY <2>1 DEF SendDeadlock, MaySend, Runnable, User, Stopped, BufferEmpty, Awaits, Carried, MatchedStillWaiting
  <2>2. CASE SendMatch(s, d)
    BY <2>2 DEF SendMatch, MaySend, Runnable, User, InSend, BufferEmpty, Awaits, Carried, MatchedStillWaiting
  <2>3. CASE SendEnqueue(s, d)
    BY <2>3 DEF SendEnqueue, MaySend, Runnable, User, BufferEmpty, Awaits, Carried, MatchedStillWaiting,
                SENDING, RECEIVING, TypeOK
  <2>. QED BY <1>2, <2>1, <2>2, <2>3 DEF Send
<1>3. CASE SendAssert
  <2>1. p_msg[cpu.dest]
    BY <1>3, FlagCases DEF SendAssert, InFlight, Listening
  <2>2. /\ cpu' = [cpu EXCEPT !.pc = "asserted"]
        /\ UNCHANGED <<p_flags, has_int_msg, mail>>
    BY <1>3, <2>1 DEF SendAssert
  <2>3. cpu.pc = "matched" /\ cpu'.pc = "asserted"
    BY <1>3, <2>2 DEF SendAssert, TypeOK
  <2>4. \A p \in Proc : Awaits(p)' => Awaits(p)
    BY <2>2, <2>3 DEF Awaits
  <2>. QED BY <2>2, <2>3, <2>4 DEF BufferEmpty, Carried, MatchedStillWaiting
<1>4. CASE SendCopy
  <2>1. cpu.dest' = cpu.dest /\ cpu'.pc = "copied"
    BY <1>4 DEF SendCopy, TypeOK
  <2>2. \A p \in Proc : p # cpu.dest => mail'[p] = mail[p]
    BY <1>4 DEF SendCopy, TypeOK
  <2>3. \A p \in Proc : Awaits(p)' => Awaits(p) /\ p # cpu.dest
    BY <1>4, <2>1 DEF SendCopy, Awaits
  <2>4. UNCHANGED has_int_msg
    BY <1>4 DEF SendCopy
  <2>5. mail'[cpu.dest] = cpu.src /\ cpu'.src = cpu.src
    <3>1. cpu.dest \in Proc /\ p_msg[cpu.dest]
      BY <1>4, FlagCases DEF SendCopy, InFlight, Listening
    <3>. QED BY <1>4, <3>1 DEF SendCopy, TypeOK
  <2>. QED BY <2>1, <2>2, <2>3, <2>4, <2>5 DEF BufferEmpty, Carried, MatchedStillWaiting
<1>5. CASE SendWake
  <2>1. cpu' = User /\ UNCHANGED <<mail, has_int_msg>>
        /\ p_flags' = [p_flags EXCEPT ![cpu.dest] = @ \ {RECEIVING}]
    BY <1>5 DEF SendWake
  <2>2. \A p \in Proc : Awaits(p)' => Awaits(p)
    <3>1. RECEIVING \notin p_flags'[cpu.dest]
      BY <1>5, <2>1 DEF SendWake, InFlight, TypeOK
    <3>. QED BY <2>1, <3>1 DEF Awaits, TypeOK
  <2>. QED BY <2>1, <2>2 DEF BufferEmpty, Carried, MatchedStillWaiting, User
<1>6. ASSUME NEW r \in Proc, NEW src \in Proc \cup {ANY, INTERRUPT}, Receive(r, src)
      PROVE (BufferEmpty /\ Carried /\ MatchedStillWaiting)'
  <2>0. cpu = User /\ p_flags[r] = {} /\ cpu' = User
    BY <1>6 DEF Receive, ReceiveInt, ReceiveFrom, ReceiveBlock, MayReceive, Runnable
  <2>1. CASE ReceiveInt(r, src)
    BY <2>0, <2>1 DEF ReceiveInt, User, BufferEmpty, Awaits, Carried, MatchedStillWaiting, TypeOK
  <2>2. ASSUME NEW s \in Proc, ReceiveFrom(r, src, s)
        PROVE (BufferEmpty /\ Carried /\ MatchedStillWaiting)'
    <3>1. \A p \in Proc : p_flags'[p] \subseteq p_flags[p]
      BY <2>2 DEF ReceiveFrom, TypeOK
    <3>2. \A p \in Proc : p # r => mail'[p] = mail[p]
      BY <2>2 DEF ReceiveFrom, TypeOK
    <3>3. has_int_msg' = has_int_msg
      BY <2>2 DEF ReceiveFrom
    <3>4. \A p \in Proc : Awaits(p)' => Awaits(p) /\ p # r
      BY <2>0, <3>1 DEF Awaits, User
    <3>. QED BY <2>0, <3>2, <3>3, <3>4 DEF User, BufferEmpty, Carried, MatchedStillWaiting
  <2>3. CASE ReceiveBlock(r, src)
    BY <2>0, <2>3 DEF ReceiveBlock, User, BufferEmpty, Awaits, Carried, MatchedStillWaiting, TypeOK
  <2>. QED BY <1>6, <2>1, <2>2, <2>3 DEF Receive
<1>7. ASSUME NEW t \in DiskTasks, DiskInterrupt(t) \/ StartCommand(t)
      PROVE (BufferEmpty /\ Carried /\ MatchedStillWaiting)'
  <2>1. CASE StartCommand(t)
    BY <2>1 DEF StartCommand, BufferEmpty, Awaits, Carried, MatchedStillWaiting
  <2>2. CASE DiskInterrupt(t) /\ Listening(t, {INTERRUPT, ANY})
    <3>1. /\ mail' = [mail EXCEPT ![t] = INTERRUPT]
          /\ p_flags' = [p_flags EXCEPT ![t] = @ \ {RECEIVING}]
          /\ has_int_msg' = [has_int_msg EXCEPT ![t] = FALSE]
          /\ cpu' = cpu
      BY <2>2 DEF DiskInterrupt, inform_int
    <3>2. t \in Proc /\ device[t] = "working" /\ RECEIVING \in p_flags[t]
      BY <2>2 DEF DiskInterrupt, Listening
    <3>3. p_recvfrom[t] = INTERRUPT
      BY <3>2 DEF NoLostInterrupt, InCommand, FieldsMatchFlags
    <3>4. cpu.pc = "copied" => cpu.dest # t
      BY <3>2, <3>3 DEF InFlight, Listening
    <3>5. \A p \in Proc : Awaits(p)' => Awaits(p) /\ p # t
      BY <3>1, <3>2 DEF Awaits, TypeOK
    <3>6. \A p \in Proc : p # t => mail'[p] = mail[p]
      BY <3>1 DEF TypeOK
    <3>7. Carried'
      <4> SUFFICES ASSUME cpu.pc = "copied" PROVE mail'[cpu.dest] = cpu.src
        BY <3>1 DEF Carried
      <4>1. cpu.dest \in Proc
        BY DEF InFlight
      <4>. QED BY <3>4, <3>6, <4>1 DEF Carried
    <3>8. \A p \in Proc : has_int_msg'[p] => has_int_msg[p]
      BY <3>1 DEF TypeOK
    <3>. QED BY <3>1, <3>5, <3>6, <3>7, <3>8 DEF BufferEmpty, MatchedStillWaiting
  <2>3. CASE DiskInterrupt(t) /\ ~Listening(t, {INTERRUPT, ANY})
    BY <2>3 DEF DiskInterrupt, inform_int, BufferEmpty, Awaits, Carried, MatchedStillWaiting, TypeOK
  <2>. QED BY <1>7, <2>1, <2>2, <2>3
<1>8. CASE UNCHANGED vars
  <2>1. \A p \in Proc : Awaits(p)' <=> Awaits(p)
    BY <1>8 DEF vars, Awaits
  <2>. QED BY <1>8, <2>1 DEF vars, BufferEmpty, Carried, MatchedStillWaiting
<1>. QED BY <1>1, <1>2, <1>3, <1>4, <1>5, <1>6, <1>7, <1>8 DEF Next

\* The assertion of msg_send on the buffer of the receiver holds when no task is
\* informed at every tick.
THEOREM AssertionHolds == TickTasks = {} => (Spec => []MatchedStillWaiting)
<1> SUFFICES ASSUME TickTasks = {} PROVE Spec => []MatchedStillWaiting
  OBVIOUS
<1>1. Init => RInv
  BY InitRInv
<1>2. RInv /\ [Next]_vars => RInv'
  BY NextRInv
<1>3. RInv => MatchedStillWaiting
  BY DEF RInv
<1>. QED BY <1>1, <1>2, <1>3, PTL DEF Spec

-----------------------------------------------------------------------------
(* The refinement *)

LEMMA InitRefines == Init => R!Init
BY DEF Init, R!Init, want, delivered, pending, User, Sending, R!Idle

\* Whom a process offers a message to, or waits for, by its flags.
LEMMA Wants ==
    ASSUME RInv, NEW p \in Proc
    PROVE  /\ cpu = User => delivered[p] = mail[p]
           /\ cpu = User /\ p_flags[p] = {} => want[p] = R!Idle
           /\ cpu = User /\ Sending(p) => want[p] = R!Offering(p_sendto[p])
           /\ cpu = User /\ RECEIVING \in p_flags[p] => want[p] = R!Waiting(p_recvfrom[p])
<1>1. ASSUME RECEIVING \in p_flags[p] PROVE ~Sending(p)
  BY <1>1, FlagCases DEF RInv, IInv, Sending, SENDING, RECEIVING
<1>. QED BY <1>1 DEF want, delivered, Sending, User, R!Idle, R!Offering, R!Waiting

\* A step that touches neither flags nor peers, outside msg_send, leaves what
\* everybody wants as it is.
LEMMA WantsKept ==
    ASSUME cpu = User, cpu' = User, UNCHANGED <<p_flags, p_recvfrom, p_sendto>>
    PROVE  want' = want
BY DEF want, User, Sending

LEMMA SendRefines ==
    ASSUME RInv, RInv', NEW s \in Proc, NEW d \in Proc, Send(s, d)
    PROVE  R!Next \/ UNCHANGED R!vars
<1>1. CASE SendDeadlock(s, d)
  <2>1. cpu = User /\ cpu' = Stopped("deadlock")
        /\ UNCHANGED <<p_flags, p_recvfrom, p_sendto, has_int_msg, mail>>
    BY <1>1 DEF SendDeadlock, MaySend, Runnable
  <2>2. want' = want
    BY <2>1 DEF want, User, Stopped, Sending
  <2>3. delivered' = delivered /\ pending' = pending
    BY <2>1 DEF delivered, pending, User, Stopped
  <2>. QED BY <2>2, <2>3 DEF R!vars
<1>2. CASE SendMatch(s, d)
  <2>1. /\ cpu = User /\ cpu' = InSend("matched", s, d)
        /\ p_flags[s] = {} /\ s # d
        /\ UNCHANGED <<p_flags, p_recvfrom, p_sendto, has_int_msg, mail>>
    BY <1>2 DEF SendMatch, MaySend, Runnable
  <2>2. want[s] = R!Idle
    BY <2>1, Wants
  <2>3. want' = [want EXCEPT ![s] = R!Offering(d)]
    BY <2>1 DEF want, User, InSend, Sending, R!Offering
  <2>4. delivered' = delivered /\ pending' = pending
    BY <2>1 DEF delivered, pending, User, InSend
  <2>. QED BY <2>1, <2>2, <2>3, <2>4 DEF R!Next, R!Offer
<1>3. CASE SendEnqueue(s, d)
  <2>1. /\ cpu = User /\ cpu' = User
        /\ p_flags[s] = {} /\ s # d
        /\ p_flags' = [p_flags EXCEPT ![s] = @ \cup {SENDING}]
        /\ p_sendto' = [p_sendto EXCEPT ![s] = d]
        /\ UNCHANGED <<p_recvfrom, has_int_msg, mail>>
    BY <1>3 DEF SendEnqueue, MaySend, Runnable
  <2>2. want[s] = R!Idle
    BY <2>1, Wants
  <2>3. want' = [want EXCEPT ![s] = R!Offering(d)]
    <3>1. \A p \in Proc : p # s => p_flags'[p] = p_flags[p] /\ p_sendto'[p] = p_sendto[p]
      BY <2>1 DEF RInv, IInv, TypeOK
    <3>2. SENDING \in p_flags'[s] /\ p_sendto'[s] = d
      BY <2>1 DEF RInv, IInv, TypeOK
    <3>. QED BY <2>1, <3>1, <3>2 DEF want, User, Sending, R!Offering
  <2>4. delivered' = delivered /\ pending' = pending
    BY <2>1 DEF delivered, pending, User
  <2>. QED BY <2>1, <2>2, <2>3, <2>4 DEF R!Next, R!Offer
<1>. QED BY <1>1, <1>2, <1>3 DEF Send

LEMMA InSendRefines ==
    ASSUME RInv, RInv', SendAssert \/ SendCopy \/ SendWake, TickTasks = {}
    PROVE  R!Next \/ UNCHANGED R!vars
<1> USE IpcAssumption DEF RInv, IInv
<1>0. /\ cpu.pc \in {"matched", "asserted", "copied"}
      /\ cpu.src \in Proc /\ cpu.dest \in Proc /\ cpu.src # cpu.dest
      /\ p_flags[cpu.src] = {}
      /\ RECEIVING \in p_flags[cpu.dest]
      /\ p_recvfrom[cpu.dest] \in {cpu.src, ANY}
  BY DEF SendAssert, SendCopy, SendWake, InFlight, Listening
<1>1. CASE SendAssert
  <2>1. p_msg[cpu.dest]
    BY <1>0, FlagCases
  <2>2. /\ cpu.pc = "matched" /\ cpu' = [cpu EXCEPT !.pc = "asserted"]
        /\ UNCHANGED <<p_flags, p_recvfrom, p_sendto, has_int_msg, mail>>
    BY <1>1, <2>1 DEF SendAssert
  <2>3. cpu'.pc = "asserted" /\ cpu'.src = cpu.src /\ cpu'.dest = cpu.dest
    BY <2>2 DEF TypeOK
  <2>. QED BY <2>2, <2>3 DEF R!vars, want, delivered, pending, Sending
<1>2. CASE SendCopy
  <2>1. /\ cpu.pc = "asserted" /\ cpu' = [cpu EXCEPT !.pc = "copied"]
        /\ UNCHANGED <<p_flags, p_recvfrom, p_sendto, has_int_msg>>
        /\ \A p \in Proc : p # cpu.dest => mail'[p] = mail[p]
    BY <1>2 DEF SendCopy, TypeOK
  <2>2. cpu'.pc = "copied" /\ cpu'.src = cpu.src /\ cpu'.dest = cpu.dest
    BY <2>1 DEF TypeOK
  <2>3. mail[cpu.dest] = NO_TASK
    BY <1>0, <2>1 DEF BufferEmpty, Awaits
  <2>4. delivered' = delivered
    BY <2>1, <2>2, <2>3 DEF delivered
  <2>. QED BY <2>1, <2>2, <2>4 DEF R!vars, want, pending, Sending
<1>3. CASE SendWake
  <2>1. /\ cpu.pc = "copied" /\ cpu' = User
        /\ p_flags' = [p_flags EXCEPT ![cpu.dest] = @ \ {RECEIVING}]
        /\ p_recvfrom' = [p_recvfrom EXCEPT ![cpu.dest] = NO_TASK]
        /\ UNCHANGED <<p_sendto, has_int_msg, mail>>
    BY <1>3 DEF SendWake
  <2>2. p_flags[cpu.dest] = {RECEIVING}
    BY <1>0, FlagCases DEF SENDING, RECEIVING
  <2>3. /\ p_flags'[cpu.dest] = {}
        /\ \A p \in Proc : p # cpu.dest =>
              p_flags'[p] = p_flags[p] /\ p_recvfrom'[p] = p_recvfrom[p]
    BY <2>1, <2>2 DEF TypeOK
  <2>4. want[cpu.src] = R!Offering(cpu.dest)
    BY <1>0 DEF want, R!Offering
  <2>5. want[cpu.dest] \in {R!Waiting(cpu.src), R!Waiting(ANY)}
    BY <1>0, <2>2 DEF want, Sending, SENDING, RECEIVING, R!Waiting
  <2>6. want' = [want EXCEPT ![cpu.src] = R!Idle, ![cpu.dest] = R!Idle]
    <3>1. ASSUME NEW p \in Proc
          PROVE want'[p] = IF p \in {cpu.src, cpu.dest} THEN R!Idle ELSE want[p]
      BY <1>0, <2>1, <2>3 DEF want, Sending, User, R!Idle
    <3>2. want' = [p \in Proc |-> want'[p]] /\ want = [p \in Proc |-> want[p]]
      BY DEF want
    <3>. QED BY <1>0, <3>1, <3>2
  <2>7. mail[cpu.dest] = cpu.src
    BY <2>1 DEF Carried
  <2>8. delivered' = [delivered EXCEPT ![cpu.dest] = cpu.src]
    BY <1>0, <2>1, <2>7 DEF delivered, User
  <2>9. pending' = pending
    BY <2>1 DEF pending
  <2>. QED BY <1>0, <2>4, <2>5, <2>6, <2>8, <2>9 DEF R!Next, R!Deliver
<1>. QED BY <1>1, <1>2, <1>3

LEMMA ReceiveRefines ==
    ASSUME RInv, RInv', TickTasks = {},
           NEW r \in Proc, NEW src \in Proc \cup {ANY, INTERRUPT}, Receive(r, src)
    PROVE  R!Next \/ UNCHANGED R!vars
<1> USE IpcAssumption DEF RInv, IInv
<1>0. cpu = User /\ cpu' = User /\ p_flags[r] = {} /\ r # src
  BY DEF Receive, ReceiveInt, ReceiveFrom, ReceiveBlock, MayReceive, Runnable
<1>1. want[r] = R!Idle
  BY <1>0, Wants
<1>2. \A p \in Proc : delivered[p] = mail[p] /\ delivered'[p] = mail'[p]
  BY <1>0 DEF delivered, User
<1>3. CASE ReceiveInt(r, src)
  <2>1. /\ has_int_msg[r]
        /\ mail' = [mail EXCEPT ![r] = INTERRUPT]
        /\ has_int_msg' = [has_int_msg EXCEPT ![r] = FALSE]
        /\ UNCHANGED <<p_flags, p_recvfrom, p_sendto>>
    BY <1>3 DEF ReceiveInt
  <2>2. want' = want
    BY <1>0, <2>1, WantsKept
  <2>3. delivered' = [delivered EXCEPT ![r] = INTERRUPT]
    BY <1>0, <2>1 DEF delivered, User, TypeOK
  <2>4. pending' = pending \ {r} /\ r \in pending
    BY <2>1 DEF pending, TypeOK
  <2>5. r \in DiskTasks
    BY <2>1 DEF BufferEmpty
  <2>. QED BY <1>1, <2>2, <2>3, <2>4, <2>5 DEF R!Next, R!Collect
<1>4. ASSUME NEW s \in Proc, ReceiveFrom(r, src, s) PROVE R!Next
  <2>1. /\ mail' = [mail EXCEPT ![r] = s]
        /\ p_sendto' = [p_sendto EXCEPT ![s] = NO_TASK]
        /\ p_flags' = [p_flags EXCEPT ![s] = @ \ {SENDING}]
        /\ UNCHANGED <<p_recvfrom, has_int_msg>>
    BY <1>4 DEF ReceiveFrom
  <2>2. Sending(s) /\ p_sendto[s] = r
    <3>1. p_sendto[s] = r
      <4>1. CASE src = ANY
        <5>1. q_sending[r] \in Seq(Proc) /\ q_sending[r] # <<>> /\ s = Head(q_sending[r])
          BY <1>4, <4>1 DEF ReceiveFrom, IsSenderFor, TypeOK
        <5>2. 1 \in 1 .. Len(q_sending[r]) /\ q_sending[r][1] = s
          BY <5>1
        <5>. QED BY <5>2 DEF QueueExact
      <4>2. CASE src # ANY
        BY <1>4, <4>2 DEF ReceiveFrom, IsSenderFor
      <4>. QED BY <4>1, <4>2
    <3>. QED BY <3>1 DEF FieldsMatchFlags, Sending
  <2>3. want[s] = R!Offering(r)
    BY <1>0, <2>2, Wants
  <2>4. p_flags'[s] = {} /\ s # r
    <3>1. p_flags[s] = {SENDING}
      BY <2>2, FlagCases DEF Sending, SENDING, RECEIVING
    <3>2. p_flags'[s] = p_flags[s] \ {SENDING}
      BY <2>1 DEF TypeOK
    <3>3. p_flags[s] # p_flags[r]
      BY <1>0, <3>1
    <3>. QED BY <3>1, <3>2, <3>3
  <2>5. \A p \in Proc : p # s => p_flags'[p] = p_flags[p] /\ p_sendto'[p] = p_sendto[p]
    BY <2>1 DEF TypeOK
  <2>6. want' = [want EXCEPT ![s] = R!Idle, ![r] = R!Idle]
    <3>1. ASSUME NEW p \in Proc
          PROVE want'[p] = IF p \in {s, r} THEN R!Idle ELSE want[p]
      BY <1>0, <1>1, <2>1, <2>4, <2>5 DEF want, Sending, User, R!Idle
    <3>2. want' = [p \in Proc |-> want'[p]] /\ want = [p \in Proc |-> want[p]]
      BY DEF want
    <3>. QED BY <3>1, <3>2
  <2>7. delivered' = [delivered EXCEPT ![r] = s]
    BY <1>0, <2>1 DEF delivered, User, TypeOK
  <2>8. pending' = pending
    BY <2>1 DEF pending
  <2>. QED BY <1>1, <2>3, <2>4, <2>6, <2>7, <2>8 DEF R!Next, R!Deliver
<1>5. CASE ReceiveBlock(r, src)
  <2>1. /\ p_flags' = [p_flags EXCEPT ![r] = @ \cup {RECEIVING}]
        /\ p_recvfrom' = [p_recvfrom EXCEPT ![r] = src]
        /\ mail' = [mail EXCEPT ![r] = NO_TASK]
        /\ UNCHANGED <<p_sendto, has_int_msg>>
    BY <1>5 DEF ReceiveBlock
  <2>2. /\ p_flags'[r] = {RECEIVING} /\ p_recvfrom'[r] = src
        /\ \A p \in Proc : p # r => p_flags'[p] = p_flags[p] /\ p_recvfrom'[p] = p_recvfrom[p]
    BY <1>0, <2>1 DEF TypeOK
  <2>3. want' = [want EXCEPT ![r] = R!Waiting(src)]
    <3>1. ASSUME NEW p \in Proc
          PROVE want'[p] = IF p = r THEN R!Waiting(src) ELSE want[p]
      BY <1>0, <2>1, <2>2 DEF want, Sending, User, R!Waiting, SENDING, RECEIVING
    <3>2. want' = [p \in Proc |-> want'[p]] /\ want = [p \in Proc |-> want[p]]
      BY DEF want
    <3>. QED BY <3>1, <3>2
  <2>4. delivered' = [delivered EXCEPT ![r] = NO_TASK]
    BY <1>0, <2>1 DEF delivered, User, TypeOK
  <2>5. pending' = pending
    BY <2>1 DEF pending
  <2>. QED BY <1>1, <2>3, <2>4, <2>5 DEF R!Next, R!Listen
<1>. QED BY <1>3, <1>4, <1>5 DEF Receive

LEMMA InterruptRefines ==
    ASSUME RInv, RInv', NEW t \in DiskTasks, DiskInterrupt(t) \/ StartCommand(t)
    PROVE  R!Next \/ UNCHANGED R!vars
<1> USE IpcAssumption DEF RInv, IInv
<1>1. CASE StartCommand(t)
  <2>1. /\ cpu = User /\ cpu' = User
        /\ UNCHANGED <<p_flags, p_recvfrom, p_sendto, has_int_msg, mail>>
    BY <1>1 DEF StartCommand, Runnable
  <2>2. want' = want
    BY <2>1, WantsKept
  <2>. QED BY <2>1, <2>2 DEF R!vars, delivered, pending
<1>2. CASE DiskInterrupt(t)
  <2>1. /\ t \in Proc /\ device[t] = "working"
        /\ InCommand(t)
        /\ UNCHANGED <<p_sendto, cpu>>
    BY <1>2 DEF DiskInterrupt, InCommand
  <2>2. cpu.pc \in {"matched", "asserted", "copied"} => cpu.src # t /\ cpu.dest # t
    <3>1. p_recvfrom[t] \in {NO_TASK, INTERRUPT}
      BY <2>1 DEF NoLostInterrupt
    <3>. QED BY <2>1, <3>1 DEF InFlight, Listening
  <2>3. CASE Listening(t, {INTERRUPT, ANY})
    <3>1. /\ mail' = [mail EXCEPT ![t] = INTERRUPT]
          /\ has_int_msg' = [has_int_msg EXCEPT ![t] = FALSE]
          /\ p_flags' = [p_flags EXCEPT ![t] = @ \ {RECEIVING}]
          /\ p_recvfrom' = [p_recvfrom EXCEPT ![t] = NO_TASK]
      BY <1>2, <2>3 DEF DiskInterrupt, inform_int
    <3>2. p_flags[t] = {RECEIVING} /\ p_recvfrom[t] \in {INTERRUPT, ANY}
      BY <2>1, <2>3, FlagCases DEF Listening, SENDING, RECEIVING
    <3>3. want[t] \in {R!Waiting(INTERRUPT), R!Waiting(ANY)}
      BY <2>1, <2>2, <3>2 DEF want, Sending, SENDING, RECEIVING, R!Waiting
    <3>4. /\ p_flags'[t] = {}
          /\ \A p \in Proc : p # t => p_flags'[p] = p_flags[p] /\ p_recvfrom'[p] = p_recvfrom[p]
      BY <2>1, <3>1, <3>2 DEF TypeOK
    <3>5. want' = [want EXCEPT ![t] = R!Idle]
      <4>1. ASSUME NEW p \in Proc
            PROVE want'[p] = IF p = t THEN R!Idle ELSE want[p]
        BY <2>1, <2>2, <3>4 DEF want, Sending, R!Idle
      <4>2. want' = [p \in Proc |-> want'[p]] /\ want = [p \in Proc |-> want[p]]
        BY DEF want
      <4>. QED BY <4>1, <4>2
    <3>6. delivered' = [delivered EXCEPT ![t] = INTERRUPT]
      BY <2>1, <2>2, <3>1 DEF delivered, TypeOK
    <3>7. pending' = pending
      BY <2>1, <3>1 DEF pending, TypeOK, NoLostInterrupt
    <3>. QED BY <3>3, <3>5, <3>6, <3>7 DEF R!Next, R!Raise
  <2>4. CASE ~Listening(t, {INTERRUPT, ANY})
    <3>1. /\ has_int_msg' = [has_int_msg EXCEPT ![t] = TRUE]
          /\ UNCHANGED <<p_flags, p_recvfrom, mail>>
      BY <1>2, <2>4 DEF DiskInterrupt, inform_int
    <3>2. want[t] \notin {R!Waiting(INTERRUPT), R!Waiting(ANY)}
      BY <2>1, <2>2, <2>4 DEF want, Listening, R!Waiting
    <3>3. want' = want /\ delivered' = delivered
      BY <2>1, <3>1 DEF want, delivered, Sending
    <3>4. pending' = pending \cup {t}
      BY <2>1, <3>1 DEF pending, TypeOK
    <3>. QED BY <3>2, <3>3, <3>4 DEF R!Next, R!Raise
  <2>. QED BY <2>3, <2>4
<1>. QED BY <1>1, <1>2

\* The kernel's message passing implements rendezvous: a SEND returns exactly
\* when its message is in the buffer of the process it names, which asked for
\* it, and no interrupt is lost, provided no task is informed at every tick.
THEOREM Refinement == TickTasks = {} => (Spec => ImplementsRendezvous)
<1> SUFFICES ASSUME TickTasks = {} PROVE Spec => ImplementsRendezvous
  OBVIOUS
<1>1. Init => RInv /\ R!Init
  BY InitRInv, InitRefines
<1>2. RInv /\ [Next]_vars => RInv'
  BY NextRInv
<1>3. RInv /\ RInv' /\ [Next]_vars => [R!Next]_R!vars
  <2> SUFFICES ASSUME RInv, RInv', [Next]_vars
               PROVE  R!Next \/ UNCHANGED R!vars
    OBVIOUS
  <2>1. CASE UNCHANGED vars
    BY <2>1 DEF vars, R!vars, want, delivered, pending, Sending
  <2>. QED BY <2>1, SendRefines, InSendRefines, ReceiveRefines, InterruptRefines
           DEF Next
<1>. QED BY <1>1, <1>2, <1>3, PTL DEF Spec, ImplementsRendezvous, R!Spec
=============================================================================
