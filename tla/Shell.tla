------------------------------- MODULE Shell --------------------------------
(***************************************************************************)
(* What runs above the servers: Init(), which unpacks cmd.tar and starts   *)
(* a shell on each terminal, and shabby_shell(), which splits a line into  *)
(* commands and runs them one by one (kernel/main.c), with the programs    *)
(* rm and touch (command/).  All of them work on one directory, and the    *)
(* power may fail at any moment; the disk keeps what was written.          *)
(*                                                                         *)
(* fork, wait and exit are atomic here (module Mm), and so is a call of    *)
(* the file system (module Fs).  A process whose exec fails is still a     *)
(* copy of its shell, and goes on as one.                                  *)
(*                                                                         *)
(* Left out: the debugging output, the checksums (STATIC_CHECK is 0), kill,*)
(* and lines with eight or more ampersands, which cmd_list has no room for.*)
(***************************************************************************)
EXTENDS Naturals, Sequences, SequencesExt, FiniteSetsExt

CONSTANTS Slot,             \* the slots of proc_table that fork gives out
          Terminals,        \* tty_list, in order
          Archive,          \* the files of cmd.tar, in order; a name is a word
          Chunks,           \* in how many pieces untar copies a file
          Chars,            \* the characters of words
          BLANK, AMPERSAND, \* two more characters
          LinesOf,          \* LinesOf[t]: what a user types at terminal t
          RM, TOUCH,        \* the names of these two programs
          MaxCrashes        \* bound: power failures

ASSUME TerminalsAreListed == Terminals \in Seq(ToSet(Terminals))

ASSUME ShellAssumption ==
    /\ Slot \subseteq Nat /\ Len(Terminals) <= Cardinality(Slot)
    /\ \A i, j \in 1 .. Len(Terminals) : Terminals[i] = Terminals[j] => i = j
    /\ {BLANK, AMPERSAND} \cap Chars = {} /\ BLANK # AMPERSAND
    /\ Archive \in Seq(Seq(Chars)) /\ Chunks \in Nat /\ MaxCrashes \in Nat
    /\ LinesOf \in [ToSet(Terminals) -> SUBSET Seq(Chars \cup {BLANK, AMPERSAND})]

VARIABLES content,      \* content[f]: how many pieces of file f are on the disk
          unpacked,     \* is the first byte of cmd.tar cleared?
          boot,         \* where Init() is
          proc,         \* proc[p]: where process p is, on which terminal, with what to do
          crashes

vars == <<content, unpacked, boot, proc, crashes>>

\* A file that is not in the domain of content does not exist.
Exists(f) == f \in DOMAIN content

Unused  == [at |-> "free", tty |-> "none", line |-> <<>>, cmds |-> <<>>, child |-> 0]
Booting == [at |-> "untar", i |-> 1, piece |-> 0]

Init ==
    /\ content = [f \in {} |-> 0]
    /\ unpacked = FALSE
    /\ boot = Booting
    /\ proc = [p \in Slot |-> Unused]
    /\ crashes = 0
-----------------------------------------------------------------------------
\* untar() opens the next file of the archive, with O_CREAT, O_RDWR and O_TRUNC, ...
UntarOpen ==
    /\ boot.at = "untar" /\ boot.i <= Len(Archive) /\ ~(boot.i = 1 /\ unpacked)
    /\ content' = [f \in DOMAIN content \cup {Archive[boot.i]} |->
                       IF f = Archive[boot.i] THEN 0 ELSE content[f]]
    /\ boot' = [boot EXCEPT !.at = "copy", !.piece = 0]
    /\ UNCHANGED <<unpacked, proc, crashes>>

\* A faulty variant: the last piece of a file is left out.
CopiesAllButOne(k) == k + 1 < Chunks

Copies(k) == k < Chunks

\* ... copies it piece by piece, ...
UntarCopy ==
    /\ boot.at = "copy"
    /\ IF Copies(boot.piece)
       THEN /\ content' = [content EXCEPT ![Archive[boot.i]] = boot.piece + 1]
            /\ boot' = [boot EXCEPT !.piece = @ + 1]
       ELSE /\ boot' = [boot EXCEPT !.at = "untar", !.i = @ + 1]
            /\ UNCHANGED content
    /\ UNCHANGED <<unpacked, proc, crashes>>

\* ... and at the end marks the archive as empty, for the next start of the system.
UntarEnd ==
    /\ boot.at = "untar" /\ (boot.i > Len(Archive) \/ (boot.i = 1 /\ unpacked))
    /\ unpacked' = TRUE
    /\ boot' = [boot EXCEPT !.at = "fork", !.i = 1]
    /\ UNCHANGED <<content, proc, crashes>>

Free == {p \in Slot : proc[p].at = "free"}

\* Init() forks a shell for the next terminal, or, if the commands of the shells that
\* run already have all the slots, spins in the assertion of fork().
StartShell ==
    /\ boot.at = "fork" /\ boot.i <= Len(Terminals)
    /\ IF Free # {}
       THEN /\ proc' = [proc EXCEPT ![Min(Free)] =
                            [Unused EXCEPT !.at = "prompt", !.tty = Terminals[boot.i]]]
            /\ boot' = [boot EXCEPT !.i = @ + 1]
       ELSE boot' = [boot EXCEPT !.at = "spin"] /\ UNCHANGED proc
    /\ UNCHANGED <<content, unpacked, crashes>>
-----------------------------------------------------------------------------
\* The parser of shabby_shell: one pass over the line, which overwrites the character
\* behind a word with 0 before it looks for an ampersand there.

NoParse == [word |-> FALSE, s |-> 0, cmds |-> <<<<>>>>]

\* s is an argument of the last command.
AddArg(a, s) == [a EXCEPT !.word = FALSE, !.cmds[Len(a.cmds)] = Append(@, s)]

\* A faulty variant: a new command starts with the arguments of the last one.
NewCommandKeepsArgs(a) == [a EXCEPT !.cmds = Append(@, Last(@))]

NewCommand(a) == [a EXCEPT !.cmds = Append(@, <<>>)]

\* The loop body for the character at j.
ParseChar(line, a, j) ==
    LET c      == line[j]
        begun  == IF c \in Chars /\ ~a.word THEN [a EXCEPT !.word = TRUE, !.s = j] ELSE a
        ended  == c \notin Chars /\ begun.word
        added  == IF ended THEN AddArg(begun, SubSeq(line, begun.s, j - 1)) ELSE begun
        parted == IF c = AMPERSAND /\ ~ended THEN NewCommand(added) ELSE added
    IN  IF j = Len(line) /\ parted.word
        THEN AddArg(parted, SubSeq(line, parted.s, j))
        ELSE parted

Parsed(line) ==
    LET upto[j \in 0 .. Len(line)] ==
          IF j = 0 THEN NoParse ELSE ParseChar(line, upto[j - 1], j)
    IN  upto[Len(line)].cmds

\* shabby_shell reads a line and parses it.
ReadLine(p) ==
    /\ proc[p].at = "prompt"
    /\ \E line \in LinesOf[proc[p].tty] :
          proc' = [proc EXCEPT ![p].at = "commands", ![p].line = line, ![p].cmds = Parsed(line)]
    /\ UNCHANGED <<content, unpacked, boot, crashes>>

\* The loop over the commands has ended.
AllDone(p) ==
    /\ proc[p].at = "commands" /\ proc[p].cmds = <<>>
    /\ proc' = [proc EXCEPT ![p].at = "prompt", ![p].line = <<>>]
    /\ UNCHANGED <<content, unpacked, boot, crashes>>

\* A faulty variant: a command that is not found is tried again.
SkippedAgain(p) == IF Head(proc[p].cmds) = <<>> THEN Tail(proc[p].cmds) ELSE proc[p].cmds

Skipped(p) == Tail(proc[p].cmds)

Runs(p) == Head(proc[p].cmds) # <<>> /\ Exists(Head(proc[p].cmds)[1])

\* An empty command, or one that open() does not find.
SkipCommand(p) ==
    /\ proc[p].at = "commands" /\ proc[p].cmds # <<>> /\ ~Runs(p)
    /\ proc' = [proc EXCEPT ![p].cmds = Skipped(p), ![p].line = <<>>]
    /\ UNCHANGED <<content, unpacked, boot, crashes>>

\* A faulty variant: the parent prompts while the child runs.
AfterForkPrompts(p, c) == [proc[p] EXCEPT !.at = "prompt", !.line = <<>>, !.cmds = <<>>]

AfterFork(p, c) ==
    [proc[p] EXCEPT !.at = "wait", !.line = <<>>, !.cmds = Tail(@), !.child = c]

\* fork() and, in the parent, wait().
RunCommand(p) ==
    /\ proc[p].at = "commands" /\ proc[p].cmds # <<>> /\ Runs(p) /\ Free # {}
    /\ proc' = [proc EXCEPT ![p] = AfterFork(p, Min(Free)),
                            ![Min(Free)] = [proc[p] EXCEPT !.at = "exec", !.line = <<>>]]
    /\ UNCHANGED <<content, unpacked, boot, crashes>>

\* fork() fails its assertion that there was a free slot.
ForkSpins(p) ==
    /\ proc[p].at = "commands" /\ proc[p].cmds # <<>> /\ Runs(p) /\ Free = {}
    /\ proc' = [proc EXCEPT ![p].at = "spin", ![p].line = <<>>, ![p].cmds = <<>>]
    /\ UNCHANGED <<content, unpacked, boot, crashes>>

\* execv() in the child; if the file is gone by now it goes on with the next command.
Exec(p) ==
    /\ proc[p].at = "exec"
    /\ proc' = IF Runs(p)
               THEN [proc EXCEPT ![p].at = "program", ![p].cmds = <<Head(@)>>]
               ELSE [proc EXCEPT ![p].at = "commands", ![p].cmds = Tail(@)]
    /\ UNCHANGED <<content, unpacked, boot, crashes>>

\* The arguments of rm and touch up to the first that fails.
Arguments(argv) == ToSet(Tail(argv))

\* A program runs and exits.
RunProgram(p) ==
    LET argv == proc[p].cmds[1]
    IN  /\ proc[p].at = "program"
        /\ proc' = [proc EXCEPT ![p].at = "zombie"]
        /\ content' =
              IF argv[1] = RM
              THEN [f \in DOMAIN content \ Arguments(argv) |-> content[f]]
              ELSE IF argv[1] = TOUCH
              THEN [f \in DOMAIN content \cup Arguments(argv) |->
                       IF Exists(f) THEN content[f] ELSE 0]
              ELSE content
        /\ UNCHANGED <<unpacked, boot, crashes>>

\* wait() returns.
WaitReturns(p) ==
    /\ proc[p].at = "wait" /\ proc[proc[p].child].at = "zombie"
    /\ proc' = [proc EXCEPT ![p].at = "commands", ![p].child = 0, ![proc[p].child] = Unused]
    /\ UNCHANGED <<content, unpacked, boot, crashes>>

\* The power fails and the system starts again.
Crash ==
    /\ crashes < MaxCrashes
    /\ crashes' = crashes + 1
    /\ boot' = Booting
    /\ proc' = [p \in Slot |-> Unused]
    /\ UNCHANGED <<content, unpacked>>

Boot   == UntarOpen \/ UntarCopy \/ UntarEnd \/ StartShell
Run(p) == AllDone(p) \/ SkipCommand(p) \/ RunCommand(p) \/ ForkSpins(p) \/ Exec(p)
          \/ RunProgram(p) \/ WaitReturns(p)

Next == Boot \/ (\E p \in Slot : ReadLine(p) \/ Run(p)) \/ Crash

Spec == Init /\ [][Next]_vars

\* Programs end, and the processes get the processor; no user is bound to type.
FairSpec == Spec /\ WF_vars(Boot) /\ \A p \in Slot : WF_vars(Run(p))
-----------------------------------------------------------------------------
\* What a line means: commands parted by ampersands, of words parted by blanks.
Ampersands(line, j) == Cardinality({i \in 1 .. j : line[i] = AMPERSAND})

WordStarts(line, k) ==
    {j \in 1 .. Len(line) :
        /\ line[j] \in Chars /\ (j = 1 \/ line[j - 1] \notin Chars)
        /\ Ampersands(line, j) = k}

WordAt(line, j) ==
    SubSeq(line, j, Max({e \in j .. Len(line) : \A i \in j .. e : line[i] \in Chars}))

\* The arguments of cmd are the words that start at these places, in their order.
Lists(cmd, line, starts) ==
    \E at \in [1 .. Len(cmd) -> starts] :
        /\ \A m, n \in 1 .. Len(cmd) : m < n => at[m] < at[n]
        /\ \A j \in starts : \E n \in 1 .. Len(cmd) : at[n] = j
        /\ \A n \in 1 .. Len(cmd) : cmd[n] = WordAt(line, at[n])

Means(line, cmds) ==
    /\ Len(cmds) = Ampersands(line, Len(line)) + 1
    /\ \A k \in 1 .. Len(cmds) : Lists(cmds[k], line, WordStarts(line, k - 1))

\* Is there a blank, or nothing, before every ampersand that follows a word?
Spaced(line) ==
    \A j \in 2 .. Len(line) : line[j] = AMPERSAND => line[j - 1] \notin Chars

\* The commands a shell starts on are those of the line, argument by argument, as long
\* as no ampersand follows a word immediately.
SpacedLinesUnderstood ==
    \A p \in Slot :
        proc[p].line # <<>> /\ Spaced(proc[p].line) => Means(proc[p].line, proc[p].cmds)

\* At most one process of a terminal does not wait for another one of it, so that no
\* two ever read the terminal at once: also when the file of a command is removed
\* between the shell's open() and the child's execv(), and the child is a shell.
OneActive ==
    \A t \in ToSet(Terminals) :
        Cardinality({p \in Slot : /\ proc[p].tty = t
                                  /\ proc[p].at \notin {"free", "wait", "zombie"}}) <= 1

\* cmd.tar is marked as unpacked only when every file of it is on the disk to its end,
\* however often the power failed before.
ExtractedWhole ==
    [][unpacked' # unpacked => \A i \in 1 .. Len(Archive) :
          Exists(Archive[i]) /\ content[Archive[i]] = Chunks]_vars

\* After a line its terminal is read again, by the shell or by a child that has become
\* one, unless a fork found the process table full or the power failed.
TerminalAnswers ==
    \A t \in ToSet(Terminals) :
        (\E p \in Slot : proc[p].tty = t /\ proc[p].at = "commands") ~>
            \/ \E p \in Slot : proc[p].tty = t /\ proc[p].at \in {"prompt", "spin"}
            \/ boot.at \notin {"fork", "spin"}
=============================================================================
