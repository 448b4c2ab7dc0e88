----------------------------- MODULE ShellProofs -----------------------------
(***************************************************************************)
(* cmd.tar is marked as unpacked only when it is, no two processes of a    *)
(* terminal run at once, and a line is understood as it is meant, for      *)
(* every archive, every set of terminals, every line and every number of   *)
(* power failures.                                                         *)
(***************************************************************************)
EXTENDS Shell, FiniteSetTheorems, SequenceTheorems, WellFoundedInduction, TLAPS

-----------------------------------------------------------------------------
(* The parser as a loop *)

LEMMA LeastNumber ==
    ASSUME NEW T, T \subseteq Nat, T # {}
    PROVE  \E x \in T : \A y \in T : x <= y
<1> DEFINE R == {ss \in Nat \X Nat : ss[1] < ss[2]}
<1>1. IsWellFoundedOn(R, Nat)
  BY NatLessThanWellFounded DEF OpToRel
<1>2. \A x, y \in Nat : <<y, x>> \in R <=> y < x
  OBVIOUS
<1>. HIDE DEF R
<1>3. PICK x \in T : \A y \in T : ~(<<y, x>> \in R)
  BY <1>1, WFMin
<1>4. ASSUME NEW y \in T PROVE x <= y
  <2>1. x \in Nat /\ y \in Nat
    OBVIOUS
  <2>2. ~(y < x)
    BY <1>2, <1>3, <2>1
  <2>. QED BY <2>1, <2>2
<1>. QED BY <1>4

\* The states of the parser after each of the first m characters.
ParserRun(h, line, m) ==
    h = [j \in 0 .. m |-> IF j = 0 THEN NoParse ELSE ParseChar(line, h[j - 1], j)]

\* The loop comes to the end of every line.
LEMMA ParserRuns ==
    ASSUME NEW line, NEW n \in Nat
    PROVE  \E h : ParserRun(h, line, n)
<1> DEFINE Bad == {m \in Nat : ~\E h : ParserRun(h, line, m)}
<1>1. SUFFICES ASSUME Bad # {} PROVE FALSE
  OBVIOUS
<1>2. PICK m \in Bad : \A k \in Bad : m <= k
  <2>1. Bad \subseteq Nat
    OBVIOUS
  <2>. HIDE DEF Bad
  <2>. QED BY <1>1, <2>1, LeastNumber
<1>3. m \in Nat /\ \A h : ~ParserRun(h, line, m)
  OBVIOUS
<1>4. m # 0
  <2>1. ASSUME m = 0 PROVE FALSE
    <3> DEFINE h == [j \in 0 .. 0 |-> NoParse]
    <3>1. h = [j \in 0 .. m |-> IF j = 0 THEN NoParse ELSE ParseChar(line, h[j - 1], j)]
      BY <2>1
    <3>2. ParserRun(h, line, m)
      BY <3>1 DEF ParserRun
    <3>. QED BY <1>3, <3>2
  <2>. QED BY <2>1
<1>5. m - 1 \in Nat /\ m - 1 \notin Bad
  <2>1. m - 1 \in Nat /\ ~(m <= m - 1)
    BY <1>3, <1>4
  <2>. QED BY <1>2, <2>1
<1>6. PICK h : ParserRun(h, line, m - 1)
  BY <1>5
<1>7. \A j \in 0 .. m - 1 : h[j] = IF j = 0 THEN NoParse ELSE ParseChar(line, h[j - 1], j)
  BY <1>6 DEF ParserRun
<1> DEFINE last == ParseChar(line, h[m - 1], m)
           g == [j \in 0 .. m |-> IF j = m THEN last ELSE h[j]]
<1>. HIDE DEF last
<1>8. ASSUME NEW j \in 0 .. m
      PROVE  g[j] = IF j = 0 THEN NoParse ELSE ParseChar(line, g[j - 1], j)
  <2>1. CASE j = 0
    BY <1>4, <1>5, <1>7, <2>1
  <2>2. CASE j # 0 /\ j # m
    <3>1. j \in 0 .. m - 1 /\ j - 1 \in 0 .. m /\ j - 1 # m
      BY <1>3, <2>2
    <3>2. g[j] = h[j] /\ g[j - 1] = h[j - 1]
      BY <2>2, <3>1
    <3>. QED BY <1>7, <2>2, <3>1, <3>2
  <2>3. CASE j = m
    <3>1. m - 1 \in 0 .. m /\ m - 1 # m
      BY <1>3, <1>4
    <3>2. g[m] = last /\ g[m - 1] = h[m - 1]
      BY <1>3, <3>1
    <3>. QED BY <1>4, <2>3, <3>2 DEF last
  <2>. QED BY <2>1, <2>2, <2>3
<1>9. g = [j \in 0 .. m |-> IF j = 0 THEN NoParse ELSE ParseChar(line, g[j - 1], j)]
  <2>1. g = [j \in 0 .. m |-> g[j]]
    OBVIOUS
  <2>. HIDE DEF g
  <2>. QED BY <1>8, <2>1
<1>. HIDE DEF g
<1>10. ParserRun(g, line, m)
  BY <1>9 DEF ParserRun
<1>. QED BY <1>3, <1>10

\* Parsed is what the loop leaves.
LEMMA ParsedByRun ==
    ASSUME NEW line, Len(line) \in Nat
    PROVE  \E u : /\ u[0] = NoParse
                  /\ \A j \in 1 .. Len(line) : u[j] = ParseChar(line, u[j - 1], j)
                  /\ Parsed(line) = u[Len(line)].cmds
<1> DEFINE u == CHOOSE h : h = [j \in 0 .. Len(line) |->
                      IF j = 0 THEN NoParse ELSE ParseChar(line, h[j - 1], j)]
<1>1. u = [j \in 0 .. Len(line) |-> IF j = 0 THEN NoParse ELSE ParseChar(line, u[j - 1], j)]
  <2>1. PICK h : ParserRun(h, line, Len(line))
    BY ParserRuns
  <2>. QED BY <2>1 DEF ParserRun
<1>2. Parsed(line) = u[Len(line)].cmds
  BY DEF Parsed
<1>. HIDE DEF u
<1>3. \A j \in 0 .. Len(line) : u[j] = IF j = 0 THEN NoParse ELSE ParseChar(line, u[j - 1], j)
  BY <1>1
<1>4. u[0] = NoParse
  BY <1>3
<1>5. \A j \in 1 .. Len(line) : u[j] = ParseChar(line, u[j - 1], j)
  BY <1>3
<1>. QED BY <1>2, <1>4, <1>5

\* What an argument adds to a list of commands.
WithArg(cmds, s) == [cmds EXCEPT ![Len(cmds)] = Append(@, s)]

Parse == [word : BOOLEAN, s : Nat, cmds : Seq(Seq(Seq(Chars \cup {BLANK, AMPERSAND})))]

LEMMA AddArgFields ==
    ASSUME NEW a \in Parse, NEW x
    PROVE  AddArg(a, x) = [word |-> FALSE, s |-> a.s, cmds |-> WithArg(a.cmds, x)]
<1>1. PICK cs : cs = WithArg(a.cmds, x)
  OBVIOUS
<1>2. AddArg(a, x) = [a EXCEPT !.word = FALSE, !.cmds = cs]
  BY <1>1 DEF AddArg, WithArg, Parse
<1>3. AddArg(a, x) = [word |-> FALSE, s |-> a.s, cmds |-> cs]
  BY <1>2 DEF Parse
<1>. QED BY <1>1, <1>3

\* The loop body, cut where a word may have begun.
Begin(line, a, j) ==
    IF line[j] \in Chars /\ ~a.word THEN [a EXCEPT !.word = TRUE, !.s = j] ELSE a

GoOn(line, begun, j) ==
    LET ended  == line[j] \notin Chars /\ begun.word
        added  == IF ended THEN AddArg(begun, SubSeq(line, begun.s, j - 1)) ELSE begun
        parted == IF line[j] = AMPERSAND /\ ~ended THEN NewCommand(added) ELSE added
    IN  IF j = Len(line) /\ parted.word
        THEN AddArg(parted, SubSeq(line, parted.s, j))
        ELSE parted

LEMMA ParseInTwo ==
    ASSUME NEW line, NEW a, NEW j
    PROVE  ParseChar(line, a, j) = GoOn(line, Begin(line, a, j), j)
BY DEF ParseChar, GoOn, Begin

LEMMA Begins ==
    ASSUME NEW a \in Parse, NEW j, NEW b, b = [a EXCEPT !.word = TRUE, !.s = j]
    PROVE  b = [word |-> TRUE, s |-> j, cmds |-> a.cmds]
<1>1. PICK w : w = TRUE
  OBVIOUS
<1>2. DOMAIN a = {"word", "s", "cmds"} /\ b = [a EXCEPT !.word = w, !.s = j]
  BY <1>1 DEF Parse
<1>3. b = [word |-> w, s |-> j, cmds |-> a.cmds]
  BY ONLY <1>2
<1>. QED BY <1>1, <1>3

\* The loop body, case by case: on a character of a word, ...
LEMMA ParseWord ==
    ASSUME NEW line, NEW a \in Parse, NEW j \in Nat, AMPERSAND \notin Chars, line[j] \in Chars,
           NEW s, s = IF a.word THEN a.s ELSE j
    PROVE  ParseChar(line, a, j) =
              IF j = Len(line)
              THEN [word |-> FALSE, s |-> s, cmds |-> WithArg(a.cmds, SubSeq(line, s, j))]
              ELSE [word |-> TRUE, s |-> s, cmds |-> a.cmds]
<1>0. a = [word |-> a.word, s |-> a.s, cmds |-> a.cmds] /\ a.word \in BOOLEAN /\ a.s \in Nat
      /\ a.cmds \in Seq(Seq(Seq(Chars \cup {BLANK, AMPERSAND})))
  BY DEF Parse
<1>1. PICK b : b = [word |-> TRUE, s |-> s, cmds |-> a.cmds]
  OBVIOUS
<1>2. Begin(line, a, j) = b
  <2>1. CASE a.word
    <3>1. a.word = TRUE /\ s = a.s
      BY <1>0, <2>1
    <3>. QED BY <1>0, <1>1, <2>1, <3>1 DEF Begin
  <2>2. CASE ~a.word
    <3>1. Begin(line, a, j) = [word |-> TRUE, s |-> j, cmds |-> a.cmds]
      BY <2>2, Begins DEF Begin
    <3>. QED BY <1>1, <2>2, <3>1
  <2>. QED BY <2>1, <2>2
<1>3. b \in Parse /\ b.word = TRUE /\ b.s = s /\ b.cmds = a.cmds
  BY <1>0, <1>1 DEF Parse
<1>4. ParseChar(line, a, j) = IF j = Len(line) THEN AddArg(b, SubSeq(line, s, j)) ELSE b
  <2>1. ParseChar(line, a, j) = GoOn(line, b, j)
    BY <1>2, ParseInTwo
  <2>2. line[j] # AMPERSAND
    OBVIOUS
  <2>. QED BY <1>3, <2>1, <2>2 DEF GoOn
<1>5. AddArg(b, SubSeq(line, s, j)) =
          [word |-> FALSE, s |-> s, cmds |-> WithArg(a.cmds, SubSeq(line, s, j))]
  BY <1>3, AddArgFields
<1>. QED BY <1>1, <1>4, <1>5

\* ... behind one, ...
LEMMA ParseEnd ==
    ASSUME NEW line, NEW a \in Parse, NEW j \in Nat, line[j] \notin Chars, a.word
    PROVE  ParseChar(line, a, j) =
              [word |-> FALSE, s |-> a.s, cmds |-> WithArg(a.cmds, SubSeq(line, a.s, j - 1))]
<1>1. PICK d : d = AddArg(a, SubSeq(line, a.s, j - 1))
  OBVIOUS
<1>2. d = [word |-> FALSE, s |-> a.s, cmds |-> WithArg(a.cmds, SubSeq(line, a.s, j - 1))]
  BY <1>1, AddArgFields
<1>3. ~d.word
  BY <1>2
<1>4. ParseChar(line, a, j) = d
  BY <1>1, <1>3 DEF ParseChar
<1>. QED BY <1>2, <1>4

\* ... and elsewhere.
LEMMA ParseGap ==
    ASSUME NEW line, NEW a \in Parse, NEW j \in Nat, line[j] \notin Chars, ~a.word
    PROVE  ParseChar(line, a, j) =
              [word |-> FALSE, s |-> a.s,
               cmds |-> IF line[j] = AMPERSAND THEN Append(a.cmds, <<>>) ELSE a.cmds]
<1>0. a = [word |-> a.word, s |-> a.s, cmds |-> a.cmds] /\ a.word = FALSE
  BY DEF Parse
<1>1. CASE line[j] = AMPERSAND
  <2>1. PICK cs : cs = Append(a.cmds, <<>>)
    OBVIOUS
  <2>2. NewCommand(a) = [word |-> FALSE, s |-> a.s, cmds |-> cs]
    <3>1. NewCommand(a) = [a EXCEPT !.cmds = cs]
      BY <2>1 DEF NewCommand, Parse
    <3>. QED BY <1>0, <3>1 DEF Parse
  <2>3. ~NewCommand(a).word
    BY <2>2
  <2>4. ParseChar(line, a, j) = NewCommand(a)
    BY <1>1, <2>3 DEF ParseChar
  <2>. QED BY <1>1, <2>1, <2>2, <2>4
<1>2. CASE line[j] # AMPERSAND
  <2>1. ParseChar(line, a, j) = a
    BY <1>2 DEF ParseChar
  <2>. QED BY <1>0, <1>2, <2>1
<1>. QED BY <1>1, <1>2
-----------------------------------------------------------------------------
(* Words and ampersands *)

LineChars == Chars \cup {BLANK, AMPERSAND}

LEMMA AmpersandsType ==
    ASSUME NEW line, NEW j \in Nat
    PROVE  Ampersands(line, j) \in Nat /\ IsFiniteSet({i \in 1 .. j : line[i] = AMPERSAND})
<1>1. IsFiniteSet(1 .. j)
  BY FS_Interval
<1>2. IsFiniteSet({i \in 1 .. j : line[i] = AMPERSAND})
  BY <1>1, FS_Subset
<1>. QED BY <1>2, FS_CardinalityType DEF Ampersands

LEMMA NoAmpersandYet ==
    ASSUME NEW line
    PROVE  Ampersands(line, 0) = 0
<1>1. {i \in 1 .. 0 : line[i] = AMPERSAND} = {}
  OBVIOUS
<1>. QED BY <1>1, FS_EmptySet DEF Ampersands

\* Without an ampersand the number of them stays the same; with one, it grows by one.
LEMMA AmpersandsKept ==
    ASSUME NEW line, NEW m \in Nat, NEW j \in Nat, m <= j,
           \A i \in m + 1 .. j : line[i] # AMPERSAND
    PROVE  Ampersands(line, m) = Ampersands(line, j)
<1>1. {i \in 1 .. m : line[i] = AMPERSAND} = {i \in 1 .. j : line[i] = AMPERSAND}
  OBVIOUS
<1>. QED BY <1>1 DEF Ampersands

LEMMA OneMoreAmpersand ==
    ASSUME NEW line, NEW j \in Nat \ {0}, line[j] = AMPERSAND
    PROVE  Ampersands(line, j) = Ampersands(line, j - 1) + 1
<1> DEFINE A == {i \in 1 .. j - 1 : line[i] = AMPERSAND}
<1>1. {i \in 1 .. j : line[i] = AMPERSAND} = A \cup {j} /\ j \notin A
  OBVIOUS
<1>2. IsFiniteSet(A)
  <2>1. j - 1 \in Nat
    OBVIOUS
  <2>. HIDE DEF A
  <2>. QED BY <2>1, AmpersandsType DEF A
<1>. HIDE DEF A
<1>3. Cardinality(A \cup {j}) = Cardinality(A) + 1
  BY <1>1, <1>2, FS_AddElement
<1>. QED BY <1>1, <1>3 DEF Ampersands, A

\* Before the last ampersand there are less than up to it.
LEMMA FewerBefore ==
    ASSUME NEW line, NEW j \in Nat, NEW i \in Nat, i < j, line[j] = AMPERSAND
    PROVE  Ampersands(line, i) # Ampersands(line, j)
<1> DEFINE A == {n \in 1 .. i : line[n] = AMPERSAND}
           B == {n \in 1 .. j : line[n] = AMPERSAND}
<1>1. A \subseteq B /\ j \in B /\ j \notin A
  OBVIOUS
<1>2. IsFiniteSet(B)
  BY AmpersandsType
<1>. HIDE DEF A, B
<1>3. Cardinality(A) # Cardinality(B)
  BY <1>1, <1>2, FS_Subset
<1>. QED BY <1>3 DEF Ampersands, A, B

\* Where a word ends.
LEMMA WordEnds ==
    ASSUME NEW line, Len(line) \in Nat, NEW s \in 1 .. Len(line), NEW e \in s .. Len(line),
           \A i \in s .. e : line[i] \in Chars,
           e = Len(line) \/ line[e + 1] \notin Chars
    PROVE  WordAt(line, s) = SubSeq(line, s, e)
<1> DEFINE W == {f \in s .. Len(line) : \A i \in s .. f : line[i] \in Chars}
<1>1. e \in W /\ \A f \in W : e >= f
  <2>1. ASSUME NEW f \in W PROVE e >= f
    <3>1. ASSUME f > e PROVE FALSE
      <4>1. e + 1 \in s .. f /\ e # Len(line)
        BY <3>1
      <4>. QED BY <4>1
    <3>. QED BY <3>1
  <2>. QED BY <2>1
<1>2. \A f \in W : (\A g \in W : f >= g) => f = e
  <2>1. ASSUME NEW f \in W, \A g \in W : f >= g PROVE f = e
    <3>1. f >= e /\ e >= f /\ f \in Int /\ e \in Int
      BY <1>1, <2>1
    <3>. QED BY <3>1
  <2>. QED BY <2>1
<1>. HIDE DEF W
<1>3. Max(W) = e
  BY <1>1, <1>2 DEF Max
<1>. QED BY <1>3 DEF WordAt, W

\* A word behind those that a command lists.
LEMMA ListsMore ==
    ASSUME NEW X, NEW cmd \in Seq(X), NEW w \in X, NEW line, NEW starts, starts \subseteq Nat,
           Lists(cmd, line, starts), NEW s \in Nat, \A i \in starts : i < s,
           WordAt(line, s) = w
    PROVE  Lists(Append(cmd, w), line, starts \cup {s})
<1>1. PICK at \in [1 .. Len(cmd) -> starts] :
        /\ \A m, n \in 1 .. Len(cmd) : m < n => at[m] < at[n]
        /\ \A j \in starts : \E n \in 1 .. Len(cmd) : at[n] = j
        /\ \A n \in 1 .. Len(cmd) : cmd[n] = WordAt(line, at[n])
  BY DEF Lists
<1>2. PICK L, more : L = Len(cmd) /\ more = Append(cmd, w)
  OBVIOUS
<1>3. /\ L \in Nat /\ Len(more) = L + 1 /\ more[L + 1] = w
      /\ \A n \in 1 .. L : more[n] = cmd[n]
  BY <1>2, AppendProperties, LenProperties
<1>4. PICK b : b = [n \in 1 .. L + 1 |-> IF n = L + 1 THEN s ELSE at[n]]
  OBVIOUS
<1>5. /\ b[L + 1] = s /\ \A n \in 1 .. L : b[n] = at[n] /\ at[n] \in starts
      /\ \A n \in 1 .. L + 1 : n \in 1 .. L \/ n = L + 1
  BY <1>1, <1>2, <1>3, <1>4
<1>6. b \in [1 .. L + 1 -> starts \cup {s}]
  BY <1>4, <1>5
<1>7. ASSUME NEW m \in 1 .. L + 1, NEW n \in 1 .. L + 1, m < n PROVE b[m] < b[n]
  <2>1. m \in 1 .. L
    BY <1>3, <1>7
  <2>. QED BY <1>1, <1>2, <1>5, <1>7, <2>1
<1>8. ASSUME NEW j \in starts \cup {s} PROVE \E n \in 1 .. L + 1 : b[n] = j
  <2>1. CASE j = s
    BY <1>3, <1>5, <2>1
  <2>2. CASE j \in starts
    <3>1. PICK n \in 1 .. L : at[n] = j
      BY <1>1, <1>2, <2>2
    <3>2. n \in 1 .. L + 1
      BY <1>3
    <3>. QED BY <1>5, <3>1, <3>2
  <2>. QED BY <2>1, <2>2
<1>9. ASSUME NEW n \in 1 .. L + 1 PROVE more[n] = WordAt(line, b[n])
  BY <1>1, <1>2, <1>3, <1>5
<1>10. \E g \in [1 .. Len(more) -> starts \cup {s}] :
          /\ \A m, n \in 1 .. Len(more) : m < n => g[m] < g[n]
          /\ \A j \in starts \cup {s} : \E n \in 1 .. Len(more) : g[n] = j
          /\ \A n \in 1 .. Len(more) : more[n] = WordAt(line, g[n])
  <2>1. Len(more) = L + 1
    BY <1>3
  <2>2. /\ \A m, n \in 1 .. Len(more) : m < n => b[m] < b[n]
        /\ \A j \in starts \cup {s} : \E n \in 1 .. Len(more) : b[n] = j
        /\ \A n \in 1 .. Len(more) : more[n] = WordAt(line, b[n])
    BY ONLY <2>1, <1>7, <1>8, <1>9
  <2>3. b \in [1 .. Len(more) -> starts \cup {s}]
    BY ONLY <2>1, <1>6
  <2>. QED BY ONLY <2>2, <2>3
<1>11. Lists(more, line, starts \cup {s})
  BY <1>10 DEF Lists
<1>. QED BY <1>2, <1>11

LEMMA ListsNothing ==
    ASSUME NEW line
    PROVE  Lists(<<>>, line, {})
<1>1. Len(<<>>) = 0 /\ 1 .. 0 = {}
  BY EmptySeq
<1>2. [n \in {} |-> 0] \in [{} -> {}]
  OBVIOUS
<1>. QED BY <1>1, <1>2 DEF Lists
-----------------------------------------------------------------------------
(* The parser reads a line as it is meant *)

\* The words of the command k that are parsed after the character at j: those that have
\* begun, but for the one that goes on, if there is one.
Open(word, s) == IF word THEN {s} ELSE {}

Done(line, open, j, k) == {i \in WordStarts(line, k - 1) : i <= j /\ i \notin open}

\* The word at s goes on to e.
GoesOn(line, s, e) ==
    /\ s \in 1 .. e /\ \A i \in s .. e : line[i] \in Chars
    /\ s = 1 \/ line[s - 1] \notin Chars

\* The commands are those of the words done.
Listed(line, open, cmds, j) ==
    /\ cmds \in Seq(Seq(Seq(LineChars)))
    /\ Len(cmds) = Ampersands(line, j) + 1
    /\ \A k \in 1 .. Len(cmds) : Lists(cmds[k], line, Done(line, open, j, k))

Fit(line, word, s, cmds, j) ==
    /\ word \in BOOLEAN /\ s \in Nat
    /\ word => GoesOn(line, s, j) /\ j < Len(line)
    /\ ~word => j = 0 \/ j = Len(line) \/ line[j] \notin Chars
    /\ Listed(line, Open(word, s), cmds, j)

\* Only a word that begins is started.
LEMMA DoneOfWord ==
    ASSUME NEW line \in Seq(LineChars), NEW j \in 1 .. Len(line), NEW word, NEW s,
           NEW cmds, Fit(line, word, s, cmds, j - 1), line[j] \in Chars, NEW k,
           NEW t, t = IF word THEN s ELSE j
    PROVE  Done(line, {t}, j, k) = Done(line, Open(word, s), j - 1, k)
<1>1. Len(line) \in Nat
  BY LenProperties
<1>. HIDE DEF LineChars
<1>2. WordStarts(line, k - 1) \subseteq 1 .. Len(line)
      /\ \A i \in WordStarts(line, k - 1) : i = 1 \/ line[i - 1] \notin Chars
  BY DEF WordStarts
<1>3. CASE word
  <2>1. t = s /\ s \in 1 .. j - 1 /\ line[j - 1] \in Chars
    BY <1>1, <1>3 DEF Fit, GoesOn
  <2>2. j \notin WordStarts(line, k - 1)
    BY <1>1, <1>2, <2>1
  <2>. QED BY <1>1, <1>2, <1>3, <2>1, <2>2 DEF Done, Open
<1>4. CASE ~word
  BY <1>1, <1>2, <1>4 DEF Done, Open
<1>. QED BY <1>3, <1>4

\* No word starts where there is no character of one.
LEMMA DoneInGap ==
    ASSUME NEW line \in Seq(LineChars), NEW j \in 1 .. Len(line), line[j] \notin Chars, NEW k
    PROVE  Done(line, {}, j, k) = Done(line, {}, j - 1, k)
<1>1. Len(line) \in Nat
  BY LenProperties
<1>2. WordStarts(line, k - 1) \subseteq 1 .. Len(line) /\ j \notin WordStarts(line, k - 1)
  BY DEF WordStarts
<1>. QED BY <1>1, <1>2 DEF Done

\* What an argument adds.
LEMMA WithArgAt ==
    ASSUME NEW cmds \in Seq(Seq(Seq(LineChars))), Len(cmds) # 0, NEW w \in Seq(LineChars)
    PROVE  /\ WithArg(cmds, w) \in Seq(Seq(Seq(LineChars)))
           /\ Len(WithArg(cmds, w)) = Len(cmds)
           /\ \A k \in 1 .. Len(cmds) : k # Len(cmds) => WithArg(cmds, w)[k] = cmds[k]
           /\ WithArg(cmds, w)[Len(cmds)] = Append(cmds[Len(cmds)], w)
<1>1. PICK X : X = Seq(Seq(LineChars))
  OBVIOUS
<1>2. PICK L : L = Len(cmds)
  OBVIOUS
<1>3. cmds \in Seq(X) /\ L \in Nat \ {0} /\ cmds \in [1 .. L -> X]
  BY <1>1, <1>2, LenProperties
<1>4. PICK v : v = Append(cmds[L], w)
  OBVIOUS
<1>5. v \in X
  <2>1. cmds[L] \in Seq(Seq(LineChars))
    BY <1>1, <1>3
  <2>. QED BY <1>1, <1>4, <2>1, AppendProperties
<1>6. PICK c : c = [cmds EXCEPT ![L] = v]
  OBVIOUS
<1>7. c \in [1 .. L -> X] /\ c[L] = v /\ \A k \in 1 .. L : k # L => c[k] = cmds[k]
  BY ONLY <1>3, <1>5, <1>6
<1>8. c \in Seq(X) /\ Len(c) = L
  BY <1>3, <1>7, SeqDef, LenProperties
<1>9. WithArg(cmds, w) = c
  BY <1>2, <1>4, <1>6 DEF WithArg
<1>. QED BY <1>1, <1>2, <1>4, <1>7, <1>8, <1>9

\* At the end of a word it is listed with the ones before.
LEMMA WordIsListed ==
    ASSUME NEW line \in Seq(LineChars), NEW e \in 1 .. Len(line), NEW s, NEW cmds,
           GoesOn(line, s, e), e = Len(line) \/ line[e + 1] \notin Chars,
           Listed(line, {s}, cmds, e), AMPERSAND \notin Chars
    PROVE  Listed(line, {}, WithArg(cmds, SubSeq(line, s, e)), e)
<1>1. PICK n : n = Len(line)
  OBVIOUS
<1>2. /\ n \in Nat /\ s \in 1 .. e /\ e \in 1 .. n /\ \A i \in s .. e : line[i] \in Chars
      /\ s = 1 \/ line[s - 1] \notin Chars
  BY <1>1, LenProperties DEF GoesOn
<1>0. e \in Nat /\ s \in Nat
  BY ONLY <1>2
<1>3. PICK L, w : L = Len(cmds) /\ w = SubSeq(line, s, e)
  OBVIOUS
<1>4. w \in Seq(LineChars) /\ w = WordAt(line, s)
  <2>1. s \in 1 .. n + 1 /\ e \in s - 1 .. n /\ s \in 1 .. n /\ e \in s .. n
    BY ONLY <1>2
  <2>2. w = WordAt(line, s)
    BY <1>1, <1>2, <1>3, <2>1, WordEnds
  <2>3. SubSeq(line, s, e) \in Seq(LineChars)
    <3>1. \A i \in s .. e : i \in 1 .. n
      BY ONLY <1>2
    <3>2. \A i \in s .. e : line[i] \in LineChars
      BY <1>1, <3>1, ElementOfSeq
    <3>. QED BY <1>0, <1>1, <3>2, SubSeqProperties
  <2>. QED BY <1>3, <2>2, <2>3
<1>5. /\ cmds \in Seq(Seq(Seq(LineChars))) /\ L = Ampersands(line, e) + 1 /\ L \in Nat \ {0}
      /\ \A k \in 1 .. L : Lists(cmds[k], line, Done(line, {s}, e, k))
  <2>1. Ampersands(line, e) \in Nat
    BY <1>0, AmpersandsType
  <2>2. /\ cmds \in Seq(Seq(Seq(LineChars))) /\ L = Ampersands(line, e) + 1
        /\ \A k \in 1 .. L : Lists(cmds[k], line, Done(line, {s}, e, k))
    BY <1>3 DEF Listed
  <2>3. L \in Nat \ {0}
    BY ONLY <2>1, <2>2
  <2>. QED BY <2>2, <2>3
<1>6. Ampersands(line, s) = L - 1
  <2>1. ASSUME NEW i \in s + 1 .. e PROVE line[i] # AMPERSAND
    <3>1. i \in s .. e
      BY <1>2
    <3>. QED BY <1>2, <3>1
  <2>2. Ampersands(line, s) = Ampersands(line, e)
    BY <1>2, <2>1, AmpersandsKept
  <2>3. Ampersands(line, e) \in Nat
    BY <1>0, AmpersandsType
  <2>. QED BY <1>5, <2>2, <2>3
<1>7. s \in WordStarts(line, L - 1) /\ \A k \in 1 .. L : k # L => s \notin WordStarts(line, k - 1)
  <2>1. s \in 1 .. n /\ line[s] \in Chars
    BY <1>2
  <2>2. s \in WordStarts(line, L - 1)
    BY <1>1, <1>2, <1>6, <2>1 DEF WordStarts
  <2>3. ASSUME NEW k \in 1 .. L, s \in WordStarts(line, k - 1) PROVE k = L
    <3>1. k - 1 = L - 1
      BY <1>6, <2>3 DEF WordStarts
    <3>. QED BY <1>5, <3>1
  <2>. QED BY <2>2, <2>3
<1>8. \A i \in WordStarts(line, L - 1) : i \in 1 .. n /\ (i = 1 \/ line[i - 1] \notin Chars)
  BY <1>1 DEF WordStarts
<1>9. \A i \in Done(line, {s}, e, L) : i < s
  <2>1. ASSUME NEW i \in WordStarts(line, L - 1), i <= e, i # s, ~(i < s) PROVE FALSE
    <3>1. i - 1 \in s .. e /\ i # 1
      BY <1>2, <1>8, <2>1
    <3>. QED BY <1>2, <1>8, <2>1, <3>1
  <2>. QED BY <2>1 DEF Done
<1>10. /\ Done(line, {}, e, L) = Done(line, {s}, e, L) \cup {s}
       /\ \A k \in 1 .. L : k # L => Done(line, {}, e, k) = Done(line, {s}, e, k)
  BY <1>2, <1>7 DEF Done
<1>11. PICK cs : cs = WithArg(cmds, w)
  OBVIOUS
<1>12. /\ cs \in Seq(Seq(Seq(LineChars))) /\ Len(cs) = L
       /\ \A k \in 1 .. L : k # L => cs[k] = cmds[k]
       /\ cs[L] = Append(cmds[L], w)
  BY <1>3, <1>4, <1>5, <1>11, WithArgAt
<1>13. Lists(cs[L], line, Done(line, {}, e, L))
  <2>1. L \in 1 .. L
    BY <1>5
  <2>2. cmds[L] \in Seq(Seq(LineChars))
    <3>1. cmds \in [1 .. L -> Seq(Seq(LineChars))]
      BY <1>3, <1>5, LenProperties
    <3>. QED BY <2>1, <3>1
  <2>3. Done(line, {s}, e, L) \subseteq Nat /\ s \in Nat
    BY <1>2, <1>8 DEF Done
  <2>4. Lists(cmds[L], line, Done(line, {s}, e, L))
    BY <1>5, <2>1
  <2>5. Lists(Append(cmds[L], w), line, Done(line, {s}, e, L) \cup {s})
    BY <1>4, <1>9, <2>2, <2>3, <2>4, ListsMore
  <2>. QED BY <1>10, <1>12, <2>5
<1>14. ASSUME NEW k \in 1 .. L PROVE Lists(cs[k], line, Done(line, {}, e, k))
  <2>1. CASE k = L
    BY <1>13, <2>1
  <2>2. CASE k # L
    BY <1>5, <1>10, <1>12, <2>2
  <2>. QED BY <2>1, <2>2
<1>15. Listed(line, {}, cs, e)
  BY <1>5, <1>12, <1>14 DEF Listed
<1>. QED BY <1>3, <1>11, <1>15

\* The state of the parser fits the line up to j.
Fits(line, a, j) ==
    \E word, s, cmds : a = [word |-> word, s |-> s, cmds |-> cmds] /\ Fit(line, word, s, cmds, j)

LEMMA FitsAtStart ==
    ASSUME NEW line \in Seq(LineChars), line # <<>>
    PROVE  Fits(line, NoParse, 0)
<1>1. Len(line) \in Nat
  BY LenProperties
<1>2. PICK cmds : cmds = <<<<>>>>
  OBVIOUS
<1>3. Len(cmds) = 1 /\ cmds[1] = <<>> /\ cmds \in Seq(Seq(Seq(LineChars)))
  BY <1>2
<1>4. Done(line, {}, 0, 1) = {}
  BY <1>1 DEF Done, WordStarts
<1>5. Lists(cmds[1], line, Done(line, {}, 0, 1))
  BY <1>3, <1>4, ListsNothing
<1>6. Ampersands(line, 0) = 0
  BY NoAmpersandYet
<1>7. ASSUME NEW k \in 1 .. Len(cmds) PROVE Lists(cmds[k], line, Done(line, {}, 0, k))
  <2>1. k = 1
    BY <1>3
  <2>. QED BY <1>5, <2>1
<1>8. Listed(line, {}, cmds, 0)
  <2>1. Len(cmds) = Ampersands(line, 0) + 1
    BY <1>3, <1>6
  <2>. QED BY <1>3, <1>7, <2>1 DEF Listed
<1>9. Fit(line, FALSE, 0, cmds, 0)
  BY <1>8 DEF Fit, Open
<1>. QED BY <1>2, <1>9 DEF Fits, NoParse

LEMMA ParseCharFits ==
    ASSUME NEW line \in Seq(LineChars), Spaced(line), AMPERSAND \notin Chars,
           NEW j \in 1 .. Len(line), NEW a, Fits(line, a, j - 1)
    PROVE  Fits(line, ParseChar(line, a, j), j)
<1>1. PICK n : n = Len(line)
  OBVIOUS
<1>2. n \in Nat /\ j \in 1 .. n /\ j \in Nat /\ j - 1 \in Nat /\ j - 1 + 1 = j /\ j # 0
  BY <1>1, LenProperties
<1>3. PICK word, s, cmds : /\ a = [word |-> word, s |-> s, cmds |-> cmds]
                           /\ Fit(line, word, s, cmds, j - 1)
  BY DEF Fits
<1>4. /\ word \in BOOLEAN /\ s \in Nat /\ a \in Parse
      /\ a.word = word /\ a.s = s /\ a.cmds = cmds
  <2>1. word \in BOOLEAN /\ s \in Nat /\ cmds \in Seq(Seq(Seq(LineChars)))
    BY <1>3 DEF Fit, Listed
  <2>. QED BY <1>3, <2>1 DEF Parse, LineChars
<1>5. /\ word => GoesOn(line, s, j - 1)
      /\ ~word => j = 1 \/ line[j - 1] \notin Chars
      /\ Listed(line, Open(word, s), cmds, j - 1)
  <2>1. j - 1 # Len(line) /\ (j - 1 = 0 => j = 1)
    BY ONLY <1>1, <1>2
  <2>. QED BY <1>3, <2>1 DEF Fit
<1>6. /\ cmds \in Seq(Seq(Seq(LineChars))) /\ Len(cmds) = Ampersands(line, j - 1) + 1
      /\ \A k \in 1 .. Len(cmds) : Lists(cmds[k], line, Done(line, Open(word, s), j - 1, k))
  BY <1>5 DEF Listed
<1>7. ASSUME line[j] # AMPERSAND PROVE Ampersands(line, j) = Ampersands(line, j - 1)
  <2>1. \A i \in j - 1 + 1 .. j : line[i] # AMPERSAND
    BY <1>2, <1>7
  <2>. QED BY <1>2, <2>1, AmpersandsKept
<1>8. CASE line[j] \in Chars
  <2>1. PICK t : t = IF word THEN s ELSE j
    OBVIOUS
  <2>2. GoesOn(line, t, j) /\ t \in Nat
    <3>1. CASE word
      <4>1. t = s /\ s \in 1 .. j - 1 /\ (s = 1 \/ line[s - 1] \notin Chars)
            /\ \A i \in s .. j - 1 : line[i] \in Chars
        BY <1>5, <2>1, <3>1 DEF GoesOn
      <4>2. \A i \in s .. j : i \in s .. j - 1 \/ i = j
        BY <1>2, <4>1
      <4>3. \A i \in s .. j : line[i] \in Chars
        BY <1>8, <4>1, <4>2
      <4>4. s \in 1 .. j /\ s \in Nat
        BY <1>2, <4>1
      <4>. QED BY <4>1, <4>3, <4>4 DEF GoesOn
    <3>2. CASE ~word
      <4>1. t = j /\ j \in 1 .. j /\ \A i \in j .. j : i = j
        BY <1>2, <2>1, <3>2
      <4>. QED BY <1>2, <1>5, <1>8, <3>2, <4>1 DEF GoesOn
    <3>. QED BY <3>1, <3>2
  <2>3. Listed(line, {t}, cmds, j)
    <3>1. line[j] # AMPERSAND
      BY <1>8
    <3>2. Len(cmds) = Ampersands(line, j) + 1
      BY <1>6, <1>7, <3>1
    <3>3. ASSUME NEW k \in 1 .. Len(cmds) PROVE Lists(cmds[k], line, Done(line, {t}, j, k))
      <4>1. Done(line, {t}, j, k) = Done(line, Open(word, s), j - 1, k)
        BY <1>3, <1>8, <2>1, DoneOfWord
      <4>. QED BY <1>6, <4>1
    <3>. QED BY <1>6, <3>2, <3>3 DEF Listed
  <2>4. CASE j # n
    <3>1. ParseChar(line, a, j) = [word |-> TRUE, s |-> t, cmds |-> cmds]
      BY <1>1, <1>2, <1>4, <1>8, <2>1, <2>4, ParseWord
    <3>2. j < Len(line)
      BY <1>1, <1>2, <2>4
    <3>3. Fit(line, TRUE, t, cmds, j)
      BY <2>2, <2>3, <3>2 DEF Fit, Open
    <3>. QED BY <3>1, <3>3 DEF Fits
  <2>5. CASE j = n
    <3>1. PICK cs : cs = WithArg(cmds, SubSeq(line, t, j))
      OBVIOUS
    <3>2. ParseChar(line, a, j) = [word |-> FALSE, s |-> t, cmds |-> cs]
      BY <1>1, <1>2, <1>4, <1>8, <2>1, <2>5, <3>1, ParseWord
    <3>3. Listed(line, {}, cs, j)
      BY <1>1, <2>2, <2>3, <2>5, <3>1, WordIsListed
    <3>4. Fit(line, FALSE, t, cs, j)
      BY <1>1, <2>2, <2>5, <3>3 DEF Fit, Open
    <3>. QED BY <3>2, <3>4 DEF Fits
  <2>. QED BY <2>4, <2>5
<1>9. CASE line[j] \notin Chars /\ word
  <2>1. GoesOn(line, s, j - 1) /\ s \in 1 .. j - 1 /\ line[j - 1] \in Chars
    <3>1. GoesOn(line, s, j - 1)
      BY <1>5, <1>9
    <3>2. s \in 1 .. j - 1 /\ \A i \in s .. j - 1 : line[i] \in Chars
      BY <3>1 DEF GoesOn
    <3>3. j - 1 \in s .. j - 1
      BY <1>2, <3>2
    <3>. QED BY <3>1, <3>2, <3>3
  <2>2. line[j] # AMPERSAND
    <3>1. j \in 2 .. Len(line)
      BY <1>1, <1>2, <2>1
    <3>. QED BY <2>1, <3>1 DEF Spaced
  <2>3. PICK cs : cs = WithArg(cmds, SubSeq(line, s, j - 1))
    OBVIOUS
  <2>4. ParseChar(line, a, j) = [word |-> FALSE, s |-> s, cmds |-> cs]
    BY <1>2, <1>4, <1>9, <2>3, ParseEnd
  <2>5. Listed(line, {}, cs, j - 1)
    <3>1. j - 1 \in 1 .. Len(line)
      BY <1>1, <1>2, <2>1
    <3>2. Listed(line, {s}, cmds, j - 1)
      BY <1>5, <1>9 DEF Open
    <3>3. line[j - 1 + 1] \notin Chars
      BY <1>2, <1>9
    <3>. QED BY <2>1, <2>3, <3>1, <3>2, <3>3, WordIsListed
  <2>6. Listed(line, {}, cs, j)
    <3>1. Ampersands(line, j) = Ampersands(line, j - 1)
      BY <1>7, <2>2
    <3>2. /\ cs \in Seq(Seq(Seq(LineChars))) /\ Len(cs) = Ampersands(line, j) + 1
          /\ \A k \in 1 .. Len(cs) : Lists(cs[k], line, Done(line, {}, j - 1, k))
      BY <2>5, <3>1 DEF Listed
    <3>3. ASSUME NEW k \in 1 .. Len(cs) PROVE Lists(cs[k], line, Done(line, {}, j, k))
      <4>1. Done(line, {}, j, k) = Done(line, {}, j - 1, k)
        BY <1>9, DoneInGap
      <4>. QED BY <3>2, <4>1
    <3>. QED BY <3>2, <3>3 DEF Listed
  <2>7. Fit(line, FALSE, s, cs, j)
    BY <1>4, <1>9, <2>6 DEF Fit, Open
  <2>. QED BY <2>4, <2>7 DEF Fits
<1>10. CASE line[j] \notin Chars /\ ~word /\ line[j] # AMPERSAND
  <2>1. ParseChar(line, a, j) = [word |-> FALSE, s |-> s, cmds |-> cmds]
    BY <1>2, <1>4, <1>10, ParseGap
  <2>2. Listed(line, {}, cmds, j)
    <3>1. Ampersands(line, j) = Ampersands(line, j - 1)
      BY <1>7, <1>10
    <3>2. ASSUME NEW k \in 1 .. Len(cmds) PROVE Lists(cmds[k], line, Done(line, {}, j, k))
      <4>1. Done(line, {}, j, k) = Done(line, {}, j - 1, k) /\ Open(word, s) = {}
        BY <1>10, DoneInGap DEF Open
      <4>. QED BY <1>6, <4>1
    <3>. QED BY <1>6, <3>1, <3>2 DEF Listed
  <2>3. Fit(line, FALSE, s, cmds, j)
    BY <1>4, <1>10, <2>2 DEF Fit, Open
  <2>. QED BY <2>1, <2>3 DEF Fits
<1>11. CASE line[j] \notin Chars /\ ~word /\ line[j] = AMPERSAND
  <2>1. PICK cs, L : cs = Append(cmds, <<>>) /\ L = Len(cmds)
    OBVIOUS
  <2>2. ParseChar(line, a, j) = [word |-> FALSE, s |-> s, cmds |-> cs]
    BY <1>2, <1>4, <1>11, <2>1, ParseGap
  <2>3. /\ cs \in Seq(Seq(Seq(LineChars))) /\ L \in Nat /\ Len(cs) = L + 1 /\ cs[L + 1] = <<>>
        /\ \A k \in 1 .. L : cs[k] = cmds[k]
    <3>1. <<>> \in Seq(Seq(LineChars))
      BY EmptySeq
    <3>. QED BY <1>6, <2>1, <3>1, AppendProperties, LenProperties
  <2>4. L = Ampersands(line, j) /\ L \in Nat
    <3>1. Ampersands(line, j) = Ampersands(line, j - 1) + 1
      BY <1>2, <1>11, OneMoreAmpersand
    <3>. QED BY <1>6, <2>1, <2>3, <3>1
  <2>5. Done(line, {}, j, L + 1) = {}
    <3>1. ASSUME NEW i \in WordStarts(line, L), i <= j PROVE FALSE
      <4>1. i \in 1 .. n /\ i # j /\ Ampersands(line, i) = L
        BY <1>1, <1>11, <3>1 DEF WordStarts
      <4>2. i \in Nat /\ i < j
        BY <1>2, <3>1, <4>1
      <4>. QED BY <1>2, <1>11, <2>4, <4>1, <4>2, FewerBefore
    <3>2. PICK k : k = L + 1
      OBVIOUS
    <3>3. k - 1 = L
      BY ONLY <2>4, <3>2
    <3>4. Done(line, {}, j, k) = {}
      BY <3>1, <3>3 DEF Done
    <3>. QED BY <3>2, <3>4
  <2>6. ASSUME NEW k \in 1 .. L + 1 PROVE Lists(cs[k], line, Done(line, {}, j, k))
    <3>1. CASE k = L + 1
      <4>1. cs[k] = <<>> /\ Done(line, {}, j, k) = {}
        BY <2>3, <2>5, <3>1
      <4>. QED BY <4>1, ListsNothing
    <3>2. CASE k # L + 1
      <4>1. k \in 1 .. L /\ k \in 1 .. Len(cmds)
        BY <2>1, <2>3, <3>2
      <4>2. Done(line, {}, j, k) = Done(line, {}, j - 1, k) /\ Open(word, s) = {}
        BY <1>11, DoneInGap DEF Open
      <4>3. cs[k] = cmds[k] /\ Lists(cmds[k], line, Done(line, Open(word, s), j - 1, k))
        BY <1>6, <2>3, <4>1
      <4>. QED BY <4>2, <4>3
    <3>. QED BY <3>1, <3>2
  <2>7. Listed(line, {}, cs, j)
    BY <2>3, <2>4, <2>6 DEF Listed
  <2>8. Fit(line, FALSE, s, cs, j)
    BY <1>4, <1>11, <2>7 DEF Fit, Open
  <2>. QED BY <2>2, <2>8 DEF Fits
<1>. QED BY <1>8, <1>9, <1>10, <1>11

\* A line without an ampersand right behind a word is understood.
LEMMA ParsedMeans ==
    ASSUME NEW line \in Seq(LineChars), line # <<>>, Spaced(line), AMPERSAND \notin Chars
    PROVE  Means(line, Parsed(line))
<1>1. PICK n : n = Len(line)
  OBVIOUS
<1>2. n \in Nat /\ n # 0
  BY <1>1, LenProperties, EmptySeq
<1>3. PICK u : /\ u[0] = NoParse
               /\ \A j \in 1 .. Len(line) : u[j] = ParseChar(line, u[j - 1], j)
               /\ Parsed(line) = u[Len(line)].cmds
  BY <1>1, <1>2, ParsedByRun
<1> DEFINE Bad == {j \in 0 .. n : ~Fits(line, u[j], j)}
<1>4. Bad = {}
  <2>1. SUFFICES ASSUME Bad # {} PROVE FALSE
    OBVIOUS
  <2>2. PICK j \in Bad : \A i \in Bad : j <= i
    <3>1. Bad \subseteq Nat
      BY <1>2
    <3>. HIDE DEF Bad
    <3>. QED BY <2>1, <3>1, LeastNumber
  <2>3. j \in 0 .. n /\ ~Fits(line, u[j], j)
    OBVIOUS
  <2>4. j # 0
    BY <1>3, <2>3, FitsAtStart
  <2>5. j \in 1 .. n /\ j - 1 \in 0 .. n /\ ~(j <= j - 1)
    BY <1>2, <2>3, <2>4
  <2>6. Fits(line, u[j - 1], j - 1)
    BY <2>2, <2>5
  <2>. HIDE DEF Bad
  <2>7. Fits(line, u[j], j)
    BY <1>1, <1>3, <2>5, <2>6, ParseCharFits
  <2>. QED BY <2>3, <2>7
<1>5. Fits(line, u[n], n)
  <2>1. n \in 0 .. n
    BY <1>2
  <2>. QED BY <1>4, <2>1
<1>6. PICK word, s, cmds : u[n] = [word |-> word, s |-> s, cmds |-> cmds] /\ Fit(line, word, s, cmds, n)
  BY <1>5 DEF Fits
<1>7. Listed(line, {}, cmds, n)
  BY <1>1, <1>2, <1>6 DEF Fit, Open
<1>8. /\ Len(cmds) = Ampersands(line, Len(line)) + 1
      /\ \A k \in 1 .. Len(cmds) : Lists(cmds[k], line, Done(line, {}, n, k))
  BY <1>1, <1>7 DEF Listed
<1>9. \A k : Done(line, {}, n, k) = WordStarts(line, k - 1)
  BY <1>1, <1>2 DEF Done, WordStarts
<1>10. cmds = Parsed(line)
  BY <1>1, <1>3, <1>6
<1>. QED BY <1>8, <1>9, <1>10 DEF Means
-----------------------------------------------------------------------------
(* The processes and the boot *)

USE ShellAssumption

\* What the processes and the boot are made of; the commands are what Parsed makes them.
ProcFields == {"at", "tty", "line", "cmds", "child"}
BootFields == {"at", "i", "piece"}

TypeOK ==
    /\ proc = [p \in Slot |-> proc[p]]
    /\ \A p \in Slot : DOMAIN proc[p] = ProcFields
    /\ DOMAIN boot = BootFields /\ boot.at \in {"untar", "copy", "fork", "spin"}
    /\ boot.i \in Nat \ {0} /\ boot.piece \in Nat
    /\ unpacked \in BOOLEAN
    /\ content = [f \in DOMAIN content |-> content[f]]

\* Until the shells are forked nothing but Init() runs.
NobodyYet == boot.at \in {"untar", "copy"} => \A p \in Slot : proc[p] = Unused

Whole(f) == Exists(f) /\ content[f] = Chunks

\* The files before the one that untar works on are whole, unless it is one of them again.
CopiedWhole ==
    /\ boot.at = "untar" => \A j \in 1 .. Len(Archive) : j < boot.i => Whole(Archive[j])
    /\ boot.at = "copy"  =>
          /\ boot.i <= Len(Archive)
          /\ Exists(Archive[boot.i]) /\ content[Archive[boot.i]] = boot.piece
          /\ boot.piece <= Chunks
          /\ \A j \in 1 .. Len(Archive) :
                j < boot.i /\ Archive[j] # Archive[boot.i] => Whole(Archive[j])

\* A process that waits has a child of its own, on its terminal.
InUse(p) == proc[p].at # "free"
Waits(p) == proc[p].at = "wait"

ChildrenApart ==
    /\ \A p \in Slot : Waits(p) =>
          /\ proc[p].child \in Slot /\ InUse(proc[p].child)
          /\ proc[proc[p].child].tty = proc[p].tty
    /\ \A p, q \in Slot : Waits(p) /\ Waits(q) /\ proc[p].child = proc[q].child => p = q

\* The processes of a terminal wait for each other in one chain: one alone does not wait.
ChainEnds ==
    \A p, q \in Slot :
        InUse(p) /\ ~Waits(p) /\ InUse(q) /\ ~Waits(q) /\ proc[p].tty = proc[q].tty => p = q

\* The terminals whose shell has been forked.
ShellsForked ==
    /\ boot.at \notin {"untar", "copy"} =>
          \A p \in Slot : InUse(p) =>
              \E j \in 1 .. Len(Terminals) : j < boot.i /\ proc[p].tty = Terminals[j]
    /\ \A p \in Slot : ~InUse(p) => proc[p] = Unused

IInv == TypeOK /\ NobodyYet /\ CopiedWhole /\ ChildrenApart /\ ChainEnds /\ ShellsForked

LEMMA MinIsFree == Free # {} => Min(Free) \in Free
<1>. SUFFICES ASSUME Free # {} PROVE Min(Free) \in Free
  OBVIOUS
<1>1. Free \subseteq Nat
  BY DEF Free
<1>2. PICK x \in Free : \A y \in Free : x <= y
  BY <1>1, LeastNumber
<1>. QED BY <1>2 DEF Min

LEMMA UnusedFields ==
    /\ DOMAIN Unused = ProcFields /\ Unused.at = "free"
BY DEF Unused, ProcFields

LEMMA InitInv == Init => IInv
<1> SUFFICES ASSUME Init PROVE IInv
  OBVIOUS
<1>1. /\ \A p \in Slot : proc[p] = Unused
      /\ proc = [p \in Slot |-> proc[p]]
      /\ content = [f \in DOMAIN content |-> content[f]]
      /\ boot.at = "untar" /\ boot.i = 1 /\ boot.piece = 0 /\ DOMAIN boot = BootFields
      /\ unpacked = FALSE
  BY DEF Init, Booting, BootFields
<1>2. \A p \in Slot : ~InUse(p) /\ ~Waits(p) /\ DOMAIN proc[p] = ProcFields
  BY <1>1, UnusedFields DEF InUse, Waits
<1>3. TypeOK
  <2>1. boot.i \in Nat \ {0} /\ boot.piece \in Nat /\ boot.at \in {"untar", "copy", "fork", "spin"}
    BY <1>1
  <2>. QED BY <1>1, <1>2, <2>1 DEF TypeOK
<1>4. NobodyYet /\ CopiedWhole
  BY <1>1 DEF NobodyYet, CopiedWhole
<1>5. ChildrenApart /\ ChainEnds
  BY <1>2 DEF ChildrenApart, ChainEnds
<1>6. ShellsForked
  BY <1>1 DEF ShellsForked
<1>. QED BY <1>3, <1>4, <1>5, <1>6 DEF IInv

LEMMA UntarInv == ASSUME IInv, UntarOpen \/ UntarCopy \/ UntarEnd PROVE IInv'
<1>1. \A p \in Slot : proc[p] = Unused
  BY DEF IInv, NobodyYet, UntarOpen, UntarCopy, UntarEnd
<1>2. proc' = proc /\ Archive \in Seq(Seq(Chars)) /\ Len(Archive) \in Nat /\ Chunks \in Nat
      /\ Len(Terminals) \in Nat
  BY DEF UntarOpen, UntarCopy, UntarEnd
<1>3. (ChildrenApart /\ ChainEnds)' /\ \A p \in Slot : ~InUse(p)' /\ proc'[p] = Unused
  BY <1>1, <1>2, UnusedFields DEF ChildrenApart, ChainEnds, InUse, Waits
<1>4. (NobodyYet /\ ShellsForked)'
  BY <1>3 DEF NobodyYet, ShellsForked
<1>5. (TypeOK /\ CopiedWhole)'
  <2>1. CASE UntarOpen
    <3>1. /\ boot'.at = "copy" /\ boot'.piece = 0 /\ boot'.i = boot.i /\ DOMAIN boot' = BootFields
          /\ boot.i <= Len(Archive) /\ boot.at = "untar"
      BY <2>1 DEF UntarOpen, IInv, TypeOK, BootFields
    <3>2. PICK f : f = Archive[boot.i]
      OBVIOUS
    <3>3. /\ DOMAIN content' = DOMAIN content \cup {f}
          /\ content' = [g \in DOMAIN content' |-> content'[g]]
          /\ \A g \in DOMAIN content' : content'[g] = IF g = f THEN 0 ELSE content[g]
      BY <2>1, <3>2 DEF UntarOpen
    <3>4. TypeOK'
      BY <1>2, <2>1, <3>1, <3>3 DEF UntarOpen, IInv, TypeOK
    <3>5. CopiedWhole'
      BY <1>2, <3>1, <3>2, <3>3 DEF IInv, CopiedWhole, Whole, Exists
    <3>. QED BY <3>4, <3>5
  <2>2. CASE UntarCopy
    <3>1. PICK f : f = Archive[boot.i] /\ f \in DOMAIN content /\ content[f] = boot.piece
      BY <2>2 DEF UntarCopy, IInv, CopiedWhole, Exists
    <3>2. /\ boot.at = "copy" /\ boot.piece \in Nat /\ boot.piece <= Chunks
          /\ boot.i <= Len(Archive) /\ boot.i \in Nat \ {0}
      BY <2>2 DEF UntarCopy, IInv, TypeOK, CopiedWhole
    <3>3. CASE boot.piece < Chunks
      <4>1. /\ content' = [content EXCEPT ![f] = boot.piece + 1] /\ unpacked' = unpacked
            /\ boot' = [boot EXCEPT !.piece = @ + 1]
        BY <2>2, <3>1, <3>3 DEF UntarCopy, Copies
      <4>2. /\ boot'.at = "copy" /\ boot'.piece = boot.piece + 1 /\ boot'.i = boot.i
            /\ DOMAIN boot' = BootFields
        BY <3>2, <4>1 DEF IInv, TypeOK, BootFields
      <4>3. /\ DOMAIN content' = DOMAIN content /\ content' = [g \in DOMAIN content' |-> content'[g]]
            /\ \A g \in DOMAIN content : content'[g] = IF g = f THEN boot.piece + 1 ELSE content[g]
        BY <4>1 DEF IInv, TypeOK
      <4>4. TypeOK'
        BY <1>2, <3>2, <4>1, <4>2, <4>3 DEF IInv, TypeOK
      <4>5. CopiedWhole'
        BY <1>2, <3>1, <3>2, <3>3, <4>2, <4>3 DEF IInv, CopiedWhole, Whole, Exists
      <4>. QED BY <4>4, <4>5
    <3>4. CASE ~(boot.piece < Chunks)
      <4>1. /\ content' = content /\ unpacked' = unpacked
            /\ boot' = [boot EXCEPT !.at = "untar", !.i = @ + 1]
        BY <2>2, <3>4 DEF UntarCopy, Copies
      <4>2. /\ boot'.at = "untar" /\ boot'.i = boot.i + 1 /\ boot'.piece = boot.piece
            /\ DOMAIN boot' = BootFields
        BY <4>1 DEF IInv, TypeOK, BootFields
      <4>3. TypeOK'
        BY <1>2, <3>2, <4>1, <4>2 DEF IInv, TypeOK
      <4>4. boot.piece = Chunks
        BY <1>2, <3>2, <3>4
      <4>5. \A j \in 1 .. Len(Archive) : j < boot.i + 1 => Whole(Archive[j])
        <5>1. ASSUME NEW j \in 1 .. Len(Archive), j < boot.i + 1 PROVE Whole(Archive[j])
          <6>1. CASE Archive[j] = f
            BY <3>1, <4>4, <6>1 DEF Whole, Exists
          <6>2. CASE Archive[j] # f
            <7>1. j < boot.i
              BY <3>1, <3>2, <5>1, <6>2
            <7>. QED BY <3>1, <3>2, <6>2, <7>1 DEF IInv, CopiedWhole
          <6>. QED BY <6>1, <6>2
        <5>. QED BY <5>1
      <4>6. CopiedWhole'
        BY <4>1, <4>2, <4>5 DEF CopiedWhole, Whole, Exists
      <4>. QED BY <4>3, <4>6
    <3>. QED BY <3>3, <3>4
  <2>3. CASE UntarEnd
    <3>1. /\ boot'.at = "fork" /\ boot'.i = 1 /\ boot'.piece = boot.piece /\ DOMAIN boot' = BootFields
          /\ unpacked' = TRUE /\ content' = content
      BY <2>3 DEF UntarEnd, IInv, TypeOK, BootFields
    <3>. QED BY <1>2, <3>1 DEF IInv, TypeOK, CopiedWhole
  <2>. QED BY <2>1, <2>2, <2>3
<1>. QED BY <1>3, <1>4, <1>5 DEF IInv

\* Somebody runs, so the boot has got to its forks.
LEMMA BootIsOver == ASSUME IInv, NEW p \in Slot, InUse(p) PROVE boot.at \in {"fork", "spin"}
BY UnusedFields DEF IInv, TypeOK, NobodyYet, InUse

\* A process that neither waits nor ends waiting goes on, on its terminal.
LEMMA LocalStep ==
    ASSUME IInv, NEW p \in Slot, InUse(p), ~Waits(p), NEW r,
           proc' = [proc EXCEPT ![p] = r],
           DOMAIN r = ProcFields, r.at \notin {"free", "wait"}, r.tty = proc[p].tty,
           boot' = boot, unpacked' = unpacked,
           content' = [f \in DOMAIN content' |-> content'[f]]
    PROVE  IInv'
<1>1. boot.at \in {"fork", "spin"}
  BY BootIsOver
<1>2. \A q \in Slot : proc'[q] = IF q = p THEN r ELSE proc[q]
  BY DEF IInv, TypeOK
<1>3. \A q \in Slot : (InUse(q)' <=> InUse(q)) /\ (Waits(q)' <=> Waits(q))
                     /\ proc'[q].tty = proc[q].tty /\ (Waits(q) => proc'[q] = proc[q])
                     /\ (~InUse(q) => proc'[q] = proc[q])
  BY <1>2 DEF InUse, Waits
<1>4. TypeOK'
  BY <1>2 DEF IInv, TypeOK
<1>5. NobodyYet' /\ CopiedWhole'
  BY <1>1 DEF NobodyYet, CopiedWhole
<1>6. ChildrenApart'
  <2>1. ASSUME NEW q \in Slot, Waits(q)'
        PROVE  /\ proc'[q].child \in Slot /\ proc'[q].child = proc[q].child /\ Waits(q)
               /\ proc'[proc'[q].child].at # "free" /\ proc'[proc'[q].child].tty = proc'[q].tty
    <3>1. Waits(q) /\ proc'[q] = proc[q]
      BY <1>3, <2>1
    <3>2. proc[q].child \in Slot /\ InUse(proc[q].child) /\ proc[proc[q].child].tty = proc[q].tty
      BY <3>1 DEF IInv, ChildrenApart
    <3>3. proc'[proc[q].child].at # "free" /\ proc'[proc[q].child].tty = proc[q].tty
      BY <1>3, <3>2 DEF InUse
    <3>. QED BY <3>1, <3>2, <3>3 DEF InUse
  <2>. QED BY <2>1 DEF IInv, ChildrenApart, InUse
<1>7. ChainEnds'
  BY <1>3 DEF IInv, ChainEnds
<1>8. ShellsForked'
  BY <1>1, <1>3 DEF IInv, ShellsForked
<1>. QED BY <1>4, <1>5, <1>6, <1>7, <1>8 DEF IInv

LEMMA ReadLineInv == ASSUME IInv, NEW p \in Slot, ReadLine(p) PROVE IInv'
<1>1. PICK line : proc' = [proc EXCEPT ![p].at = "commands", ![p].line = line,
                                       ![p].cmds = Parsed(line)]
  BY DEF ReadLine
<1>2. PICK c : c = Parsed(line)
  OBVIOUS
<1>3. PICK r : r = [[[proc[p] EXCEPT !.at = "commands"] EXCEPT !.line = line] EXCEPT !.cmds = c]
  OBVIOUS
<1>4. proc' = [proc EXCEPT ![p] = r]
  BY <1>1, <1>2, <1>3 DEF IInv, TypeOK, ProcFields
<1>5. DOMAIN r = ProcFields /\ r.at = "commands" /\ r.tty = proc[p].tty
  BY <1>3 DEF IInv, TypeOK, ProcFields
<1>6. proc[p].at = "prompt" /\ boot' = boot /\ unpacked' = unpacked /\ content' = content
  BY DEF ReadLine
<1>7. content' = [f \in DOMAIN content' |-> content'[f]]
  BY <1>6 DEF IInv, TypeOK
<1>8. InUse(p) /\ ~Waits(p)
  BY <1>6 DEF InUse, Waits
<1>. QED BY <1>4, <1>5, <1>6, <1>7, <1>8, LocalStep

LEMMA AllDoneInv == ASSUME IInv, NEW p \in Slot, AllDone(p) PROVE IInv'
<1>1. PICK r : r = [[proc[p] EXCEPT !.at = "prompt"] EXCEPT !.line = <<>>]
  OBVIOUS
<1>2. proc' = [proc EXCEPT ![p] = r]
  BY <1>1 DEF AllDone, IInv, TypeOK, ProcFields
<1>3. DOMAIN r = ProcFields /\ r.at = "prompt" /\ r.tty = proc[p].tty
  BY <1>1 DEF IInv, TypeOK, ProcFields
<1>4. proc[p].at = "commands" /\ boot' = boot /\ unpacked' = unpacked /\ content' = content
  BY DEF AllDone
<1>5. content' = [f \in DOMAIN content' |-> content'[f]]
  BY <1>4 DEF IInv, TypeOK
<1>6. InUse(p) /\ ~Waits(p)
  BY <1>4 DEF InUse, Waits
<1>. QED BY <1>2, <1>3, <1>4, <1>5, <1>6, LocalStep

LEMMA SkipCommandInv == ASSUME IInv, NEW p \in Slot, SkipCommand(p) PROVE IInv'
<1>1. PICK c : c = Skipped(p)
  OBVIOUS
<1>2. PICK r : r = [[proc[p] EXCEPT !.cmds = c] EXCEPT !.line = <<>>]
  OBVIOUS
<1>3. proc' = [proc EXCEPT ![p] = r]
  BY <1>1, <1>2 DEF SkipCommand, IInv, TypeOK, ProcFields
<1>4. proc[p].at = "commands"
  BY DEF SkipCommand
<1>5. DOMAIN r = ProcFields /\ r.at = "commands" /\ r.tty = proc[p].tty
  BY <1>2, <1>4 DEF IInv, TypeOK, ProcFields
<1>6. proc[p].at = "commands" /\ boot' = boot /\ unpacked' = unpacked /\ content' = content
  BY DEF SkipCommand
<1>7. content' = [f \in DOMAIN content' |-> content'[f]]
  BY <1>6 DEF IInv, TypeOK
<1>8. InUse(p) /\ ~Waits(p)
  BY <1>6 DEF InUse, Waits
<1>. QED BY <1>3, <1>4, <1>5, <1>6, <1>7, <1>8, LocalStep

LEMMA ForkSpinsInv == ASSUME IInv, NEW p \in Slot, ForkSpins(p) PROVE IInv'
<1>1. PICK r : r = [[[proc[p] EXCEPT !.at = "spin"] EXCEPT !.line = <<>>] EXCEPT !.cmds = <<>>]
  OBVIOUS
<1>2. proc' = [proc EXCEPT ![p] = r]
  BY <1>1 DEF ForkSpins, IInv, TypeOK, ProcFields
<1>3. DOMAIN r = ProcFields /\ r.at = "spin" /\ r.tty = proc[p].tty
  BY <1>1 DEF IInv, TypeOK, ProcFields
<1>4. proc[p].at = "commands" /\ boot' = boot /\ unpacked' = unpacked /\ content' = content
  BY DEF ForkSpins
<1>5. content' = [f \in DOMAIN content' |-> content'[f]]
  BY <1>4 DEF IInv, TypeOK
<1>6. InUse(p) /\ ~Waits(p)
  BY <1>4 DEF InUse, Waits
<1>. QED BY <1>2, <1>3, <1>4, <1>5, <1>6, LocalStep

LEMMA ExecInv == ASSUME IInv, NEW p \in Slot, Exec(p) PROVE IInv'
<1>1. PICK c, w : /\ proc' = [proc EXCEPT ![p].at = w, ![p].cmds = c]
                  /\ w \in {"program", "commands"}
  <2>1. CASE Runs(p)
    <3>1. proc' = [proc EXCEPT ![p].at = "program", ![p].cmds = <<Head(@)>>]
      BY <2>1 DEF Exec
    <3>2. proc' = [proc EXCEPT ![p].at = "program", ![p].cmds = <<Head(proc[p].cmds)>>]
      BY <3>1 DEF IInv, TypeOK, ProcFields
    <3>. QED BY <3>2
  <2>2. CASE ~Runs(p)
    <3>1. proc' = [proc EXCEPT ![p].at = "commands", ![p].cmds = Tail(@)]
      BY <2>2 DEF Exec
    <3>2. proc' = [proc EXCEPT ![p].at = "commands", ![p].cmds = Tail(proc[p].cmds)]
      BY <3>1 DEF IInv, TypeOK, ProcFields
    <3>. QED BY <3>2
  <2>. QED BY <2>1, <2>2
<1>2. PICK r : r = [[proc[p] EXCEPT !.at = w] EXCEPT !.cmds = c]
  OBVIOUS
<1>3. proc' = [proc EXCEPT ![p] = r]
  BY <1>1, <1>2 DEF IInv, TypeOK, ProcFields
<1>4. DOMAIN r = ProcFields /\ r.at \in {"program", "commands"} /\ r.tty = proc[p].tty
  BY <1>1, <1>2 DEF IInv, TypeOK, ProcFields
<1>5. proc[p].at = "exec" /\ boot' = boot /\ unpacked' = unpacked /\ content' = content
  BY DEF Exec
<1>6. content' = [f \in DOMAIN content' |-> content'[f]]
  BY <1>5 DEF IInv, TypeOK
<1>7. InUse(p) /\ ~Waits(p)
  BY <1>5 DEF InUse, Waits
<1>. QED BY <1>3, <1>4, <1>5, <1>6, <1>7, LocalStep

LEMMA RunProgramInv == ASSUME IInv, NEW p \in Slot, RunProgram(p) PROVE IInv'
<1>1. proc[p].at = "program" /\ proc' = [proc EXCEPT ![p].at = "zombie"]
      /\ unpacked' = unpacked /\ boot' = boot
  BY DEF RunProgram
<1>2. content' = [f \in DOMAIN content' |-> content'[f]]
  BY DEF RunProgram, IInv, TypeOK
<1>3. PICK r : r = [proc[p] EXCEPT !.at = "zombie"]
  OBVIOUS
<1>4. proc' = [proc EXCEPT ![p] = r]
  BY <1>1, <1>3 DEF IInv, TypeOK, ProcFields
<1>5. DOMAIN r = ProcFields /\ r.at = "zombie" /\ r.tty = proc[p].tty
  BY <1>3 DEF IInv, TypeOK, ProcFields
<1>. QED BY <1>1, <1>2, <1>4, <1>5, LocalStep DEF InUse, Waits

LEMMA StartShellInv == ASSUME IInv, StartShell PROVE IInv'
<1>1. /\ boot.at = "fork" /\ boot.i <= Len(Terminals) /\ boot.i \in Nat \ {0}
      /\ unpacked' = unpacked /\ content' = content /\ Len(Terminals) \in Nat
  BY DEF StartShell, IInv, TypeOK
<1>2. CASE Free # {}
  <2>1. PICK p \in Slot : p = Min(Free) /\ proc[p].at = "free"
    BY <1>2, MinIsFree DEF Free
  <2>2. PICK r : r = [[Unused EXCEPT !.at = "prompt"] EXCEPT !.tty = Terminals[boot.i]]
    OBVIOUS
  <2>3. r.at = "prompt" /\ r.tty = Terminals[boot.i] /\ DOMAIN r = ProcFields
    BY <2>2 DEF Unused, ProcFields
  <2>4. proc' = [proc EXCEPT ![p] = r] /\ boot' = [boot EXCEPT !.i = @ + 1]
    BY <1>2, <2>1, <2>2 DEF StartShell, Unused
  <2>5. /\ boot'.at = "fork" /\ boot'.i = boot.i + 1 /\ boot'.piece = boot.piece
        /\ DOMAIN boot' = BootFields
    BY <1>1, <2>4 DEF IInv, TypeOK, BootFields
  <2>6. \A q \in Slot : proc'[q] = IF q = p THEN r ELSE proc[q]
    BY <2>4 DEF IInv, TypeOK
  <2>7. \A q \in Slot : /\ InUse(q)' <=> InUse(q) \/ q = p
                        /\ Waits(q)' <=> Waits(q)
                        /\ (q # p => proc'[q] = proc[q])
    BY <2>1, <2>3, <2>6 DEF InUse, Waits
  <2>8. ~InUse(p) /\ ~Waits(p) /\ proc'[p] = r
    BY <2>1, <2>6 DEF InUse, Waits
  <2>9. \A q \in Slot : InUse(q) => proc[q].tty # Terminals[boot.i]
    <3>1. ASSUME NEW q \in Slot, InUse(q) PROVE proc[q].tty # Terminals[boot.i]
      <4>1. PICK j \in 1 .. Len(Terminals) : j < boot.i /\ proc[q].tty = Terminals[j]
        BY <1>1, <3>1 DEF IInv, ShellsForked
      <4>2. boot.i \in 1 .. Len(Terminals) /\ j # boot.i
        BY <1>1, <4>1
      <4>. QED BY <4>1, <4>2, ShellAssumption
    <3>. QED BY <3>1
  <2>10. TypeOK'
    <3>1. boot'.i \in Nat \ {0} /\ boot'.piece \in Nat
      BY <1>1, <2>5 DEF IInv, TypeOK
    <3>2. proc' = [q \in Slot |-> proc'[q]] /\ \A q \in Slot : DOMAIN proc'[q] = ProcFields
      BY <2>3, <2>4, <2>6 DEF IInv, TypeOK
    <3>. QED BY <1>1, <2>5, <3>1, <3>2 DEF IInv, TypeOK
  <2>11. NobodyYet' /\ CopiedWhole'
    BY <2>5 DEF NobodyYet, CopiedWhole
  <2>12. ChildrenApart'
    <3>1. ASSUME NEW q \in Slot, Waits(q)'
          PROVE  /\ Waits(q) /\ proc'[q] = proc[q] /\ proc[q].child \in Slot
                 /\ proc'[proc[q].child].at # "free"
                 /\ proc'[proc[q].child].tty = proc[q].tty
      <4>1. Waits(q) /\ proc'[q] = proc[q]
        BY <2>7, <2>8, <3>1
      <4>2. proc[q].child \in Slot /\ InUse(proc[q].child) /\ proc[proc[q].child].tty = proc[q].tty
        BY <4>1 DEF IInv, ChildrenApart
      <4>3. proc'[proc[q].child] = proc[proc[q].child]
        BY <2>7, <2>8, <4>2
      <4>. QED BY <4>1, <4>2, <4>3 DEF InUse
    <3>. QED BY <3>1 DEF IInv, ChildrenApart, InUse
  <2>13. ChainEnds'
    <3>1. ASSUME NEW x \in Slot, NEW y \in Slot,
                 InUse(x)', ~Waits(x)', InUse(y)', ~Waits(y)', proc'[x].tty = proc'[y].tty
          PROVE  x = y
      <4>1. CASE x # p /\ y # p
        BY <2>7, <3>1, <4>1 DEF IInv, ChainEnds
      <4>2. CASE x = p /\ y # p
        BY <2>3, <2>7, <2>8, <2>9, <3>1, <4>2
      <4>3. CASE x # p /\ y = p
        BY <2>3, <2>7, <2>8, <2>9, <3>1, <4>3
      <4>. QED BY <4>1, <4>2, <4>3
    <3>. QED BY <3>1 DEF ChainEnds
  <2>14. ShellsForked'
    <3>1. ASSUME NEW q \in Slot, InUse(q)'
          PROVE  \E j \in 1 .. Len(Terminals) : j < boot'.i /\ proc'[q].tty = Terminals[j]
      <4>1. CASE q = p
        <5>1. boot.i \in 1 .. Len(Terminals) /\ boot.i < boot'.i
          BY <1>1, <2>5
        <5>. QED BY <2>3, <2>8, <4>1, <5>1
      <4>2. CASE q # p
        <5>1. PICK j \in 1 .. Len(Terminals) : j < boot.i /\ proc[q].tty = Terminals[j]
          BY <1>1, <2>7, <3>1, <4>2 DEF IInv, ShellsForked
        <5>2. j < boot'.i
          BY <1>1, <2>5, <5>1
        <5>. QED BY <2>7, <4>2, <5>1, <5>2
      <4>. QED BY <4>1, <4>2
    <3>2. \A q \in Slot : ~InUse(q)' => proc'[q] = Unused
      BY <2>7, <2>8 DEF IInv, ShellsForked
    <3>. QED BY <3>1, <3>2 DEF ShellsForked
  <2>. QED BY <2>10, <2>11, <2>12, <2>13, <2>14 DEF IInv
<1>3. CASE Free = {}
  <2>1. proc' = proc /\ boot' = [boot EXCEPT !.at = "spin"]
    BY <1>3 DEF StartShell
  <2>2. /\ boot'.at = "spin" /\ boot'.i = boot.i /\ boot'.piece = boot.piece
        /\ DOMAIN boot' = BootFields
    BY <2>1 DEF IInv, TypeOK, BootFields
  <2>3. TypeOK'
    BY <1>1, <2>1, <2>2 DEF IInv, TypeOK
  <2>4. (NobodyYet /\ CopiedWhole)'
    BY <2>2 DEF NobodyYet, CopiedWhole
  <2>5. (ChildrenApart /\ ChainEnds)'
    BY <2>1 DEF IInv, ChildrenApart, ChainEnds, InUse, Waits
  <2>6. ShellsForked'
    BY <1>1, <2>1, <2>2 DEF IInv, ShellsForked, InUse
  <2>. QED BY <2>3, <2>4, <2>5, <2>6 DEF IInv
<1>. QED BY <1>2, <1>3

LEMMA RunCommandInv == ASSUME IInv, NEW p \in Slot, RunCommand(p) PROVE IInv'
<1>1. /\ proc[p].at = "commands" /\ Free # {}
      /\ boot' = boot /\ unpacked' = unpacked /\ content' = content
  BY DEF RunCommand
<1>2. PICK c \in Slot : c = Min(Free) /\ proc[c].at = "free"
  BY <1>1, MinIsFree DEF Free
<1>3. PICK tl : tl = Tail(proc[p].cmds)
  OBVIOUS
<1>4. PICK r : r = [[[[proc[p] EXCEPT !.at = "wait"] EXCEPT !.line = <<>>]
                         EXCEPT !.cmds = tl] EXCEPT !.child = c]
  OBVIOUS
<1>5. PICK s : s = [[proc[p] EXCEPT !.at = "exec"] EXCEPT !.line = <<>>]
  OBVIOUS
<1>6. r.at = "wait" /\ r.child = c /\ r.tty = proc[p].tty /\ DOMAIN r = ProcFields
  BY <1>4 DEF IInv, TypeOK, ProcFields
<1>7. s.at = "exec" /\ s.tty = proc[p].tty /\ DOMAIN s = ProcFields
  BY <1>5 DEF IInv, TypeOK, ProcFields
<1>8. r = AfterFork(p, c)
  BY <1>3, <1>4 DEF AfterFork, IInv, TypeOK, ProcFields
<1>9. s = [proc[p] EXCEPT !.at = "exec", !.line = <<>>]
  BY <1>5
<1>10. proc' = [proc EXCEPT ![p] = r, ![c] = s]
  BY <1>2, <1>8, <1>9 DEF RunCommand
<1>11. p # c /\ InUse(p) /\ ~Waits(p) /\ ~InUse(c) /\ ~Waits(c)
  BY <1>1, <1>2 DEF InUse, Waits
<1>12. proc'[p] = r /\ proc'[c] = s /\ \A q \in Slot : q # p /\ q # c => proc'[q] = proc[q]
  BY <1>10, <1>11 DEF IInv, TypeOK
<1>13. boot.at \in {"fork", "spin"}
  BY <1>11, BootIsOver
<1>14. \A q \in Slot : /\ InUse(q)' <=> InUse(q) \/ q = c
                       /\ Waits(q)' <=> Waits(q) \/ q = p
  BY <1>6, <1>7, <1>11, <1>12 DEF InUse, Waits
<1>15. \A q \in Slot : q # c => proc'[q].tty = proc[q].tty
  BY <1>6, <1>12
<1>16. TypeOK'
  <2>1. proc' = [q \in Slot |-> proc'[q]] /\ \A q \in Slot : DOMAIN proc'[q] = ProcFields
    BY <1>6, <1>7, <1>10, <1>12 DEF IInv, TypeOK
  <2>. QED BY <1>1, <2>1 DEF IInv, TypeOK
<1>17. NobodyYet' /\ CopiedWhole'
  BY <1>1, <1>13 DEF NobodyYet, CopiedWhole
<1>18. ChildrenApart'
  <2>1. ASSUME NEW q \in Slot, Waits(q), q # p
        PROVE  /\ proc'[q] = proc[q] /\ proc[q].child \in Slot /\ proc[q].child # c
               /\ proc'[proc[q].child].at # "free"
               /\ proc'[proc[q].child].tty = proc[q].tty
    <3>1. proc'[q] = proc[q]
      BY <1>11, <1>12, <2>1
    <3>2. proc[q].child \in Slot /\ InUse(proc[q].child) /\ proc[proc[q].child].tty = proc[q].tty
      BY <2>1 DEF IInv, ChildrenApart
    <3>3. proc[q].child # c
      BY <1>11, <3>2
    <3>4. InUse(proc[q].child) => proc'[proc[q].child].at # "free"
      BY <1>14, <3>2 DEF InUse
    <3>. QED BY <1>15, <3>1, <3>2, <3>3, <3>4
  <2>2. /\ proc'[p].child = c /\ proc'[c].at # "free" /\ proc'[c].tty = proc'[p].tty
    BY <1>6, <1>7, <1>12
  <2>3. ASSUME NEW q \in Slot, Waits(q)'
        PROVE  /\ proc'[q].child \in Slot /\ proc'[proc'[q].child].at # "free"
               /\ proc'[proc'[q].child].tty = proc'[q].tty
    BY <1>14, <2>1, <2>2, <2>3
  <2>4. ASSUME NEW x \in Slot, NEW y \in Slot, Waits(x)', Waits(y)',
               proc'[x].child = proc'[y].child
        PROVE  x = y
    <3>1. CASE x = p /\ y # p
      BY <1>14, <2>1, <2>2, <2>4, <3>1
    <3>2. CASE x # p /\ y = p
      BY <1>14, <2>1, <2>2, <2>4, <3>2
    <3>3. CASE x # p /\ y # p
      BY <1>14, <2>1, <2>4, <3>3 DEF IInv, ChildrenApart
    <3>. QED BY <3>1, <3>2, <3>3
  <2>. QED BY <2>3, <2>4 DEF ChildrenApart, InUse
<1>19. ChainEnds'
  <2>1. ASSUME NEW x \in Slot, NEW y \in Slot,
               InUse(x)', ~Waits(x)', InUse(y)', ~Waits(y)', proc'[x].tty = proc'[y].tty
        PROVE  x = y
    <3>1. \A q \in Slot : InUse(q) /\ ~Waits(q) /\ proc[q].tty = proc[p].tty => q = p
      BY <1>11 DEF IInv, ChainEnds
    <3>2. x # p /\ y # p
      BY <1>14, <2>1
    <3>3. CASE x = c /\ y # c
      BY <1>7, <1>12, <1>14, <1>15, <2>1, <3>1, <3>2, <3>3
    <3>4. CASE x # c /\ y = c
      BY <1>7, <1>12, <1>14, <1>15, <2>1, <3>1, <3>2, <3>4
    <3>5. CASE x # c /\ y # c
      BY <1>14, <1>15, <2>1, <3>5 DEF IInv, ChainEnds
    <3>. QED BY <3>3, <3>4, <3>5
  <2>. QED BY <2>1 DEF ChainEnds
<1>20. ShellsForked'
  <2>1. ASSUME NEW q \in Slot, InUse(q)'
        PROVE  \E j \in 1 .. Len(Terminals) : j < boot'.i /\ proc'[q].tty = Terminals[j]
    <3>1. PICK o \in Slot : InUse(o) /\ proc'[q].tty = proc[o].tty
      BY <1>7, <1>11, <1>12, <1>14, <1>15, <2>1
    <3>. QED BY <1>1, <1>13, <3>1 DEF IInv, ShellsForked
  <2>2. \A q \in Slot : ~InUse(q)' => proc'[q] = Unused
    BY <1>11, <1>12, <1>14 DEF IInv, ShellsForked
  <2>. QED BY <2>1, <2>2 DEF ShellsForked
<1>. QED BY <1>16, <1>17, <1>18, <1>19, <1>20 DEF IInv

LEMMA WaitReturnsInv == ASSUME IInv, NEW p \in Slot, WaitReturns(p) PROVE IInv'
<1>1. /\ Waits(p) /\ proc[proc[p].child].at = "zombie"
      /\ boot' = boot /\ unpacked' = unpacked /\ content' = content
  BY DEF WaitReturns, Waits
<1>2. PICK c \in Slot : c = proc[p].child /\ proc[c].at = "zombie" /\ proc[c].tty = proc[p].tty
  BY <1>1 DEF IInv, ChildrenApart
<1>3. PICK r : r = [[proc[p] EXCEPT !.at = "commands"] EXCEPT !.child = 0]
  OBVIOUS
<1>4. r.at = "commands" /\ r.tty = proc[p].tty /\ DOMAIN r = ProcFields
  BY <1>3 DEF IInv, TypeOK, ProcFields
<1>5. proc' = [proc EXCEPT ![p] = r, ![c] = Unused]
  BY <1>2, <1>3 DEF WaitReturns, IInv, TypeOK, ProcFields
<1>6. p # c /\ InUse(p) /\ InUse(c) /\ ~Waits(c)
  BY <1>1, <1>2 DEF InUse, Waits
<1>7. proc'[p] = r /\ proc'[c] = Unused /\ \A q \in Slot : q # p /\ q # c => proc'[q] = proc[q]
  BY <1>5, <1>6 DEF IInv, TypeOK
<1>8. boot.at \in {"fork", "spin"}
  BY <1>6, BootIsOver
<1>9. \A q \in Slot : /\ InUse(q)' <=> InUse(q) /\ q # c
                      /\ Waits(q)' <=> Waits(q) /\ q # p
                      /\ (q # c => proc'[q].tty = proc[q].tty)
  BY <1>4, <1>6, <1>7, UnusedFields DEF InUse, Waits
<1>10. TypeOK'
  <2>1. proc' = [q \in Slot |-> proc'[q]] /\ \A q \in Slot : DOMAIN proc'[q] = ProcFields
    BY <1>4, <1>5, <1>7, UnusedFields DEF IInv, TypeOK
  <2>. QED BY <1>1, <2>1 DEF IInv, TypeOK
<1>11. NobodyYet' /\ CopiedWhole'
  BY <1>1, <1>8 DEF NobodyYet, CopiedWhole
<1>12. ChildrenApart'
  <2>1. ASSUME NEW q \in Slot, Waits(q)'
        PROVE  /\ Waits(q) /\ proc'[q] = proc[q] /\ proc[q].child \in Slot
               /\ proc'[proc[q].child].at # "free"
               /\ proc'[proc[q].child].tty = proc[q].tty
    <3>1. Waits(q) /\ proc'[q] = proc[q] /\ q # p
      BY <1>6, <1>7, <1>9, <2>1
    <3>2. proc[q].child \in Slot /\ InUse(proc[q].child) /\ proc[proc[q].child].tty = proc[q].tty
      BY <3>1 DEF IInv, ChildrenApart
    <3>3. proc[q].child # c
      BY <1>1, <1>2, <3>1 DEF IInv, ChildrenApart
    <3>4. proc'[proc[q].child].at # "free"
      BY <1>9, <3>2, <3>3 DEF InUse
    <3>. QED BY <1>9, <3>1, <3>2, <3>3, <3>4
  <2>2. ASSUME NEW q \in Slot, Waits(q)'
        PROVE  /\ proc'[q].child \in Slot /\ proc'[proc'[q].child].at # "free"
               /\ proc'[proc'[q].child].tty = proc'[q].tty
    BY <2>1, <2>2
  <2>3. ASSUME NEW x \in Slot, NEW y \in Slot, Waits(x)', Waits(y)',
               proc'[x].child = proc'[y].child
        PROVE  x = y
    BY <2>1, <2>3 DEF IInv, ChildrenApart
  <2>. QED BY <2>2, <2>3 DEF ChildrenApart, InUse
<1>13. ChainEnds'
  <2>1. ASSUME NEW x \in Slot, NEW y \in Slot,
               InUse(x)', ~Waits(x)', InUse(y)', ~Waits(y)', proc'[x].tty = proc'[y].tty
        PROVE  x = y
    <3>1. \A q \in Slot : InUse(q) /\ ~Waits(q) /\ proc[q].tty = proc[p].tty => q = c
      BY <1>2, <1>6 DEF IInv, ChainEnds
    <3>2. x # c /\ y # c /\ proc[x].tty = proc[y].tty /\ InUse(x) /\ InUse(y)
      BY <1>9, <2>1
    <3>3. CASE x = p /\ y # p
      BY <1>9, <2>1, <3>1, <3>2, <3>3
    <3>4. CASE x # p /\ y = p
      BY <1>9, <2>1, <3>1, <3>2, <3>4
    <3>5. CASE x # p /\ y # p
      BY <1>9, <2>1, <3>2, <3>5 DEF IInv, ChainEnds
    <3>. QED BY <3>3, <3>4, <3>5
  <2>. QED BY <2>1 DEF ChainEnds
<1>14. ShellsForked'
  <2>1. \A q \in Slot : ~InUse(q)' => proc'[q] = Unused
    BY <1>6, <1>7, <1>9 DEF IInv, ShellsForked
  <2>2. ASSUME NEW q \in Slot, InUse(q)'
        PROVE  \E j \in 1 .. Len(Terminals) : j < boot'.i /\ proc'[q].tty = Terminals[j]
    BY <1>1, <1>8, <1>9, <2>2 DEF IInv, ShellsForked
  <2>. QED BY <2>1, <2>2 DEF ShellsForked
<1>. QED BY <1>10, <1>11, <1>12, <1>13, <1>14 DEF IInv

LEMMA CrashInv == ASSUME IInv, Crash PROVE IInv'
<1>1. /\ \A p \in Slot : proc'[p] = Unused
      /\ proc' = [p \in Slot |-> proc'[p]]
      /\ content' = content /\ unpacked' = unpacked
      /\ boot'.at = "untar" /\ boot'.i = 1 /\ boot'.piece = 0 /\ DOMAIN boot' = BootFields
  BY DEF Crash, Booting, BootFields
<1>2. \A p \in Slot : ~InUse(p)' /\ ~Waits(p)' /\ DOMAIN proc'[p] = ProcFields
  BY <1>1, UnusedFields DEF InUse, Waits
<1>3. TypeOK'
  <2>1. boot'.i \in Nat \ {0} /\ boot'.piece \in Nat
    BY <1>1
  <2>. QED BY <1>1, <1>2, <2>1 DEF IInv, TypeOK
<1>4. NobodyYet' /\ CopiedWhole'
  BY <1>1 DEF NobodyYet, CopiedWhole
<1>5. ChildrenApart' /\ ChainEnds'
  BY <1>2 DEF ChildrenApart, ChainEnds
<1>6. ShellsForked'
  BY <1>1 DEF ShellsForked
<1>. QED BY <1>3, <1>4, <1>5, <1>6 DEF IInv

LEMMA NextInv == IInv /\ [Next]_vars => IInv'
<1>. SUFFICES ASSUME IInv, [Next]_vars PROVE IInv'
  OBVIOUS
<1>1. CASE Boot
  BY <1>1, UntarInv, StartShellInv DEF Boot
<1>2. ASSUME NEW p \in Slot, ReadLine(p) \/ Run(p) PROVE IInv'
  BY <1>2, ReadLineInv, AllDoneInv, SkipCommandInv, RunCommandInv, ForkSpinsInv, ExecInv,
     RunProgramInv, WaitReturnsInv DEF Run
<1>3. CASE Crash
  BY <1>3, CrashInv
<1>4. CASE UNCHANGED vars
  <2>1. content' = content /\ unpacked' = unpacked /\ boot' = boot /\ proc' = proc
    BY <1>4 DEF vars
  <2>2. TypeOK'
    BY <2>1 DEF IInv, TypeOK
  <2>3. (NobodyYet /\ CopiedWhole)'
    BY <2>1 DEF IInv, NobodyYet, CopiedWhole, Whole, Exists
  <2>4. (ChildrenApart /\ ChainEnds /\ ShellsForked)'
    BY <2>1 DEF IInv, ChildrenApart, ChainEnds, ShellsForked, InUse, Waits
  <2>. QED BY <2>2, <2>3, <2>4 DEF IInv
<1>. QED BY <1>1, <1>2, <1>3, <1>4 DEF Next

\* The invariant of Init(), the shells and their children, whatever the users type and
\* however often the power fails (main.c, Init, untar and shabby_shell).
THEOREM Invariance == Spec => []IInv
BY InitInv, NextInv, PTL DEF Spec

\* The processes of a terminal take turns: at most one of them does not wait for another,
\* also when a child whose exec failed goes on as a shell (main.c, shabby_shell).
THEOREM ShellsTakeTurns == Spec => []OneActive
<1>1. IInv => OneActive
  <2>. SUFFICES ASSUME IInv, NEW t \in ToSet(Terminals)
                PROVE  Cardinality({p \in Slot : /\ proc[p].tty = t
                            /\ proc[p].at \notin {"free", "wait", "zombie"}}) <= 1
    BY DEF OneActive
  <2>. DEFINE A == {p \in Slot : /\ proc[p].tty = t
                                 /\ proc[p].at \notin {"free", "wait", "zombie"}}
  <2>1. \A p, q \in A : p = q
    BY DEF IInv, ChainEnds, InUse, Waits
  <2>. HIDE DEF A
  <2>2. ASSUME A = {} PROVE Cardinality(A) = 0
    BY <2>2, FS_EmptySet
  <2>3. ASSUME A # {} PROVE Cardinality(A) = 1
    <3>1. PICK p : p \in A
      BY <2>3
    <3>2. A = {p}
      BY <2>1, <3>1
    <3>. QED BY <3>2, FS_Singleton
  <2>4. Cardinality(A) <= 1
    BY <2>2, <2>3
  <2>. QED BY <2>4 DEF A
<1>. QED BY <1>1, Invariance, PTL

\* cmd.tar is marked as unpacked only when all its files are on the disk to their ends,
\* also after the power failed in the middle of an earlier try (main.c, untar).
THEOREM MarkedWhenWhole == Spec => ExtractedWhole
<1>1. ASSUME IInv, [Next]_vars
      PROVE  [unpacked' # unpacked => \A i \in 1 .. Len(Archive) :
                 Exists(Archive[i]) /\ content[Archive[i]] = Chunks]_vars
  <2>. SUFFICES ASSUME Next, unpacked' # unpacked, NEW i \in 1 .. Len(Archive)
                PROVE  Exists(Archive[i]) /\ content[Archive[i]] = Chunks
    BY <1>1 DEF vars
  <2>1. UntarEnd
    BY DEF Next, Boot, Run, UntarOpen, UntarCopy, StartShell, ReadLine, AllDone, SkipCommand,
           RunCommand, ForkSpins, Exec, RunProgram, WaitReturns, Crash
  <2>2. ~unpacked
    BY <1>1, <2>1, Zenon DEF UntarEnd, IInv, TypeOK
  <2>3. boot.at = "untar" /\ boot.i > Len(Archive) /\ boot.i \in Nat /\ Len(Archive) \in Nat
    BY <1>1, <2>2, <2>1 DEF UntarEnd, IInv, TypeOK
  <2>4. i < boot.i
    BY <2>3
  <2>. QED BY <1>1, <2>3, <2>4 DEF IInv, CopiedWhole, Whole
<1>. QED BY <1>1, Invariance, PTL DEF Spec, ExtractedWhole
-----------------------------------------------------------------------------
(* The lines that shells are in *)

\* A line is there only until its first command has run or was skipped.
LineOK(r) ==
    r.line # <<>> => r.at = "commands" /\ r.line \in Seq(LineChars) /\ r.cmds = Parsed(r.line)

LinesInv == \A q \in Slot : LineOK(proc[q])

LEMMA LineStep ==
    ASSUME IInv, LinesInv, NEW p \in Slot, NEW r, proc' = [proc EXCEPT ![p] = r], LineOK(r)
    PROVE  LinesInv'
<1>1. \A q \in Slot : proc'[q] = IF q = p THEN r ELSE proc[q]
  BY DEF IInv, TypeOK
<1>2. ASSUME NEW q \in Slot PROVE LineOK(proc'[q])
  <2>1. proc'[q] = r \/ proc'[q] = proc[q]
    BY <1>1
  <2>. QED BY <2>1 DEF LinesInv
<1>. QED BY <1>2 DEF LinesInv

LEMMA ReadLineLines == ASSUME IInv, LinesInv, NEW p \in Slot, ReadLine(p) PROVE LinesInv'
<1>1. PICK line \in LinesOf[proc[p].tty] :
          proc' = [proc EXCEPT ![p].at = "commands", ![p].line = line, ![p].cmds = Parsed(line)]
  BY DEF ReadLine
<1>2. line \in Seq(LineChars)
  <2>1. InUse(p)
    BY DEF ReadLine, InUse
  <2>2. PICK j \in 1 .. Len(Terminals) : proc[p].tty = Terminals[j]
    BY <2>1, BootIsOver DEF IInv, ShellsForked
  <2>3. proc[p].tty \in ToSet(Terminals)
    BY <2>2, TerminalsAreListed, ElementOfSeq
  <2>4. LinesOf[proc[p].tty] \subseteq Seq(LineChars)
    BY <2>3 DEF LineChars
  <2>. QED BY <2>4
<1>3. PICK c : c = Parsed(line)
  OBVIOUS
<1>4. PICK r : r = [[[proc[p] EXCEPT !.at = "commands"] EXCEPT !.line = line] EXCEPT !.cmds = c]
  OBVIOUS
<1>5. proc' = [proc EXCEPT ![p] = r]
  BY <1>1, <1>3, <1>4 DEF IInv, TypeOK, ProcFields
<1>6. r.at = "commands" /\ r.line = line /\ r.cmds = c
  BY <1>4 DEF IInv, TypeOK, ProcFields
<1>7. LineOK(r)
  BY <1>2, <1>3, <1>6 DEF LineOK
<1>. QED BY <1>5, <1>7, LineStep

LEMMA ClearedLines ==
    ASSUME IInv, LinesInv, NEW p \in Slot, AllDone(p) \/ SkipCommand(p) \/ ForkSpins(p)
    PROVE  LinesInv'
<1>1. PICK r : proc' = [proc EXCEPT ![p] = r] /\ r.line = <<>>
  <2>1. CASE AllDone(p)
    <3>1. PICK r : r = [[proc[p] EXCEPT !.at = "prompt"] EXCEPT !.line = <<>>]
      OBVIOUS
    <3>2. proc' = [proc EXCEPT ![p] = r]
      BY <2>1, <3>1 DEF AllDone, IInv, TypeOK, ProcFields
    <3>3. r.line = <<>>
      BY <3>1 DEF IInv, TypeOK, ProcFields
    <3>. QED BY <3>2, <3>3
  <2>2. CASE SkipCommand(p)
    <3>1. PICK c, r : c = Skipped(p) /\ r = [[proc[p] EXCEPT !.cmds = c] EXCEPT !.line = <<>>]
      OBVIOUS
    <3>2. proc' = [proc EXCEPT ![p] = r]
      BY <2>2, <3>1 DEF SkipCommand, IInv, TypeOK, ProcFields
    <3>3. r.line = <<>>
      BY <3>1 DEF IInv, TypeOK, ProcFields
    <3>. QED BY <3>2, <3>3
  <2>3. CASE ForkSpins(p)
    <3>1. PICK r : r = [[[proc[p] EXCEPT !.at = "spin"] EXCEPT !.line = <<>>] EXCEPT !.cmds = <<>>]
      OBVIOUS
    <3>2. proc' = [proc EXCEPT ![p] = r]
      BY <2>3, <3>1 DEF ForkSpins, IInv, TypeOK, ProcFields
    <3>3. r.line = <<>>
      BY <3>1 DEF IInv, TypeOK, ProcFields
    <3>. QED BY <3>2, <3>3
  <2>. QED BY <2>1, <2>2, <2>3
<1>2. LineOK(r)
  BY <1>1 DEF LineOK
<1>. QED BY <1>1, <1>2, LineStep

\* A child has no line of its own.
LEMMA ChildLines ==
    ASSUME IInv, LinesInv, NEW p \in Slot, Exec(p) \/ RunProgram(p)
    PROVE  LinesInv'
<1>1. proc[p].line = <<>>
  BY DEF LinesInv, LineOK, Exec, RunProgram
<1>2. PICK c, w : proc' = [proc EXCEPT ![p].at = w, ![p].cmds = c]
  <2>1. CASE Exec(p) /\ Runs(p)
    <3>1. proc' = [proc EXCEPT ![p].at = "program", ![p].cmds = <<Head(@)>>]
      BY <2>1 DEF Exec
    <3>2. proc' = [proc EXCEPT ![p].at = "program", ![p].cmds = <<Head(proc[p].cmds)>>]
      BY <3>1 DEF IInv, TypeOK, ProcFields
    <3>. QED BY <3>2
  <2>2. CASE Exec(p) /\ ~Runs(p)
    <3>1. proc' = [proc EXCEPT ![p].at = "commands", ![p].cmds = Tail(@)]
      BY <2>2 DEF Exec
    <3>2. proc' = [proc EXCEPT ![p].at = "commands", ![p].cmds = Tail(proc[p].cmds)]
      BY <3>1 DEF IInv, TypeOK, ProcFields
    <3>. QED BY <3>2
  <2>3. CASE RunProgram(p)
    <3>1. proc' = [proc EXCEPT ![p].at = "zombie"]
      BY <2>3 DEF RunProgram
    <3>2. proc' = [proc EXCEPT ![p].at = "zombie", ![p].cmds = proc[p].cmds]
      BY <3>1 DEF IInv, TypeOK, ProcFields
    <3>. QED BY <3>2
  <2>. QED BY <2>1, <2>2, <2>3
<1>3. PICK r : r = [[proc[p] EXCEPT !.at = w] EXCEPT !.cmds = c]
  OBVIOUS
<1>4. proc' = [proc EXCEPT ![p] = r] /\ r.line = proc[p].line
  BY <1>2, <1>3 DEF IInv, TypeOK, ProcFields
<1>5. LineOK(r)
  BY <1>1, <1>4 DEF LineOK
<1>. QED BY <1>4, <1>5, LineStep

LEMMA RunCommandLines == ASSUME IInv, LinesInv, NEW p \in Slot, RunCommand(p) PROVE LinesInv'
<1>1. PICK c \in Slot : c = Min(Free)
  BY MinIsFree DEF RunCommand, Free
<1>2. PICK tl : tl = Tail(proc[p].cmds)
  OBVIOUS
<1>3. PICK r : r = [[[[proc[p] EXCEPT !.at = "wait"] EXCEPT !.line = <<>>]
                         EXCEPT !.cmds = tl] EXCEPT !.child = c]
  OBVIOUS
<1>4. PICK s : s = [[proc[p] EXCEPT !.at = "exec"] EXCEPT !.line = <<>>]
  OBVIOUS
<1>5. r.line = <<>> /\ s.line = <<>>
  BY <1>3, <1>4 DEF IInv, TypeOK, ProcFields
<1>6. r = AfterFork(p, c)
  BY <1>2, <1>3 DEF AfterFork, IInv, TypeOK, ProcFields
<1>7. proc' = [proc EXCEPT ![p] = r, ![c] = s]
  BY <1>1, <1>4, <1>6 DEF RunCommand
<1>8. \A q \in Slot : proc'[q] = r \/ proc'[q] = s \/ proc'[q] = proc[q]
  BY <1>7 DEF IInv, TypeOK
<1>9. LineOK(r) /\ LineOK(s)
  BY <1>5 DEF LineOK
<1>10. ASSUME NEW q \in Slot PROVE LineOK(proc'[q])
  BY <1>8, <1>9 DEF LinesInv
<1>. QED BY <1>10 DEF LinesInv

LEMMA WaitReturnsLines == ASSUME IInv, LinesInv, NEW p \in Slot, WaitReturns(p) PROVE LinesInv'
<1>1. proc[p].line = <<>>
  BY DEF LinesInv, LineOK, WaitReturns
<1>2. PICK c : c = proc[p].child
  OBVIOUS
<1>3. PICK r : r = [[proc[p] EXCEPT !.at = "commands"] EXCEPT !.child = 0]
  OBVIOUS
<1>4. proc' = [proc EXCEPT ![p] = r, ![c] = Unused]
  BY <1>2, <1>3 DEF WaitReturns, IInv, TypeOK, ProcFields
<1>5. \A q \in Slot : proc'[q] = r \/ proc'[q] = Unused \/ proc'[q] = proc[q]
  BY <1>4 DEF IInv, TypeOK
<1>6. r.line = <<>> /\ Unused.line = <<>>
  BY <1>1, <1>3 DEF IInv, TypeOK, ProcFields, Unused
<1>7. LineOK(r) /\ LineOK(Unused)
  BY <1>6 DEF LineOK
<1>8. ASSUME NEW q \in Slot PROVE LineOK(proc'[q])
  BY <1>5, <1>7 DEF LinesInv
<1>. QED BY <1>8 DEF LinesInv

LEMMA BootLines == ASSUME IInv, LinesInv, Boot \/ Crash \/ UNCHANGED vars PROVE LinesInv'
<1>1. LineOK(Unused)
  BY DEF LineOK, Unused
<1>2. CASE UntarOpen \/ UntarCopy \/ UntarEnd \/ UNCHANGED vars \/ (StartShell /\ Free = {})
  <2>1. proc' = proc
    BY <1>2 DEF UntarOpen, UntarCopy, UntarEnd, vars, StartShell
  <2>. QED BY <2>1 DEF LinesInv, LineOK
<1>3. CASE StartShell /\ Free # {}
  <2>1. PICK p \in Slot : p = Min(Free)
    BY <1>3, MinIsFree DEF Free
  <2>2. PICK r : r = [[Unused EXCEPT !.at = "prompt"] EXCEPT !.tty = Terminals[boot.i]]
    OBVIOUS
  <2>3. proc' = [proc EXCEPT ![p] = r] /\ r.line = <<>>
    BY <1>3, <2>1, <2>2 DEF StartShell, Unused
  <2>4. LineOK(r)
    BY <2>3 DEF LineOK
  <2>. QED BY <2>3, <2>4, LineStep
<1>4. CASE Crash
  <2>1. \A q \in Slot : proc'[q] = Unused
    BY <1>4 DEF Crash
  <2>. QED BY <1>1, <2>1 DEF LinesInv
<1>. QED BY <1>2, <1>3, <1>4 DEF Boot

LEMMA NextLines == IInv /\ LinesInv /\ [Next]_vars => LinesInv'
<1>. SUFFICES ASSUME IInv, LinesInv, [Next]_vars PROVE LinesInv'
  OBVIOUS
<1>1. ASSUME NEW p \in Slot, ReadLine(p) \/ Run(p) PROVE LinesInv'
  BY <1>1, ReadLineLines, ClearedLines, ChildLines, RunCommandLines, WaitReturnsLines DEF Run
<1>. QED BY <1>1, BootLines DEF Next

LEMMA InitLines == Init => LinesInv
<1>1. LineOK(Unused)
  BY DEF LineOK, Unused
<1>. QED BY <1>1 DEF Init, LinesInv

\* The commands a shell starts on are those that its line means, with all their arguments,
\* as long as no ampersand follows a word immediately: for every line and every set of
\* characters (main.c, shabby_shell).
THEOREM LinesUnderstood == Spec => []SpacedLinesUnderstood
<1>1. Spec => []LinesInv
  BY InitLines, NextLines, Invariance, PTL DEF Spec
<1>2. LinesInv => SpacedLinesUnderstood
  <2>. SUFFICES ASSUME LinesInv, NEW p \in Slot, proc[p].line # <<>>, Spaced(proc[p].line)
                PROVE  Means(proc[p].line, proc[p].cmds)
    BY DEF SpacedLinesUnderstood
  <2>1. proc[p].line \in Seq(LineChars) /\ proc[p].cmds = Parsed(proc[p].line)
    BY DEF LinesInv, LineOK
  <2>2. AMPERSAND \notin Chars
    OBVIOUS
  <2>3. Means(proc[p].line, Parsed(proc[p].line))
    BY <2>1, <2>2, ParsedMeans
  <2>. QED BY <2>1, <2>3
<1>. QED BY <1>1, <1>2, PTL
=============================================================================
