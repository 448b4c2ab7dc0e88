--------------------------- MODULE TerminalProofs ---------------------------
(***************************************************************************)
(* Proofs about the terminal, its keyboard side (module Tty) and its       *)
(* console (module Console), for every value of their constants.           *)
(*                                                                         *)
(* Tty: unless processes share a terminal, TTY knows the process that is   *)
(* suspended, and its line is what was typed since its request.  What was  *)
(* typed is a fold over scan codes, and the line one over keys: the first  *)
(* section proves that such functions are well defined.                    *)
(*                                                                         *)
(* Console: the cursor and the screen stay inside, and no line between the *)
(* first row and the cursor is lost.                                       *)
(***************************************************************************)
EXTENDS Tty, Console, SequenceTheorems, WellFoundedInduction, TLAPS

-----------------------------------------------------------------------------
(* Lemmas: folds over sequences *)

\* A set of natural numbers that is not empty has a least one.
LEMMA LeastNumber ==
    ASSUME NEW T, T \subseteq Nat, T # {}
    PROVE  \E x \in T : \A y \in T : x <= y
<1> DEFINE R == {ss \in Nat \X Nat : ss[1] < ss[2]}
<1>1. IsWellFoundedOn(R, Nat)
  BY NatLessThanWellFounded DEF OpToRel
<1>2. \A x, y \in Nat : <<y, x>> \in R <=> y < x
  OBVIOUS
<1>. HIDE DEF R
<1>3. PICK x \in T : \A y \in T : ~(<<y, x>> \in R)
  BY <1>1, WFMin
<1>4. ASSUME NEW y \in T PROVE x <= y
  <2>1. x \in Nat /\ y \in Nat
    OBVIOUS
  <2>2. ~(y < x)
    BY <1>2, <1>3, <2>1
  <2>. QED BY <2>1, <2>2
<1>. QED BY <1>4

\* The values that a fold of f over s runs through.
RunsOver(s, S, base, f) ==
    {h \in [0 .. Len(s) -> S] : /\ h[0] = base
                                /\ \A i \in 1 .. Len(s) : h[i] = f[<<h[i - 1], s[i]>>]}

\* What Append adds to a sequence, Front and Last take apart.
LEMMA FrontAppend ==
    ASSUME NEW X, NEW s \in Seq(X), NEW x \in X
    PROVE  /\ Append(s, x) \in Seq(X) /\ Append(s, x) # <<>>
           /\ Len(Append(s, x)) = Len(s) + 1
           /\ \A i \in 1 .. Len(s) : Append(s, x)[i] = s[i]
           /\ Append(s, x)[Len(s) + 1] = x
           /\ Front(Append(s, x)) = s /\ Last(Append(s, x)) = x
<1>1. /\ Append(s, x) \in Seq(X) /\ Append(s, x) # <<>> /\ Len(s) \in Nat
      /\ Len(Append(s, x)) = Len(s) + 1
      /\ \A i \in 1 .. Len(s) : Append(s, x)[i] = s[i]
      /\ Append(s, x)[Len(s) + 1] = x
  BY AppendProperties, LenProperties
<1>2. /\ Front(Append(s, x)) \in Seq(X) /\ Len(Front(Append(s, x))) = Len(s)
      /\ \A i \in 1 .. Len(s) : Front(Append(s, x))[i] = s[i]
  <2>1. Front(Append(s, x)) = SubSeq(Append(s, x), 1, Len(s))
    BY <1>1 DEF Front
  <2>2. \A i \in 1 .. Len(s) : Append(s, x)[i] \in X
    BY <1>1, ElementOfSeq
  <2>3. /\ SubSeq(Append(s, x), 1, Len(s)) \in Seq(X)
        /\ Len(SubSeq(Append(s, x), 1, Len(s))) = IF 1 <= Len(s) THEN Len(s) - 1 + 1 ELSE 0
        /\ \A i \in 1 .. Len(s) - 1 + 1 :
              SubSeq(Append(s, x), 1, Len(s))[i] = Append(s, x)[1 + i - 1]
    BY <1>1, <2>2, SubSeqProperties
  <2>. QED BY <1>1, <2>1, <2>3
<1>3. Front(Append(s, x)) = s
  BY <1>2, SeqEqual
<1>. QED BY <1>1, <1>3 DEF Last

\* A sequence that is not empty is its front and its last element.
LEMMA FrontLast ==
    ASSUME NEW X, NEW s \in Seq(X), s # <<>>
    PROVE  Front(s) \in Seq(X) /\ Last(s) \in X /\ s = Append(Front(s), Last(s))
           /\ Len(Front(s)) = Len(s) - 1
<1>1. Len(s) \in Nat \ {0} /\ \A i \in 1 .. Len(s) : s[i] \in X
  BY EmptySeq, LenProperties, ElementOfSeq
<1>2. /\ Front(s) \in Seq(X) /\ Len(Front(s)) = Len(s) - 1
      /\ \A i \in 1 .. Len(s) - 1 : Front(s)[i] = s[i]
  <2>1. PICK m \in Nat : m = Len(s) - 1
    BY <1>1
  <2>2. \A i \in 1 .. m : s[i] \in X
    BY <1>1, <2>1
  <2>3. /\ SubSeq(s, 1, m) \in Seq(X)
        /\ Len(SubSeq(s, 1, m)) = IF 1 <= m THEN m - 1 + 1 ELSE 0
        /\ \A i \in 1 .. m - 1 + 1 : SubSeq(s, 1, m)[i] = s[1 + i - 1]
    BY <2>1, <2>2, SubSeqProperties
  <2>4. Front(s) = SubSeq(s, 1, m)
    BY <2>1 DEF Front
  <2>. QED BY <2>1, <2>3, <2>4
<1>3. Last(s) \in X
  BY <1>1 DEF Last
<1>4. s = Append(Front(s), Last(s))
  <2>1. Append(Front(s), Last(s)) \in Seq(X) /\ Len(Append(Front(s), Last(s))) = Len(s)
    BY <1>1, <1>2, <1>3, AppendProperties
  <2>2. ASSUME NEW i \in 1 .. Len(s) PROVE s[i] = Append(Front(s), Last(s))[i]
    BY <1>1, <1>2, <1>3, AppendProperties DEF Last
  <2>. QED BY <2>1, <2>2, SeqEqual
<1>. QED BY <1>2, <1>3, <1>4

\* A fold has a run over every sequence ...
LEMMA RunsExist ==
    ASSUME NEW X, NEW S, NEW base \in S, NEW f \in [S \X X -> S], NEW s \in Seq(X)
    PROVE  RunsOver(s, S, base, f) # {}
<1> DEFINE Bad == {n \in Nat : \E t \in Seq(X) : Len(t) = n /\ RunsOver(t, S, base, f) = {}}
<1>1. SUFFICES ASSUME Bad # {} PROVE FALSE
  BY LenProperties
<1>2. PICK n \in Bad : \A m \in Bad : n <= m
  BY <1>1, LeastNumber
<1>3. PICK t \in Seq(X) : Len(t) = n /\ RunsOver(t, S, base, f) = {}
  OBVIOUS
<1>4. CASE n = 0
  <2>1. [i \in 0 .. 0 |-> base] \in RunsOver(t, S, base, f)
    BY <1>3, <1>4 DEF RunsOver
  <2>. QED BY <1>3, <2>1
<1>5. CASE n # 0
  <2>1. t # <<>> /\ n - 1 \in Nat /\ n - 1 \notin Bad /\ n \in Nat
    BY <1>2, <1>3, <1>5, EmptySeq
  <2>2. Front(t) \in Seq(X) /\ Len(Front(t)) = n - 1 /\ Last(t) \in X
        /\ t = Append(Front(t), Last(t))
    BY <1>3, <2>1, FrontLast
  <2>3. PICK h : h \in RunsOver(Front(t), S, base, f)
    BY <2>1, <2>2
  <2> DEFINE g == [i \in 0 .. n |-> IF i = n THEN f[<<h[n - 1], t[n]>>] ELSE h[i]]
  <2>4. /\ h \in [0 .. n - 1 -> S] /\ h[0] = base
        /\ \A i \in 1 .. n - 1 : h[i] = f[<<h[i - 1], Front(t)[i]>>]
    BY <2>2, <2>3 DEF RunsOver
  <2>5. t[n] \in X /\ \A i \in 1 .. n - 1 : t[i] = Front(t)[i]
    <3>1. /\ \A i \in 1 .. n - 1 : Append(Front(t), Last(t))[i] = Front(t)[i]
          /\ Append(Front(t), Last(t))[n] = Last(t)
      BY <2>1, <2>2, FrontAppend
    <3>. QED BY <2>2, <3>1
  <2>6. g \in [0 .. n -> S]
    <3>1. f[<<h[n - 1], t[n]>>] \in S
      BY <2>1, <2>4, <2>5
    <3>. QED BY <2>1, <2>4, <3>1
  <2>7. g[0] = base
    BY <2>1, <2>4, <1>5
  <2>8. ASSUME NEW i \in 1 .. n PROVE g[i] = f[<<g[i - 1], t[i]>>]
    <3>1. g[i - 1] = h[i - 1]
      BY <2>1
    <3>2. CASE i = n
      <4>1. g[n] = f[<<h[n - 1], t[n]>>]
        BY <2>1
      <4>. QED BY <3>1, <3>2, <4>1
    <3>3. CASE i # n
      <4>1. i \in 1 .. n - 1 /\ g[i] = h[i]
        BY <2>1, <3>3
      <4>2. h[i] = f[<<h[i - 1], Front(t)[i]>>] /\ t[i] = Front(t)[i]
        BY <2>4, <2>5, <4>1
      <4>. QED BY <3>1, <4>1, <4>2
    <3>. QED BY <3>2, <3>3
  <2>9. g \in RunsOver(t, S, base, f)
    BY <1>3, <2>6, <2>7, <2>8 DEF RunsOver
  <2>. QED BY <1>3, <2>9
<1>. QED BY <1>4, <1>5

\* ... and only one.
LEMMA RunsUnique ==
    ASSUME NEW X, NEW S, NEW base, NEW f, NEW s \in Seq(X),
           NEW g \in RunsOver(s, S, base, f), NEW h \in RunsOver(s, S, base, f)
    PROVE  g = h
<1> DEFINE Bad == {n \in 0 .. Len(s) : g[n] # h[n]}
<1>0. Len(s) \in Nat
  BY LenProperties
<1>1. ASSUME Bad # {} PROVE FALSE
  <2>0. Bad \subseteq Nat
    BY <1>0
  <2>1. PICK n \in Bad : \A m \in Bad : n <= m
    <3>. HIDE DEF Bad
    <3>. QED BY <1>1, <2>0, LeastNumber
  <2>2. g[0] = h[0] /\ n # 0 /\ n \in 1 .. Len(s)
    BY <1>0 DEF RunsOver
  <2>3. g[n - 1] = h[n - 1]
    BY <1>0, <2>1, <2>2
  <2>4. g[n] = f[<<g[n - 1], s[n]>>] /\ h[n] = f[<<h[n - 1], s[n]>>]
    BY <2>2 DEF RunsOver
  <2>. QED BY <2>1, <2>3, <2>4
<1>. QED BY <1>1 DEF RunsOver

\* A fold from the left is well defined: there is a function that takes the empty
\* sequence to base, and a longer one to f of what its front goes to and its last.
LEMMA FoldExists ==
    ASSUME NEW X, NEW S, NEW base \in S, NEW f \in [S \X X -> S]
    PROVE  \E F \in [Seq(X) -> S] :
              /\ F[<<>>] = base
              /\ \A s \in Seq(X) : s # <<>> => F[s] = f[<<F[Front(s)], Last(s)>>]
<1> DEFINE Run(s) == CHOOSE h : h \in RunsOver(s, S, base, f)
           F == [s \in Seq(X) |-> Run(s)[Len(s)]]
<1>1. ASSUME NEW s \in Seq(X) PROVE Run(s) \in RunsOver(s, S, base, f) /\ Len(s) \in Nat
  <2>1. RunsOver(s, S, base, f) # {}
    BY RunsExist
  <2>2. Run(s) \in RunsOver(s, S, base, f)
    BY <2>1
  <2>. QED BY <2>2, LenProperties
<1>2. F \in [Seq(X) -> S]
  <2>1. ASSUME NEW s \in Seq(X) PROVE Run(s)[Len(s)] \in S
    BY <1>1 DEF RunsOver
  <2>. QED BY <2>1
<1>3. F[<<>>] = base
  <2>1. <<>> \in Seq(X) /\ Len(<<>>) = 0
    BY EmptySeq
  <2>2. Run(<<>>)[0] = base
    BY <1>1, <2>1 DEF RunsOver
  <2>. QED BY <2>1, <2>2
<1>4. ASSUME NEW s \in Seq(X), s # <<>>
      PROVE  F[s] = f[<<F[Front(s)], Last(s)>>]
  <2>1. /\ Front(s) \in Seq(X) /\ Len(Front(s)) = Len(s) - 1 /\ Last(s) \in X
        /\ s = Append(Front(s), Last(s)) /\ Len(s) \in Nat \ {0}
    BY <1>4, FrontLast, EmptySeq
  <2>2. \A i \in 1 .. Len(s) - 1 : s[i] = Front(s)[i]
    <3>1. \A i \in 1 .. Len(s) - 1 : Append(Front(s), Last(s))[i] = Front(s)[i]
      BY <2>1, FrontAppend
    <3>. QED BY <2>1, <3>1
  <2> DEFINE g == [i \in 0 .. Len(s) - 1 |-> Run(s)[i]]
  <2>3. /\ Run(s) \in [0 .. Len(s) -> S] /\ Run(s)[0] = base
        /\ \A i \in 1 .. Len(s) : Run(s)[i] = f[<<Run(s)[i - 1], s[i]>>]
    BY <1>1 DEF RunsOver
  <2>. HIDE DEF Run
  <2>4. g \in RunsOver(Front(s), S, base, f)
    <3>1. g \in [0 .. Len(s) - 1 -> S] /\ g[0] = base
      BY <2>1, <2>3
    <3>2. ASSUME NEW i \in 1 .. Len(s) - 1 PROVE g[i] = f[<<g[i - 1], Front(s)[i]>>]
      BY <2>1, <2>2, <2>3
    <3>. QED BY <2>1, <3>1, <3>2 DEF RunsOver
  <2>5. g = Run(Front(s))
    BY <1>1, <2>1, <2>4, RunsUnique
  <2>6. Run(Front(s))[Len(s) - 1] = Run(s)[Len(s) - 1]
    <3>1. g[Len(s) - 1] = Run(s)[Len(s) - 1]
      BY <2>1
    <3>. QED BY <2>5, <3>1
  <2>7. Run(s)[Len(s)] = f[<<Run(s)[Len(s) - 1], s[Len(s)]>>]
    BY <2>1, <2>3
  <2>. QED BY <2>1, <2>6, <2>7 DEF Last
<1>. HIDE DEF F
<1>. QED BY <1>2, <1>3, <1>4

\* Induction over sequences from the front, for the set of those that have a property.
LEMMA FrontInduction ==
    ASSUME NEW X, NEW T, T \subseteq Seq(X), <<>> \in T,
           \A s \in Seq(X) : s # <<>> /\ Front(s) \in T => s \in T
    PROVE  T = Seq(X)
<1> DEFINE Bad == {n \in Nat : \E s \in Seq(X) \ T : Len(s) = n}
<1>1. ASSUME Bad # {} PROVE FALSE
  <2>1. PICK n \in Bad : \A m \in Bad : n <= m
    BY <1>1, LeastNumber
  <2>2. PICK s \in Seq(X) : s \notin T /\ Len(s) = n
    OBVIOUS
  <2>3. s # <<>> /\ Front(s) \in Seq(X) /\ Len(Front(s)) = n - 1 /\ n - 1 \in Nat
    BY <2>2, FrontLast, EmptySeq
  <2>4. Front(s) \in T
    BY <2>1, <2>3
  <2>. QED BY <2>2, <2>3, <2>4
<1>. QED BY <1>1, LenProperties
-----------------------------------------------------------------------------
(* Tty: what is typed, and the line in it *)

Decoding == [ext : BOOLEAN, keys : Seq(Keys)]
Nothing  == [ext |-> FALSE, keys |-> <<>>]

\* One scan code stands for one key or for none.
LEMMA DecodedKeys ==
    ASSUME NEW ext \in BOOLEAN, NEW c \in Codes, c # EXT \/ ext
    PROVE  Decoded(ext, c) \in Seq(Keys)
<1>1. CASE ext /\ c # ENTER
  BY <1>1, EmptySeq DEF Decoded
<1>2. CASE ~(ext /\ c # ENTER)
  <2>1. c \in Keys
    BY <1>2, TtyAssumption DEF Codes, Keys
  <2>2. Decoded(ext, c) = <<c>>
    BY <1>2 DEF Decoded
  <2>. QED BY <2>1, <2>2
<1>. QED BY <1>1, <1>2

\* A step of decoding.
LEMMA DecodeStepType ==
    ASSUME NEW acc \in Decoding, NEW c \in Codes
    PROVE  DecodeStep(acc, c) \in Decoding
<1>1. acc.ext \in BOOLEAN /\ acc.keys \in Seq(Keys) /\ DOMAIN acc = {"ext", "keys"}
  BY DEF Decoding
<1>2. CASE ~acc.ext /\ c = EXT
  BY <1>1, <1>2 DEF DecodeStep, Decoding
<1>3. CASE ~(~acc.ext /\ c = EXT)
  <2>1. acc.keys \o Decoded(acc.ext, c) \in Seq(Keys)
    BY <1>1, <1>3, DecodedKeys, ConcatProperties
  <2>. QED BY <1>3, <2>1 DEF DecodeStep, Decoding
<1>. QED BY <1>2, <1>3

\* The definition of decode has a solution, and its values are decodings.
LEMMA DecodeEquation ==
    /\ decode = [codes \in Seq(Codes) |->
                   IF codes = <<>> THEN Nothing
                   ELSE DecodeStep(decode[Front(codes)], Last(codes))]
    /\ \A s \in Seq(Codes) : decode[s] \in Decoding
<1> DEFINE f == [x \in Decoding \X Codes |-> DecodeStep(x[1], x[2])]
<1>1. f \in [Decoding \X Codes -> Decoding] /\ Nothing \in Decoding
  BY DecodeStepType, EmptySeq DEF Nothing, Decoding
<1>2. \A acc \in Decoding, c \in Codes : f[<<acc, c>>] = DecodeStep(acc, c)
  OBVIOUS
<1>. HIDE DEF f
<1>3. PICK F \in [Seq(Codes) -> Decoding] :
         /\ F[<<>>] = Nothing
         /\ \A s \in Seq(Codes) : s # <<>> => F[s] = f[<<F[Front(s)], Last(s)>>]
  BY <1>1, FoldExists, SMTT(60)
<1>4. ASSUME NEW s \in Seq(Codes)
      PROVE  F[s] = IF s = <<>> THEN Nothing ELSE DecodeStep(F[Front(s)], Last(s))
  <2>1. CASE s = <<>>
    BY <1>3, <2>1
  <2>2. CASE s # <<>>
    <3>1. Front(s) \in Seq(Codes) /\ Last(s) \in Codes
      BY <2>2, FrontLast
    <3>. QED BY <1>2, <1>3, <2>2, <3>1
  <2>. QED BY <2>1, <2>2
<1>5. F = [codes \in Seq(Codes) |->
              IF codes = <<>> THEN Nothing ELSE DecodeStep(F[Front(codes)], Last(codes))]
  <2>1. F = [codes \in Seq(Codes) |-> F[codes]]
    BY <1>3
  <2>. QED BY <1>4, <2>1
<1>6. decode = [codes \in Seq(Codes) |->
                  IF codes = <<>> THEN Nothing
                  ELSE DecodeStep(decode[Front(codes)], Last(codes))]
  BY <1>5 DEF decode, Nothing
<1>7. \A s \in Seq(Codes) : decode[s] \in Decoding
  <2> DEFINE T == {s \in Seq(Codes) : decode[s] \in Decoding}
  <2>1. <<>> \in T
    BY <1>1, <1>6, EmptySeq
  <2>2. ASSUME NEW s \in Seq(Codes), s # <<>>, Front(s) \in T PROVE s \in T
    <3>1. Front(s) \in Seq(Codes) /\ Last(s) \in Codes /\ decode[Front(s)] \in Decoding
      BY <2>2, FrontLast
    <3>2. decode[s] = DecodeStep(decode[Front(s)], Last(s))
      BY <1>6, <2>2
    <3>. QED BY <3>1, <3>2, DecodeStepType
  <2>3. T = Seq(Codes)
    <3>. HIDE DEF T
    <3>1. T \subseteq Seq(Codes)
      BY DEF T
    <3>. QED BY <2>1, <2>2, <3>1, FrontInduction
  <2>. QED BY <2>3
<1>. QED BY <1>6, <1>7

\* What has been typed, one scan code after the other.
LEMMA DecodeSteps ==
    /\ decode[<<>>] = Nothing
    /\ \A s \in Seq(Codes), c \in Codes : decode[Append(s, c)] = DecodeStep(decode[s], c)
<1>1. decode[<<>>] = Nothing
  BY DecodeEquation, EmptySeq
<1>2. ASSUME NEW s \in Seq(Codes), NEW c \in Codes
      PROVE  decode[Append(s, c)] = DecodeStep(decode[s], c)
  <2>1. Append(s, c) \in Seq(Codes) /\ Append(s, c) # <<>>
        /\ Front(Append(s, c)) = s /\ Last(Append(s, c)) = c
    BY FrontAppend
  <2>. QED BY <2>1, DecodeEquation
<1>. QED BY <1>1, <1>2

Editing == [line : Seq(Chars), complete : BOOLEAN]
NoLine  == [line |-> <<>>, complete |-> FALSE]

\* A step of editing.
LEMMA EditStepType ==
    ASSUME NEW acc \in Editing, NEW k \in Keys, NEW n
    PROVE  EditStep(acc, k, n) \in Editing
<1>1. acc.line \in Seq(Chars) /\ acc.complete \in BOOLEAN
      /\ acc = [line |-> acc.line, complete |-> acc.complete]
  BY DEF Editing
<1>2. CASE acc.complete
  BY <1>2 DEF EditStep
<1>3. CASE ~acc.complete /\ k = ENTER
  BY <1>1, <1>3 DEF EditStep, Editing
<1>4. CASE ~acc.complete /\ k # ENTER /\ k = BACKSPACE
  <2> DEFINE m == IF acc.line = <<>> THEN 0 ELSE Len(acc.line) - 1
  <2>1. m \in Nat /\ m <= Len(acc.line) /\ \A i \in 1 .. m : acc.line[i] \in Chars
    BY <1>1, EmptySeq, ElementOfSeq
  <2>. HIDE DEF m
  <2>2. SubSeq(acc.line, 1, m) \in Seq(Chars)
    BY <2>1, SubSeqProperties
  <2>3. EditStep(acc, k, n) = [acc EXCEPT !.line = SubSeq(acc.line, 1, m)]
    BY <1>4 DEF EditStep, m
  <2>. QED BY <1>1, <2>2, <2>3 DEF Editing
<1>5. CASE ~acc.complete /\ k # ENTER /\ k # BACKSPACE
  <2>1. Append(acc.line, k) \in Seq(Chars)
    BY <1>1, <1>5, AppendProperties DEF Keys
  <2>2. EditStep(acc, k, n) =
          [line |-> Append(acc.line, k), complete |-> Len(acc.line) + 1 = n]
    BY <1>5 DEF EditStep
  <2>3. (Len(acc.line) + 1 = n) \in BOOLEAN
    OBVIOUS
  <2>. QED BY <2>1, <2>2, <2>3 DEF Editing
<1>. QED BY <1>2, <1>3, <1>4, <1>5

\* What the line is, one key after the other.
LEMMA FirstLineSteps ==
    ASSUME NEW n
    PROVE  /\ FirstLine(<<>>, n) = NoLine
           /\ \A s \in Seq(Keys), k \in Keys :
                 FirstLine(Append(s, k), n) = EditStep(FirstLine(s, n), k, n)
           /\ \A s \in Seq(Keys) : FirstLine(s, n) \in Editing
<1> DEFINE f == [x \in Editing \X Keys |-> EditStep(x[1], x[2], n)]
           edit == CHOOSE e : e = [ks \in Seq(Keys) |->
                       IF ks = <<>> THEN NoLine ELSE EditStep(e[Front(ks)], Last(ks), n)]
<1>1. f \in [Editing \X Keys -> Editing] /\ NoLine \in Editing
  BY EditStepType, EmptySeq DEF NoLine, Editing
<1>2. \A acc \in Editing, k \in Keys : f[<<acc, k>>] = EditStep(acc, k, n)
  OBVIOUS
<1>. HIDE DEF f
<1>3. PICK F \in [Seq(Keys) -> Editing] :
         /\ F[<<>>] = NoLine
         /\ \A s \in Seq(Keys) : s # <<>> => F[s] = f[<<F[Front(s)], Last(s)>>]
  BY <1>1, FoldExists, SMTT(60)
<1>4. ASSUME NEW s \in Seq(Keys)
      PROVE  F[s] = IF s = <<>> THEN NoLine ELSE EditStep(F[Front(s)], Last(s), n)
  <2>1. CASE s = <<>>
    BY <1>3, <2>1
  <2>2. CASE s # <<>>
    <3>1. Front(s) \in Seq(Keys) /\ Last(s) \in Keys
      BY <2>2, FrontLast
    <3>. QED BY <1>2, <1>3, <2>2, <3>1
  <2>. QED BY <2>1, <2>2
<1>5. F = [ks \in Seq(Keys) |->
              IF ks = <<>> THEN NoLine ELSE EditStep(F[Front(ks)], Last(ks), n)]
  <2>1. F = [ks \in Seq(Keys) |-> F[ks]]
    BY <1>3
  <2>. QED BY <1>4, <2>1
<1>6. edit = [ks \in Seq(Keys) |->
                  IF ks = <<>> THEN NoLine ELSE EditStep(edit[Front(ks)], Last(ks), n)]
  BY <1>5
<1>7. \A s \in Seq(Keys) : FirstLine(s, n) = edit[s]
  BY DEF FirstLine, NoLine
<1>. HIDE DEF edit
<1>8. \A s \in Seq(Keys) : edit[s] \in Editing
  <2> DEFINE T == {s \in Seq(Keys) : edit[s] \in Editing}
  <2>1. <<>> \in T
    BY <1>1, <1>6, EmptySeq
  <2>2. ASSUME NEW s \in Seq(Keys), s # <<>>, Front(s) \in T PROVE s \in T
    <3>1. Front(s) \in Seq(Keys) /\ Last(s) \in Keys /\ edit[Front(s)] \in Editing
      BY <2>2, FrontLast
    <3>2. edit[s] = EditStep(edit[Front(s)], Last(s), n)
      BY <1>6, <2>2
    <3>. QED BY <3>1, <3>2, EditStepType
  <2>3. T = Seq(Keys)
    <3>. HIDE DEF T
    <3>1. T \subseteq Seq(Keys)
      BY DEF T
    <3>. QED BY <2>1, <2>2, <3>1, FrontInduction
  <2>. QED BY <2>3
<1>9. FirstLine(<<>>, n) = NoLine
  BY <1>6, <1>7, EmptySeq
<1>10. ASSUME NEW s \in Seq(Keys), NEW k \in Keys
       PROVE  FirstLine(Append(s, k), n) = EditStep(FirstLine(s, n), k, n)
  <2>1. Append(s, k) \in Seq(Keys) /\ Append(s, k) # <<>>
        /\ Front(Append(s, k)) = s /\ Last(Append(s, k)) = k
    BY FrontAppend
  <2>. QED BY <1>6, <1>7, <2>1
<1>. QED BY <1>7, <1>8, <1>9, <1>10
-----------------------------------------------------------------------------
(* Tty: types *)

Terminal == [ibuf : Seq(Keys), procnr : Proc \cup {NO_TASK}, left_cnt : Nat,
             line : Seq(Chars)]

\* The record of the terminal, field by field.
LEMMA TtyFields ==
    ASSUME NEW t
    PROVE  t \in Terminal <=>
             /\ t = [ibuf |-> t.ibuf, procnr |-> t.procnr, left_cnt |-> t.left_cnt,
                     line |-> t.line]
             /\ t.ibuf \in Seq(Keys) /\ t.procnr \in Proc \cup {NO_TASK}
             /\ t.left_cnt \in Nat /\ t.line \in Seq(Chars)
BY DEF Terminal

\* What Edited makes of the record of the terminal.
LEMMA EditedFields ==
    ASSUME NEW t \in Terminal, NEW ch \in Keys, t.left_cnt > 0
    PROVE  /\ Edited(t, ch) \in Terminal
           /\ Edited(t, ch).ibuf = t.ibuf /\ Edited(t, ch).procnr = t.procnr
<1>1. /\ t.ibuf \in Seq(Keys) /\ t.procnr \in Proc \cup {NO_TASK} /\ t.left_cnt \in Nat
      /\ t.line \in Seq(Chars) /\ DOMAIN t = {"ibuf", "procnr", "left_cnt", "line"}
  BY DEF Terminal
<1>2. CASE ch \in Chars
  <2>1. PICK l : l = Append(t.line, ch)
    OBVIOUS
  <2>2. PICK n : n = t.left_cnt - 1
    OBVIOUS
  <2>3. l \in Seq(Chars) /\ n \in Nat
    BY <1>1, <1>2, <2>1, <2>2, AppendProperties
  <2>4. Edited(t, ch) = [t EXCEPT !.line = l, !.left_cnt = n]
    BY <1>1, <1>2, <2>1, <2>2 DEF Edited
  <2>. QED BY <1>1, <2>3, <2>4 DEF Terminal
<1>3. CASE ch \notin Chars /\ ch = BACKSPACE /\ t.line # <<>>
  <2>1. PICK l : l = SubSeq(t.line, 1, Len(t.line) - 1)
    OBVIOUS
  <2>2. PICK n : n = t.left_cnt + 1
    OBVIOUS
  <2>3. l \in Seq(Chars) /\ n \in Nat
    BY <1>1, <1>3, <2>1, <2>2, FrontLast DEF Front
  <2>4. Edited(t, ch) = [t EXCEPT !.line = l, !.left_cnt = n]
    BY <1>1, <1>3, <2>1, <2>2 DEF Edited
  <2>. QED BY <1>1, <2>3, <2>4 DEF Terminal
<1>4. CASE ch \notin Chars /\ ~(ch = BACKSPACE /\ t.line # <<>>)
  BY <1>4 DEF Edited
<1>. QED BY <1>2, <1>3, <1>4

\* What in_process makes of it.
LEMMA InProcess ==
    ASSUME tty \in Terminal, NEW ks \in Seq(Keys)
    PROVE  /\ in_process(ks) \in Terminal /\ in_process(ks).ibuf = tty.ibuf \o ks
           /\ in_process(ks).procnr = tty.procnr /\ in_process(ks).left_cnt = tty.left_cnt
           /\ in_process(ks).line = tty.line
<1>1. PICK b : b = tty.ibuf \o ks
  OBVIOUS
<1>2. b \in Seq(Keys)
  BY <1>1, ConcatProperties DEF Terminal
<1>3. in_process(ks) = [tty EXCEPT !.ibuf = b]
  BY <1>1 DEF in_process, Terminal
<1>. QED BY <1>1, <1>2, <1>3 DEF Terminal

\* Types when a scan code arrives.
LEMMA HandlerType ==
    ASSUME NEW c \in Codes, TypeOK, keyboard_handler(c), sending' \in Seq(Codes)
    PROVE  TypeOK'
<1>1. CASE Len(kb_in) < KB_IN_BYTES
  <2>1. kb_in' = Append(kb_in, c) /\ arrived' = Append(arrived, c)
    BY <1>1 DEF keyboard_handler
  <2>2. kb_in \in Seq(Codes) /\ arrived \in Seq(Codes)
    BY DEF TypeOK
  <2>3. Len(kb_in) \in Nat /\ Len(Append(kb_in, c)) = Len(kb_in) + 1
    BY <2>2, AppendProperties, LenProperties
  <2>4. kb_in' \in Seq(Codes) /\ arrived' \in Seq(Codes) 
    BY <2>1, <2>2, AppendProperties
  <2>5. Len(kb_in') <= KB_IN_BYTES
    BY <1>1, <2>1, <2>3, TtyAssumption
  <2>. QED BY <2>4, <2>5 DEF TypeOK, keyboard_handler
<1>2. CASE ~(Len(kb_in) < KB_IN_BYTES)
  BY <1>2 DEF TypeOK, keyboard_handler
<1>. QED BY <1>1, <1>2

\* Types when TTY takes a scan code from the ring.
LEMMA TakeByteType ==
    ASSUME TypeOK, TakeByte, kb_in # <<>>, tty' \in Terminal,
           task' \in {"read keys", "second byte"}
    PROVE  TypeOK'
<1>1. kb_in \in Seq(Codes) /\ taken \in Nat /\ Len(kb_in) <= KB_IN_BYTES
  BY DEF TypeOK
<1>2. /\ kb_in' \in Seq(Codes) /\ Len(kb_in') <= KB_IN_BYTES /\ taken' \in Nat
  <2>1. kb_in' = Tail(kb_in) /\ taken' = taken + 1
    BY DEF TakeByte
  <2>2. Tail(kb_in) \in Seq(Codes) /\ Len(Tail(kb_in)) = Len(kb_in) - 1 /\ Len(kb_in) \in Nat
    BY <1>1, HeadTailProperties, LenProperties
  <2>3. KB_IN_BYTES \in Nat
    BY TtyAssumption
  <2>4. Len(Tail(kb_in)) <= KB_IN_BYTES
    BY ONLY <1>1, <2>2, <2>3
  <2>5. taken + 1 \in Nat
    BY ONLY <1>1
  <2>. QED BY <2>1, <2>2, <2>4, <2>5
<1>. QED BY <1>2 DEF TakeByte, TypeOK, Terminal

\* What tty_dev_write makes of the record of the terminal.
LEMMA EchoFields ==
    ASSUME tty \in Terminal, tty.ibuf # <<>>,
           NEW t, t = IF tty.left_cnt > 0 THEN Edited(tty, Head(tty.ibuf)) ELSE tty,
           NEW u, u = [t EXCEPT !.ibuf = Tail(@)]
    PROVE  /\ t \in Terminal /\ u \in Terminal
           /\ u.ibuf = Tail(tty.ibuf) /\ u.procnr = tty.procnr
           /\ u.left_cnt = t.left_cnt /\ u.line = t.line
<1>1. tty.ibuf \in Seq(Keys) /\ tty.left_cnt \in Nat
  BY DEF Terminal
<1>2. Head(tty.ibuf) \in Keys /\ Tail(tty.ibuf) \in Seq(Keys)
  BY <1>1, HeadTailProperties
<1>3. t \in Terminal /\ t.ibuf = tty.ibuf /\ t.procnr = tty.procnr
  BY <1>2, EditedFields
<1>4. PICK b : b = Tail(tty.ibuf)
  OBVIOUS
<1>5. u = [t EXCEPT !.ibuf = b]
  BY <1>3, <1>4 DEF Terminal
<1>. QED BY <1>2, <1>3, <1>4, <1>5 DEF Terminal

\* Types when TTY sends to FS.
LEMMA SendToFSType ==
    ASSUME TypeOK, SendToFS
    PROVE  task' \in {"halted", "resume"} /\ queue' \in Seq(Proc \cup {TASK_TTY})
<1>1. queue \in Seq(Proc \cup {TASK_TTY})
  BY DEF TypeOK
<1>2. Append(queue, TASK_TTY) \in Seq(Proc \cup {TASK_TTY})
  BY <1>1, AppendProperties
<1>. QED BY <1>1, <1>2 DEF SendToFS

\* FS is in RECEIVE or has the request of a process in hand.
LEMMA FsPlaces ==
    ASSUME TypeOK
    PROVE  fs.at = "receive" \/ (fs.at = "send to TTY" /\ fs.src \in Proc)
<1>1. fs \in {FsIdle} \cup [at : {"send to TTY"}, src : Proc]
  BY DEF TypeOK
<1>2. CASE fs = FsIdle
  BY <1>2 DEF FsIdle
<1>3. CASE fs # FsIdle
  <2>1. fs \in [at : {"send to TTY"}, src : Proc]
    BY <1>1, <1>3
  <2>. QED BY <2>1
<1>. QED BY <1>2, <1>3

\* What a process wants.
LEMMA Wanted ==
    ASSUME TypeOK, NEW p \in Proc
    PROVE  \/ wants[p] = NoRequest /\ wants[p].type = "none"
           \/ wants[p] # NoRequest /\ wants[p].type = "DEV_READ" /\ wants[p].cnt \in Nat \ {0}
           \/ wants[p] # NoRequest /\ wants[p].type = "DEV_WRITE"
<1>0. NoRequest.type = "none"
  BY DEF NoRequest
<1>1. wants[p] \in {NoRequest} \cup [type : {"DEV_READ"}, cnt : Counts]
                      \cup [type : {"DEV_WRITE"}, cnt : {0}]
  BY DEF TypeOK
<1>2. CASE wants[p] = NoRequest
  BY <1>0, <1>2
<1>3. CASE wants[p] \in [type : {"DEV_READ"}, cnt : Counts]
  BY <1>0, <1>3, TtyAssumption
<1>4. CASE wants[p] \in [type : {"DEV_WRITE"}, cnt : {0}]
  BY <1>0, <1>4
<1>. QED BY <1>1, <1>2, <1>3, <1>4

LEMMA TypeInit == Init => TypeOK
<1>. SUFFICES ASSUME Init PROVE TypeOK
  OBVIOUS
<1>1. <<>> \in Seq(Codes) /\ <<>> \in Seq(Keys) /\ <<>> \in Seq(Chars)
      /\ <<>> \in Seq(Proc \cup {TASK_TTY}) /\ Len(<<>>) = 0
  BY EmptySeq
<1>2. tty \in Terminal
  BY <1>1 DEF Init, Terminal
<1>3. Len(kb_in) <= KB_IN_BYTES
  <2>1. KB_IN_BYTES \in Nat
    BY TtyAssumption
  <2>2. Len(kb_in) = 0
    BY <1>1 DEF Init
  <2>. QED BY <2>1, <2>2
<1>. QED BY <1>1, <1>2, <1>3 DEF Init, TypeOK, Terminal

LEMMA TypeNext == TypeOK /\ [Next]_vars => TypeOK'
<1>. SUFFICES ASSUME TypeOK, [Next]_vars PROVE TypeOK'
  OBVIOUS
<1>0. tty \in Terminal /\ kb_in \in Seq(Codes) /\ sending \in Seq(Codes)
  BY DEF TypeOK, Terminal
<1>1. CASE Press
  <2>1. PICK k \in Keys : \E code \in {<<k>>, <<EXT, k>>} :
           keyboard_handler(Head(code)) /\ sending' = Tail(code)
    BY <1>1 DEF Press
  <2>. PICK code \in {<<k>>, <<EXT, k>>} :
           keyboard_handler(Head(code)) /\ sending' = Tail(code)
    BY <2>1
  <2>2. Head(code) \in Codes /\ Tail(code) \in Seq(Codes)
    <3>1. k \in Codes /\ EXT \in Codes
      BY DEF Codes
    <3>2. code \in Seq(Codes) /\ code # <<>>
      BY <3>1
    <3>. QED BY <3>2, HeadTailProperties
  <2>. QED BY <2>2, HandlerType
<1>2. CASE SecondByte
  BY <1>0, <1>2, HandlerType, HeadTailProperties DEF SecondByte
<1>3. CASE clock_handler \/ KeysRead \/ EchoDone \/ ReceiveInt \/ UNCHANGED vars
  BY <1>3 DEF TypeOK, clock_handler, KeysRead, EchoDone, ReceiveInt, keys, vars
<1>4. CASE keyboard_read
  <2>1. Head(kb_in) \in Codes /\ kb_in # <<>> /\ TakeByte
    BY <1>0, <1>4, HeadTailProperties DEF keyboard_read
  <2>2. tty' \in Terminal /\ task' \in {"read keys", "second byte"}
    <3>1. CASE Head(kb_in) = EXT
      BY <1>0, <1>4, <3>1 DEF keyboard_read
    <3>2. CASE Head(kb_in) # EXT
      <4>1. Decoded(FALSE, Head(kb_in)) \in Seq(Keys)
        BY <2>1, <3>2, DecodedKeys
      <4>. QED BY <1>0, <1>4, <3>2, <4>1, InProcess DEF keyboard_read
    <3>. QED BY <3>1, <3>2
  <2>. QED BY <2>1, <2>2, TakeByteType
<1>5. CASE get_second_byte
  <2>1. Head(kb_in) \in Codes /\ kb_in # <<>> /\ TakeByte
    BY <1>0, <1>5, HeadTailProperties DEF get_second_byte
  <2>2. Decoded(TRUE, Head(kb_in)) \in Seq(Keys)
    BY <2>1, DecodedKeys
  <2>3. tty' \in Terminal /\ task' \in {"read keys", "second byte"}
    BY <1>0, <1>5, <2>2, InProcess DEF get_second_byte
  <2>. QED BY <2>1, <2>3, TakeByteType
<1>6. CASE tty_dev_write
  <2> DEFINE t == IF tty.left_cnt > 0 THEN Edited(tty, Head(tty.ibuf)) ELSE tty
             u == [t EXCEPT !.ibuf = Tail(@)]
  <2>1. u \in Terminal
    BY <1>0, <1>6, EchoFields DEF tty_dev_write
  <2>2. tty' = u
    BY <1>6 DEF tty_dev_write
  <2>3. SendToFS \/ UNCHANGED <<task, queue>>
    BY <1>6 DEF tty_dev_write
  <2>. HIDE DEF u
  <2>4. /\ task' \in {"read keys", "second byte", "echo", "resume", "receive", "halted"}
        /\ queue' \in Seq(Proc \cup {TASK_TTY})
    BY <2>3, SendToFSType DEF TypeOK
  <2>. QED BY <1>6, <2>1, <2>2, <2>4 DEF tty_dev_write, TypeOK, Terminal, keys
<1>7. CASE ReceiveRequest
  <2>1. fs.src \in Proc
    <3>1. fs.at = "send to TTY"
      BY <1>7 DEF ReceiveRequest
    <3>. QED BY <3>1, FsPlaces
  <2>2. CASE wants[fs.src].type = "DEV_READ"
    <3>1. wants[fs.src].cnt \in Nat /\ <<>> \in Seq(Chars)
      BY <2>1, <2>2, Wanted, EmptySeq
    <3>2. Noting(fs.src) \in Terminal
      BY <1>0, <2>1, <3>1 DEF Noting, Terminal
    <3>3. /\ tty' = Noting(fs.src) /\ proc' = [proc EXCEPT ![fs.src] = "suspended"]
          /\ from' = taken /\ wants' = wants /\ fs' = FsIdle /\ task' = "read keys"
          /\ UNCHANGED <<keys, has_int_msg, queue, taken>>
      BY <1>7, <2>2 DEF ReceiveRequest
    <3>. QED BY <3>2, <3>3 DEF TypeOK, Terminal, keys
  <2>3. CASE wants[fs.src].type # "DEV_READ"
    <3>1. /\ tty' = tty /\ proc' = [proc EXCEPT ![fs.src] = "running"]
          /\ from' = from /\ wants' = [wants EXCEPT ![fs.src] = NoRequest]
          /\ fs' = FsIdle /\ task' = "read keys"
          /\ UNCHANGED <<keys, has_int_msg, queue, taken>>
      BY <1>7, <2>3 DEF ReceiveRequest, Writing
    <3>. QED BY <3>1 DEF TypeOK, keys
  <2>. QED BY <2>2, <2>3
<1>8. CASE FsRequest
  <2>1. queue \in Seq(Proc \cup {TASK_TTY}) /\ queue # <<>> /\ Head(queue) # TASK_TTY
    BY <1>8 DEF FsRequest, TypeOK
  <2>2. Head(queue) \in Proc /\ Tail(queue) \in Seq(Proc \cup {TASK_TTY})
    BY <2>1, HeadTailProperties
  <2>. QED BY <1>8, <2>2 DEF FsRequest, TypeOK, keys
<1>9. CASE FsResume
  <2>1. queue \in Seq(Proc \cup {TASK_TTY}) /\ queue # <<>>
    BY <1>9 DEF FsResume, TypeOK
  <2>2. Tail(queue) \in Seq(Proc \cup {TASK_TTY})
    BY <2>1, HeadTailProperties
  <2>3. LineTaken \in Terminal
    BY <1>0 DEF LineTaken, Terminal
  <2>. QED BY <1>9, <2>2, <2>3 DEF FsResume, TypeOK, keys, Terminal
<1>10. ASSUME NEW p \in Proc, Read(p) \/ Write(p) PROVE TypeOK'
  <2>1. PICK type, n : Ask(p, type, n) /\ [type |-> type, cnt |-> n] \in
                 [type : {"DEV_READ"}, cnt : Counts] \cup [type : {"DEV_WRITE"}, cnt : {0}]
    BY <1>10 DEF Read, Write
  <2>2. Append(queue, p) \in Seq(Proc \cup {TASK_TTY})
    BY AppendProperties DEF TypeOK
  <2>. QED BY <2>1, <2>2 DEF Ask, TypeOK, keys
<1>. QED BY <1>1, <1>2, <1>3, <1>4, <1>5, <1>6, <1>7, <1>8, <1>9, <1>10 DEF Next, TaskStep

\* Every variable of the terminal has its type, whoever reads it.
THEOREM TerminalTypes == Spec => []TypeOK
BY TypeInit, TypeNext, PTL DEF Spec
-----------------------------------------------------------------------------
(* Tty: who is suspended, and what TTY knows of it *)

Reads(p) == wants[p].type = "DEV_READ"

\* Nobody asks to read a terminal that somebody reads.
OneReader == \A p, q \in Proc : Reads(p) /\ Reads(q) => p = q

\* Where a process is, what it wants, and whom FS serves.
Stages ==
    /\ \A p \in Proc : proc[p] = "running" <=> wants[p] = NoRequest
    /\ \A p \in Proc : Suspended(p) => Reads(p)
    /\ \A p \in Proc : proc[p] = "calling" <=> fs.at = "send to TTY" /\ fs.src = p

\* FS has each sender once in its queue, and TTY only with the message that resumes.
Queued ==
    /\ \A i, j \in 1 .. Len(queue) : queue[i] = queue[j] => i = j
    /\ \A i \in 1 .. Len(queue) :
          IF queue[i] = TASK_TTY THEN task \in {"resume", "halted"}
          ELSE proc[queue[i]] = "sending"

\* An open request is that of a suspended process, and so is one that TTY answers.
Noted ==
    /\ tty.left_cnt > 0 \/ task = "resume" =>
          tty.procnr \in Proc /\ Suspended(tty.procnr)
    /\ task = "resume" => fs.at = "receive"

\* The ring holds what has arrived and was not yet taken, and TTY receives only when it
\* has echoed every key.
Ring ==
    /\ taken + Len(kb_in) = Len(arrived) /\ from <= taken
    /\ \A i \in 1 .. Len(kb_in) : kb_in[i] = arrived[taken + i]
    /\ task = "receive" => tty.ibuf = <<>>

\* Of the keys of these codes, those that are not in ibuf any more made the line that
\* a process that asks for n characters has so far, and left_cnt is what it lacks.
LineFits(codes, t, n, at) ==
    /\ decode[codes].ext <=> at = "second byte"
    /\ \E echoed \in Seq(Keys) :
          /\ decode[codes].keys = echoed \o t.ibuf
          /\ FirstLine(echoed, n).line = t.line
          /\ FirstLine(echoed, n).complete <=> at \in {"resume", "halted"}
          /\ at \notin {"resume", "halted"} => t.left_cnt + Len(t.line) = n

CodesTaken  == SubSeq(arrived, from + 1, taken)
LineSoFar(p) == LineFits(CodesTaken, tty, wants[p].cnt, task)

Known == OneReader /\ Stages /\ Queued /\ Noted /\ SuspendedIsKnown
RInv == TypeOK /\ Known
LInv == Ring /\ \A p \in Proc : Suspended(p) => LineSoFar(p)

\* What the invariant reads of the task TTY stays the same.
LEMMA KnownStays ==
    ASSUME Known, UNCHANGED <<fs, queue, proc, wants>>,
           tty'.procnr = tty.procnr, tty'.left_cnt > 0 <=> tty.left_cnt > 0,
           task' = "resume" <=> task = "resume", task' = "halted" <=> task = "halted"
    PROVE  Known'
<1>1. /\ \A p \in Proc : Suspended(p)' <=> Suspended(p)
      /\ \A p \in Proc : Reads(p)' <=> Reads(p)
  BY DEF Suspended, Reads
<1>2. OneReader' /\ Stages' /\ Queued'
  BY <1>1 DEF Known, OneReader, Stages, Queued
<1>3. Noted' /\ SuspendedIsKnown'
  BY <1>1 DEF Known, Noted, SuspendedIsKnown
<1>. QED BY <1>2, <1>3 DEF Known

\* TTY sends to FS that the line is there, or halts.
LEMMA SendsKnown ==
    ASSUME RInv, task = "echo", tty.left_cnt > 0, SendToFS,
           UNCHANGED <<fs, proc, wants>>, tty'.procnr = tty.procnr
    PROVE  Known'
<1>1. /\ \A p \in Proc : Suspended(p)' <=> Suspended(p)
      /\ \A p \in Proc : Reads(p)' <=> Reads(p)
  BY DEF Suspended, Reads
<1>2. OneReader' /\ Stages'
  BY <1>1 DEF RInv, Known, OneReader, Stages
<1>3. Suspended(tty.procnr) /\ tty.procnr \in Proc
  BY DEF RInv, Known, Noted
<1>4. CASE fs.at = "send to TTY"
  <2>1. task' = "halted" /\ queue' = queue
    BY <1>4 DEF SendToFS
  <2>2. Queued'
    BY <2>1 DEF RInv, Known, Queued
  <2>3. Noted'
    BY <1>1, <1>3, <2>1 DEF Noted
  <2>4. SuspendedIsKnown'
    BY <1>1, <2>1 DEF RInv, Known, SuspendedIsKnown
  <2>. QED BY <1>2, <2>2, <2>3, <2>4 DEF Known
<1>5. CASE fs.at # "send to TTY"
  <2>1. task' = "resume" /\ queue' = Append(queue, TASK_TTY) /\ fs.at = "receive"
    <3>1. fs.at = "receive"
      BY <1>5, FsPlaces DEF RInv
    <3>. QED BY <1>5, <3>1 DEF SendToFS
  <2>2. Queued'
    <3>1. /\ queue \in Seq(Proc \cup {TASK_TTY}) /\ Len(queue) \in Nat
          /\ \A i \in 1 .. Len(queue) : queue[i] \in Proc \cup {TASK_TTY}
      BY ElementOfSeq, LenProperties DEF RInv, TypeOK
    <3>2. \A i \in 1 .. Len(queue) : queue[i] # TASK_TTY
      BY DEF RInv, Known, Queued
    <3>3. /\ Len(queue') = Len(queue) + 1 /\ queue'[Len(queue) + 1] = TASK_TTY
          /\ \A i \in 1 .. Len(queue) : queue'[i] = queue[i]
      BY <2>1, <3>1, AppendProperties
    <3>4. ASSUME NEW i \in 1 .. Len(queue'), NEW j \in 1 .. Len(queue'), queue'[i] = queue'[j]
          PROVE  i = j
      <4>1. CASE i \in 1 .. Len(queue) /\ j \in 1 .. Len(queue)
        BY <3>3, <3>4, <4>1 DEF RInv, Known, Queued
      <4>2. CASE i = Len(queue) + 1 \/ j = Len(queue) + 1
        BY <3>1, <3>2, <3>3, <3>4, <4>2
      <4>. QED BY <3>1, <3>3, <4>1, <4>2
    <3>5. ASSUME NEW i \in 1 .. Len(queue'), queue'[i] # TASK_TTY
          PROVE  proc'[queue'[i]] = "sending"
      <4>1. i \in 1 .. Len(queue)
        BY <3>1, <3>3, <3>5
      <4>. QED BY <3>2, <3>3, <4>1 DEF RInv, Known, Queued
    <3>. QED BY <2>1, <3>4, <3>5 DEF Queued
  <2>3. Noted'
    BY <1>1, <1>3, <2>1 DEF Noted
  <2>4. SuspendedIsKnown'
    BY <1>1, <2>1 DEF RInv, Known, SuspendedIsKnown
  <2>. QED BY <1>2, <2>2, <2>3, <2>4 DEF Known
<1>. QED BY <1>4, <1>5

\* When TTY echoes a key: the request stays open, or the line is complete.
LEMMA EchoKnown ==
    ASSUME RInv, tty_dev_write
    PROVE  Known'
<1> DEFINE t == IF tty.left_cnt > 0 THEN Edited(tty, Head(tty.ibuf)) ELSE tty
           u == [t EXCEPT !.ibuf = Tail(@)]
<1>1. tty \in Terminal /\ tty.left_cnt \in Nat
  BY DEF RInv, TypeOK, Terminal
<1>2. /\ task = "echo" /\ tty' = u /\ UNCHANGED <<fs, proc, wants>>
      /\ IF tty.left_cnt > 0 /\ Complete(t, Head(tty.ibuf))
         THEN SendToFS ELSE UNCHANGED <<task, queue>>
  BY DEF tty_dev_write
<1>3. /\ tty'.procnr = tty.procnr /\ tty'.left_cnt = t.left_cnt /\ t \in Terminal
  <2>1. tty.ibuf # <<>>
    BY DEF tty_dev_write
  <2>. QED BY <1>1, <1>2, <2>1, EchoFields
<1>4. CASE tty.left_cnt > 0 /\ Complete(t, Head(tty.ibuf))
  <2>1. SendToFS
    BY <1>2, <1>4
  <2>. QED BY <1>2, <1>3, <1>4, <2>1, SendsKnown
<1>5. CASE ~(tty.left_cnt > 0 /\ Complete(t, Head(tty.ibuf)))
  <2>1. UNCHANGED <<task, queue>>
    BY <1>2, <1>5
  <2>2. tty'.left_cnt > 0 <=> tty.left_cnt > 0
    <3>1. t.left_cnt \in Nat
      BY <1>3 DEF Terminal
    <3>2. CASE tty.left_cnt > 0
      <4>1. t.left_cnt # 0
        BY <1>5, <3>2 DEF Complete
      <4>. QED BY <1>3, <3>1, <3>2, <4>1
    <3>3. CASE ~(tty.left_cnt > 0)
      BY <1>3, <3>3
    <3>. QED BY <3>2, <3>3
  <2>. QED BY <1>2, <1>3, <2>1, <2>2, KnownStays DEF RInv
<1>. QED BY <1>4, <1>5

\* The process that FS serves is not in the queue of FS.
LEMMA QueueStays ==
    ASSUME RInv, task \notin {"resume", "halted"}, queue' = queue,
           NEW p \in Proc, proc[p] = "calling", \A q \in Proc : q # p => proc'[q] = proc[q]
    PROVE  Queued'
<1>1. \A i \in 1 .. Len(queue) : queue[i] # TASK_TTY
  BY DEF RInv, Known, Queued
<1>2. \A i \in 1 .. Len(queue) : queue[i] \in Proc
  <2>1. queue \in Seq(Proc \cup {TASK_TTY})
    BY DEF RInv, TypeOK
  <2>. QED BY <1>1, <2>1, ElementOfSeq
<1>3. \A i \in 1 .. Len(queue) : proc[queue[i]] = "sending"
  BY <1>1 DEF RInv, Known, Queued
<1>4. \A i \in 1 .. Len(queue) : proc'[queue[i]] = "sending"
  BY <1>2, <1>3
<1>5. \A i, j \in 1 .. Len(queue) : queue[i] = queue[j] => i = j
  BY DEF RInv, Known, Queued
<1>. QED BY <1>1, <1>4, <1>5 DEF Queued

\* TTY answers a request of FS: it notes the one reader, or prints.
LEMMA RequestKnown ==
    ASSUME RInv, ReceiveRequest
    PROVE  Known'
<1> DEFINE p == fs.src
<1>1. /\ p \in Proc /\ fs.at = "send to TTY" /\ task = "receive" /\ tty \in Terminal
      /\ fs' = FsIdle /\ task' = "read keys" /\ queue' = queue
      /\ proc \in [Proc -> {"running", "sending", "calling", "suspended"}]
      /\ DOMAIN wants = Proc
  BY FsPlaces DEF RInv, TypeOK, Terminal, ReceiveRequest
<1>2. fs'.at # "send to TTY"
  BY <1>1 DEF FsIdle
<1>3. proc[p] = "calling" /\ \A q \in Proc : q # p => proc[q] # "calling"
  BY <1>1 DEF RInv, Known, Stages
<1>4. CASE wants[p].type = "DEV_READ"
  <2>1. /\ tty' = Noting(p) /\ proc' = [proc EXCEPT ![p] = "suspended"] /\ wants' = wants
    BY <1>4 DEF ReceiveRequest
  <2>2. wants[p] # NoRequest /\ wants[p].cnt \in Nat \ {0}
    BY <1>1, <1>4, Wanted DEF RInv
  <2>3. tty'.procnr = p /\ tty'.left_cnt = wants[p].cnt
    BY <1>1, <2>1 DEF Noting, Terminal
  <2>4. \A q \in Proc : proc'[q] = IF q = p THEN "suspended" ELSE proc[q]
    BY <1>1, <2>1
  <2>5. \A q \in Proc : Reads(q) => q = p
    BY <1>1, <1>4 DEF RInv, Known, OneReader, Reads
  <2>6. OneReader'
    BY <2>1 DEF RInv, Known, OneReader, Reads
  <2>7. Stages'
    <3>0. \A q \in Proc : /\ proc[q] = "running" <=> wants[q] = NoRequest
                          /\ proc[q] = "suspended" => wants[q].type = "DEV_READ"
      BY DEF RInv, Known, Stages, Suspended, Reads
    <3>1. \A q \in Proc : proc'[q] = "running" <=> wants'[q] = NoRequest
      BY ONLY <2>1, <2>2, <2>4, <3>0
    <3>2. \A q \in Proc : Suspended(q)' => Reads(q)'
      <4>1. \A q \in Proc : proc'[q] = "suspended" => wants'[q].type = "DEV_READ"
        BY ONLY <1>4, <2>1, <2>4, <3>0
      <4>. QED BY <4>1 DEF Suspended, Reads
    <3>3. \A q \in Proc : proc'[q] # "calling"
      BY <1>3, <2>4
    <3>. QED BY <1>2, <3>1, <3>2, <3>3 DEF Stages
  <2>8. Queued'
    BY <1>1, <1>3, <2>4, QueueStays
  <2>9. Noted'
    BY <1>1, <2>3, <2>4 DEF Noted, Suspended
  <2>10. SuspendedIsKnown'
    <3>1. ASSUME NEW q \in Proc, Suspended(q)' PROVE q = p
      <4>1. q # p => Suspended(q)
        BY <2>4, <3>1 DEF Suspended
      <4>. QED BY <2>5, <4>1 DEF RInv, Known, Stages
    <3>2. tty'.left_cnt > 0
      BY <2>2, <2>3
    <3>. QED BY <2>3, <3>1, <3>2 DEF SuspendedIsKnown
  <2>. QED BY <2>6, <2>7, <2>8, <2>9, <2>10 DEF Known
<1>5. CASE wants[p].type # "DEV_READ"
  <2>1. /\ tty' = tty /\ proc' = [proc EXCEPT ![p] = "running"]
        /\ wants' = [wants EXCEPT ![p] = NoRequest]
    BY <1>5 DEF ReceiveRequest, Writing
  <2>2. /\ \A q \in Proc : proc'[q] = IF q = p THEN "running" ELSE proc[q]
        /\ \A q \in Proc : wants'[q] = IF q = p THEN NoRequest ELSE wants[q]
        /\ NoRequest.type = "none"
    BY <1>1, <2>1 DEF NoRequest
  <2>3. \A q \in Proc : Reads(q)' <=> Reads(q)
    BY <1>5, <2>2 DEF Reads
  <2>4. \A q \in Proc : Suspended(q)' <=> Suspended(q)
    BY <1>3, <2>2 DEF Suspended
  <2>5. OneReader'
    BY <2>3 DEF RInv, Known, OneReader
  <2>6. Stages'
    <3>1. \A q \in Proc : proc'[q] = "running" <=> wants'[q] = NoRequest
      BY <2>2 DEF RInv, Known, Stages
    <3>2. \A q \in Proc : Suspended(q)' => Reads(q)'
      BY <2>3, <2>4 DEF RInv, Known, Stages
    <3>3. \A q \in Proc : proc'[q] # "calling"
      BY <1>3, <2>2
    <3>. QED BY <1>2, <3>1, <3>2, <3>3 DEF Stages
  <2>7. Queued'
    BY <1>1, <1>3, <2>2, QueueStays
  <2>8. Noted'
    BY <1>1, <2>1, <2>4 DEF RInv, Known, Noted
  <2>9. SuspendedIsKnown'
    BY <1>1, <2>1, <2>4 DEF RInv, Known, SuspendedIsKnown
  <2>. QED BY <2>5, <2>6, <2>7, <2>8, <2>9 DEF Known
<1>. QED BY <1>4, <1>5

\* FS takes the first of its queue.
LEMMA QueueServed ==
    ASSUME RInv, queue # <<>>
    PROVE  /\ Head(queue) = queue[1] /\ 1 \in 1 .. Len(queue)
           /\ \A i \in 1 .. Len(Tail(queue)) : /\ i + 1 \in 1 .. Len(queue)
                                              /\ Tail(queue)[i] = queue[i + 1]
           /\ \A i \in 1 .. Len(Tail(queue)) : Tail(queue)[i] # Head(queue)
           /\ \A i, j \in 1 .. Len(Tail(queue)) : Tail(queue)[i] = Tail(queue)[j] => i = j
           /\ \A i \in 1 .. Len(Tail(queue)) : Tail(queue)[i] \in Proc \cup {TASK_TTY}
<1>1. queue \in Seq(Proc \cup {TASK_TTY})
  BY DEF RInv, TypeOK
<1>2. /\ Len(queue) \in Nat \ {0} /\ Len(Tail(queue)) = Len(queue) - 1
      /\ \A i \in 1 .. Len(Tail(queue)) : Tail(queue)[i] = queue[i + 1]
      /\ \A i \in 1 .. Len(queue) : queue[i] \in Proc \cup {TASK_TTY}
  BY <1>1, HeadTailProperties, EmptySeq, ElementOfSeq
<1>3. Head(queue) = queue[1]
  BY <1>1
<1>4. \A i, j \in 1 .. Len(queue) : queue[i] = queue[j] => i = j
  BY DEF RInv, Known, Queued
<1>5. /\ 1 \in 1 .. Len(queue)
      /\ \A i \in 1 .. Len(Tail(queue)) : i + 1 \in 1 .. Len(queue) /\ i + 1 # 1
  BY ONLY <1>2
<1>6. \A i \in 1 .. Len(Tail(queue)) : Tail(queue)[i] # Head(queue)
  BY <1>2, <1>3, <1>4, <1>5
<1>7. ASSUME NEW i \in 1 .. Len(Tail(queue)), NEW j \in 1 .. Len(Tail(queue)),
             Tail(queue)[i] = Tail(queue)[j]
      PROVE  i = j
  <2>1. i + 1 = j + 1
    BY <1>2, <1>4, <1>5, <1>7
  <2>2. i \in Int /\ j \in Int
    OBVIOUS
  <2>. QED BY ONLY <2>1, <2>2
<1>. QED BY <1>2, <1>3, <1>5, <1>6, <1>7

\* FS passes on a request.
LEMMA PassesKnown ==
    ASSUME RInv, FsRequest
    PROVE  Known'
<1> DEFINE p == Head(queue)
<1>1. /\ queue # <<>> /\ p # TASK_TTY /\ fs.at = "receive" /\ task # "halted"
      /\ fs' = [at |-> "send to TTY", src |-> p] /\ proc' = [proc EXCEPT ![p] = "calling"]
      /\ queue' = Tail(queue) /\ UNCHANGED <<tty, wants>>
      /\ task' = IF task = "resume" THEN "halted" ELSE task
  BY DEF FsRequest
<1>2. p = queue[1] /\ p \in Proc /\ proc[p] = "sending"
  <2>1. p = queue[1] /\ 1 \in 1 .. Len(queue)
    BY <1>1, QueueServed
  <2>2. queue \in Seq(Proc \cup {TASK_TTY})
    BY DEF RInv, TypeOK
  <2>3. p \in Proc
    <3>1. Head(queue) \in Proc \cup {TASK_TTY}
      BY <1>1, <2>2, HeadTailProperties
    <3>. QED BY <1>1, <3>1
  <2>. QED BY <1>1, <2>1, <2>3 DEF RInv, Known, Queued
<1>3. /\ DOMAIN proc = Proc
      /\ \A q \in Proc : proc'[q] = IF q = p THEN "calling" ELSE proc[q]
  BY <1>1 DEF RInv, TypeOK
<1>4. /\ \A q \in Proc : Suspended(q)' <=> Suspended(q)
      /\ \A q \in Proc : Reads(q)' <=> Reads(q)
  BY <1>1, <1>2, <1>3 DEF Suspended, Reads
<1>5. OneReader'
  BY <1>4 DEF RInv, Known, OneReader
<1>6. Stages'
  <2>1. \A q \in Proc : proc[q] # "calling"
    BY <1>1 DEF RInv, Known, Stages
  <2>2. \A q \in Proc : proc'[q] = "calling" <=> fs'.at = "send to TTY" /\ fs'.src = q
    BY <1>1, <1>3, <2>1
  <2>3. \A q \in Proc : proc'[q] = "running" <=> wants'[q] = NoRequest
    BY <1>1, <1>2, <1>3 DEF RInv, Known, Stages
  <2>4. \A q \in Proc : Suspended(q)' => Reads(q)'
    BY <1>4 DEF RInv, Known, Stages
  <2>. QED BY <2>2, <2>3, <2>4 DEF Stages
<1>7. Queued'
  <2>1. /\ \A i \in 1 .. Len(queue') : queue'[i] # p
        /\ \A i \in 1 .. Len(queue') : i + 1 \in 1 .. Len(queue) /\ queue'[i] = queue[i + 1]
        /\ \A i, j \in 1 .. Len(queue') : queue'[i] = queue'[j] => i = j
        /\ \A i \in 1 .. Len(queue') : queue'[i] \in Proc \cup {TASK_TTY}
    BY <1>1, QueueServed
  <2>2. ASSUME NEW i \in 1 .. Len(queue')
        PROVE  IF queue'[i] = TASK_TTY THEN task' \in {"resume", "halted"}
               ELSE proc'[queue'[i]] = "sending"
    <3>1. IF queue[i + 1] = TASK_TTY THEN task \in {"resume", "halted"}
          ELSE proc[queue[i + 1]] = "sending"
      BY <2>1 DEF RInv, Known, Queued
    <3>. QED BY <1>1, <1>3, <2>1, <3>1
  <2>. QED BY <2>1, <2>2 DEF Queued
<1>8. Noted'
  BY <1>1, <1>4 DEF RInv, Known, Noted
<1>9. SuspendedIsKnown'
  BY <1>1, <1>4 DEF RInv, Known, SuspendedIsKnown
<1>. QED BY <1>5, <1>6, <1>7, <1>8, <1>9 DEF Known

\* FS resumes the process that TTY names.
LEMMA ResumesKnown ==
    ASSUME RInv, FsResume
    PROVE  Known'
<1> DEFINE p == tty.procnr
<1>1. /\ queue # <<>> /\ Head(queue) = TASK_TTY /\ fs.at = "receive" /\ task # "halted"
      /\ proc' = [proc EXCEPT ![p] = "running"] /\ wants' = [wants EXCEPT ![p] = NoRequest]
      /\ queue' = Tail(queue) /\ fs' = fs /\ tty' = LineTaken /\ task' = "echo"
  BY DEF FsResume
<1>2. task = "resume" /\ p \in Proc /\ Suspended(p)
  <2>1. queue[1] = TASK_TTY /\ 1 \in 1 .. Len(queue)
    BY <1>1, QueueServed
  <2>2. task = "resume"
    BY <1>1, <2>1 DEF RInv, Known, Queued
  <2>. QED BY <2>2 DEF RInv, Known, Noted
<1>3. /\ \A q \in Proc : proc'[q] = IF q = p THEN "running" ELSE proc[q]
      /\ \A q \in Proc : wants'[q] = IF q = p THEN NoRequest ELSE wants[q]
      /\ NoRequest.type = "none" /\ tty'.left_cnt = 0 /\ tty'.procnr = p
  BY <1>1 DEF RInv, TypeOK, NoRequest, LineTaken
<1>4. \A q \in Proc : ~Suspended(q)'
  <2>1. \A q \in Proc : Suspended(q) => q = p
    BY DEF RInv, Known, SuspendedIsKnown
  <2>. QED BY <1>3, <2>1 DEF Suspended
<1>5. OneReader'
  BY <1>3 DEF RInv, Known, OneReader, Reads
<1>6. Stages'
  <2>1. \A q \in Proc : proc[q] # "calling"
    BY <1>1 DEF RInv, Known, Stages
  <2>2. \A q \in Proc : proc'[q] # "calling"
    BY <1>3, <2>1
  <2>3. \A q \in Proc : proc'[q] = "running" <=> wants'[q] = NoRequest
    <3>1. \A q \in Proc : proc[q] = "running" <=> wants[q] = NoRequest
      BY DEF RInv, Known, Stages
    <3>. QED BY ONLY <1>3, <3>1
  <2>. QED BY <1>1, <1>4, <2>2, <2>3 DEF Stages
<1>7. Queued'
  <2>1. /\ \A i \in 1 .. Len(queue') : queue'[i] # TASK_TTY
        /\ \A i \in 1 .. Len(queue') : i + 1 \in 1 .. Len(queue) /\ queue'[i] = queue[i + 1]
        /\ \A i, j \in 1 .. Len(queue') : queue'[i] = queue'[j] => i = j
        /\ \A i \in 1 .. Len(queue') : queue'[i] \in Proc \cup {TASK_TTY}
    BY <1>1, QueueServed
  <2>2. ASSUME NEW i \in 1 .. Len(queue') PROVE proc'[queue'[i]] = "sending"
    <3>1. proc[queue[i + 1]] = "sending"
      BY <2>1 DEF RInv, Known, Queued
    <3>2. queue[i + 1] # p /\ queue[i + 1] \in Proc
      BY <1>2, <2>1, <3>1 DEF Suspended
    <3>. QED BY <1>3, <2>1, <3>1, <3>2
  <2>. QED BY <2>1, <2>2 DEF Queued
<1>8. Noted'
  BY <1>1, <1>3 DEF Noted
<1>9. SuspendedIsKnown'
  BY <1>4 DEF SuspendedIsKnown
<1>. QED BY <1>5, <1>6, <1>7, <1>8, <1>9 DEF Known

\* A process asks for something; unless terminals are shared, nobody reads yet if it
\* is to read.
LEMMA AskKnown ==
    ASSUME RInv, ~SharedReads, NEW p \in Proc, NEW type, NEW n, Ask(p, type, n),
           type \in {"DEV_READ", "DEV_WRITE"}
    PROVE  Known'
<1>1. /\ proc[p] = "running" /\ proc' = [proc EXCEPT ![p] = "sending"]
      /\ wants' = [wants EXCEPT ![p] = [type |-> type, cnt |-> n]]
      /\ queue' = Append(queue, p) /\ UNCHANGED <<fs, tty, task>>
      /\ type = "DEV_READ" => \A q \in Proc : ~Reads(q)
  BY DEF Ask, Reads
<1>2. /\ \A q \in Proc : proc'[q] = IF q = p THEN "sending" ELSE proc[q]
      /\ \A q \in Proc : wants'[q] = IF q = p THEN [type |-> type, cnt |-> n] ELSE wants[q]
  BY <1>1 DEF RInv, TypeOK
<1>3. \A q \in Proc : Suspended(q)' <=> Suspended(q)
  BY <1>1, <1>2 DEF Suspended
<1>4. /\ Reads(p)' <=> type = "DEV_READ"
      /\ \A q \in Proc : q # p => (Reads(q)' <=> Reads(q))
  BY <1>2 DEF Reads
<1>5. OneReader'
  <2>1. CASE type = "DEV_READ"
    BY <1>1, <1>4, <2>1 DEF OneReader
  <2>2. CASE type # "DEV_READ"
    BY <1>4, <2>2 DEF RInv, Known, OneReader
  <2>. QED BY <2>1, <2>2
<1>6. Stages'
  <2>0. \A q \in Proc : proc[q] = "calling" <=> fs.at = "send to TTY" /\ fs.src = q
    BY DEF RInv, Known, Stages
  <2>1. \A q \in Proc : proc'[q] = "calling" <=> fs'.at = "send to TTY" /\ fs'.src = q
    <3>1. proc[p] = "running" /\ fs' = fs
      BY <1>1
    <3>2. ASSUME NEW q \in Proc
          PROVE  proc'[q] = "calling" <=> fs'.at = "send to TTY" /\ fs'.src = q
      <4>1. CASE q = p
        BY <1>2, <2>0, <3>1, <4>1
      <4>2. CASE q # p
        BY <1>2, <2>0, <3>1, <4>2
      <4>. QED BY <4>1, <4>2
    <3>. QED BY <3>2
  <2>2. wants'[p] # NoRequest
    <3>1. wants'[p].type = type /\ NoRequest.type = "none"
      BY <1>2 DEF NoRequest
    <3>. QED BY <3>1
  <2>3. \A q \in Proc : proc'[q] = "running" <=> wants'[q] = NoRequest
    BY <1>2, <2>2 DEF RInv, Known, Stages
  <2>4. \A q \in Proc : Suspended(q)' => Reads(q)'
    BY <1>1, <1>3, <1>4 DEF RInv, Known, Stages, Suspended
  <2>. QED BY <2>1, <2>3, <2>4 DEF Stages
<1>7. Queued'
  <2>1. /\ queue \in Seq(Proc \cup {TASK_TTY}) /\ Len(queue) \in Nat
        /\ \A i \in 1 .. Len(queue) : queue[i] \in Proc \cup {TASK_TTY}
        /\ p # TASK_TTY
    <3>1. queue \in Seq(Proc \cup {TASK_TTY})
      BY DEF RInv, TypeOK
    <3>2. p # TASK_TTY
      BY TtyAssumption
    <3>. QED BY <3>1, <3>2, ElementOfSeq, LenProperties
  <2>2. \A i \in 1 .. Len(queue) : queue[i] # p
    BY <1>1, <2>1 DEF RInv, Known, Queued
  <2>3. /\ Len(queue') = Len(queue) + 1 /\ queue'[Len(queue) + 1] = p
        /\ \A i \in 1 .. Len(queue) : queue'[i] = queue[i]
    BY <1>1, <2>1, AppendProperties
  <2>4. ASSUME NEW i \in 1 .. Len(queue'), NEW j \in 1 .. Len(queue'), queue'[i] = queue'[j]
        PROVE  i = j
    <3>1. CASE i \in 1 .. Len(queue) /\ j \in 1 .. Len(queue)
      BY <2>3, <2>4, <3>1 DEF RInv, Known, Queued
    <3>2. CASE i = Len(queue) + 1 \/ j = Len(queue) + 1
      BY <2>1, <2>2, <2>3, <2>4, <3>2
    <3>. QED BY <2>1, <2>3, <3>1, <3>2
  <2>5. ASSUME NEW i \in 1 .. Len(queue')
        PROVE  IF queue'[i] = TASK_TTY THEN task' \in {"resume", "halted"}
               ELSE proc'[queue'[i]] = "sending"
    <3>1. CASE i \in 1 .. Len(queue)
      <4>1. IF queue[i] = TASK_TTY THEN task \in {"resume", "halted"}
            ELSE proc[queue[i]] = "sending"
        BY <3>1 DEF RInv, Known, Queued
      <4>. QED BY <1>1, <1>2, <2>1, <2>2, <2>3, <3>1, <4>1
    <3>2. CASE i = Len(queue) + 1
      BY <1>2, <2>1, <2>3, <3>2
    <3>. QED BY <2>1, <2>3, <3>1, <3>2
  <2>. QED BY <2>4, <2>5 DEF Queued
<1>8. Noted'
  BY <1>1, <1>3 DEF RInv, Known, Noted
<1>9. SuspendedIsKnown'
  BY <1>1, <1>3 DEF RInv, Known, SuspendedIsKnown
<1>. QED BY <1>5, <1>6, <1>7, <1>8, <1>9 DEF Known

LEMMA KnownInit == Init => Known
<1>. SUFFICES ASSUME Init PROVE Known
  OBVIOUS
<1>1. /\ \A p \in Proc : proc[p] = "running" /\ wants[p] = NoRequest /\ wants[p].type = "none"
      /\ fs.at = "receive" /\ queue = <<>> /\ Len(queue) = 0 /\ task = "read keys"
      /\ tty.left_cnt = 0
  BY EmptySeq DEF Init, NoRequest, FsIdle
<1>2. \A p \in Proc : ~Reads(p) /\ ~Suspended(p)
  BY <1>1 DEF Reads, Suspended
<1>3. OneReader /\ SuspendedIsKnown
  BY <1>2 DEF OneReader, SuspendedIsKnown
<1>4. Stages
  <2>1. \A p \in Proc : proc[p] # "calling" /\ fs.at # "send to TTY"
    BY <1>1
  <2>. QED BY <1>1, <1>2, <2>1 DEF Stages
<1>5. Queued
  <2>1. Len(queue) = 0
    BY <1>1
  <2>2. 1 .. Len(queue) = {}
    BY ONLY <2>1
  <2>. QED BY <2>2 DEF Queued
<1>6. Noted
  <2>1. tty.left_cnt = 0 /\ task = "read keys"
    BY <1>1
  <2>2. ~(tty.left_cnt > 0) /\ task # "resume"
    <3>1. ~(0 > 0)
      OBVIOUS
    <3>. QED BY ONLY <2>1, <3>1
  <2>. QED BY <2>2 DEF Noted
<1>. QED BY <1>3, <1>4, <1>5, <1>6 DEF Known

\* Every step keeps what TTY knows.
LEMMA KnownNext ==
    ASSUME ~SharedReads
    PROVE  RInv /\ [Next]_vars => Known'
<1>. SUFFICES ASSUME RInv, [Next]_vars PROVE Known'
  OBVIOUS
<1>0. Known /\ tty \in Terminal /\ kb_in \in Seq(Codes)
  BY DEF RInv, TypeOK, Terminal
<1>1. CASE Press \/ SecondByte \/ clock_handler \/ KeysRead \/ EchoDone \/ ReceiveInt
           \/ UNCHANGED vars
  <2>1. /\ UNCHANGED <<fs, queue, proc, wants, tty>>
        /\ (task' = "resume" <=> task = "resume") /\ (task' = "halted" <=> task = "halted")
    BY <1>1 DEF Press, SecondByte, keyboard_handler, clock_handler, KeysRead, EchoDone,
                ReceiveInt, vars
  <2>. QED BY <1>0, <2>1, KnownStays
<1>2. CASE keyboard_read \/ get_second_byte
  <2>1. /\ UNCHANGED <<fs, queue, proc, wants>>
        /\ task \notin {"resume", "halted"} /\ task' \notin {"resume", "halted"}
    BY <1>2 DEF keyboard_read, get_second_byte, TakeByte
  <2>2. tty' = tty \/ \E ks \in Seq(Keys) : tty' = in_process(ks)
    <3>1. Head(kb_in) \in Codes
      BY <1>0, <1>2, HeadTailProperties DEF keyboard_read, get_second_byte
    <3>. QED BY <1>2, <3>1, DecodedKeys DEF keyboard_read, get_second_byte
  <2>3. tty'.procnr = tty.procnr /\ tty'.left_cnt = tty.left_cnt
    BY <1>0, <2>2, InProcess
  <2>. QED BY <1>0, <2>1, <2>3, KnownStays
<1>3. CASE tty_dev_write
  BY <1>3, EchoKnown
<1>4. CASE ReceiveRequest
  BY <1>4, RequestKnown
<1>5. CASE FsRequest
  BY <1>5, PassesKnown
<1>6. CASE FsResume
  BY <1>6, ResumesKnown
<1>7. ASSUME NEW p \in Proc, Read(p) \/ Write(p) PROVE Known'
  <2>1. PICK type, n : Ask(p, type, n) /\ type \in {"DEV_READ", "DEV_WRITE"}
    BY <1>7 DEF Read, Write
  <2>. QED BY <2>1, AskKnown
<1>. QED BY <1>1, <1>2, <1>3, <1>4, <1>5, <1>6, <1>7 DEF Next, TaskStep

\* Unless processes share a terminal, TTY knows the process that is suspended, and
\* has its request open or the message that resumes it on its way.
THEOREM ReaderIsKnown == ~SharedReads => (Spec => []SuspendedIsKnown)
<1>. SUFFICES ASSUME ~SharedReads PROVE Spec => []SuspendedIsKnown
  OBVIOUS
<1>1. Init => RInv
  BY TypeInit, KnownInit DEF RInv
<1>2. RInv /\ [Next]_vars => RInv'
  BY TypeNext, KnownNext DEF RInv
<1>3. RInv => SuspendedIsKnown
  BY DEF RInv, Known
<1>. QED BY <1>1, <1>2, <1>3, PTL DEF Spec
-----------------------------------------------------------------------------
(* Tty: what the line holds *)

\* The head of one sequence goes to the end of another.
LEMMA HeadMoves ==
    ASSUME NEW X, NEW s \in Seq(X), NEW r \in Seq(X), r # <<>>
    PROVE  Append(s, Head(r)) \o Tail(r) = s \o r
<1>1. PICK x, q : x = Head(r) /\ q = Tail(r)
  OBVIOUS
<1>2. PICK a : a = Append(s, x)
  OBVIOUS
<1>3. /\ x \in X /\ x = r[1] /\ q \in Seq(X) /\ Len(q) = Len(r) - 1 /\ Len(r) \in Nat \ {0}
      /\ \A i \in 1 .. Len(q) : q[i] = r[i + 1]
      /\ Len(s) \in Nat
  BY <1>1, HeadTailProperties, LenProperties, EmptySeq
<1>4. /\ a \in Seq(X) /\ Len(a) = Len(s) + 1
      /\ \A i \in 1 .. Len(s) : a[i] = s[i]
      /\ a[Len(s) + 1] = x
  BY <1>2, <1>3, AppendProperties
<1>5. /\ a \o q \in Seq(X) /\ Len(a \o q) = Len(s) + Len(r)
      /\ \A i \in 1 .. Len(s) + Len(r) :
            (a \o q)[i] = IF i <= Len(s) + 1 THEN a[i] ELSE q[i - (Len(s) + 1)]
  <2>1. Len(a) + Len(q) = Len(s) + Len(r)
    BY <1>3, <1>4
  <2>2. /\ a \o q \in Seq(X) /\ Len(a \o q) = Len(a) + Len(q)
        /\ \A i \in 1 .. Len(a) + Len(q) :
              (a \o q)[i] = IF i <= Len(a) THEN a[i] ELSE q[i - Len(a)]
    BY <1>3, <1>4, ConcatProperties
  <2>3. PICK y : y = a \o q
    OBVIOUS
  <2>4. \A i \in 1 .. Len(s) + Len(r) :
           y[i] = IF i <= Len(s) + 1 THEN a[i] ELSE q[i - (Len(s) + 1)]
    BY <1>4, <2>1, <2>2, <2>3
  <2>. QED BY <2>1, <2>2, <2>3, <2>4
<1>6. /\ s \o r \in Seq(X) /\ Len(s \o r) = Len(s) + Len(r)
      /\ \A i \in 1 .. Len(s) + Len(r) :
            (s \o r)[i] = IF i <= Len(s) THEN s[i] ELSE r[i - Len(s)]
  BY ConcatProperties
<1>7. ASSUME NEW i \in 1 .. Len(s) + Len(r) PROVE (a \o q)[i] = (s \o r)[i]
  <2>1. CASE i <= Len(s)
    <3>1. i <= Len(s) + 1 /\ i \in 1 .. Len(s)
      BY <1>3, <2>1
    <3>. QED BY <1>4, <1>5, <1>6, <2>1, <3>1
  <2>2. CASE i = Len(s) + 1
    <3>1. i <= Len(s) + 1 /\ ~(i <= Len(s)) /\ i - Len(s) = 1
      BY <1>3, <2>2
    <3>2. (a \o q)[i] = x
      BY <1>4, <1>5, <2>2, <3>1
    <3>3. (s \o r)[i] = r[1]
      BY <1>6, <3>1
    <3>. QED BY <1>3, <3>2, <3>3
  <2>3. CASE i > Len(s) + 1
    <3>1. /\ ~(i <= Len(s) + 1) /\ ~(i <= Len(s)) /\ i - (Len(s) + 1) \in 1 .. Len(q)
          /\ i - (Len(s) + 1) + 1 = i - Len(s)
      BY <1>3, <2>3
    <3>2. (a \o q)[i] = q[i - (Len(s) + 1)]
      BY <1>5, <3>1
    <3>3. (s \o r)[i] = r[i - Len(s)]
      BY <1>6, <3>1
    <3>4. q[i - (Len(s) + 1)] = r[i - (Len(s) + 1) + 1]
      BY <1>3, <3>1
    <3>. QED BY <3>1, <3>2, <3>3, <3>4
  <2>4. i <= Len(s) \/ i = Len(s) + 1 \/ i > Len(s) + 1
    BY <1>3
  <2>. QED BY <2>1, <2>2, <2>3, <2>4
<1>8. a \o q = s \o r
  <2>1. PICK y, z : y = a \o q /\ z = s \o r
    OBVIOUS
  <2>. QED BY <1>5, <1>6, <1>7, <2>1, SeqEqual
<1>. QED BY <1>1, <1>2, <1>8

\* Concatenation is associative.
LEMMA Regroup ==
    ASSUME NEW X, NEW s \in Seq(X), NEW t \in Seq(X), NEW u \in Seq(X)
    PROVE  (s \o t) \o u = s \o (t \o u)
BY ConcatAssociative

\* One more scan code: it goes to ibuf as the key it stands for, or is the first byte.
LEMMA TakesCode ==
    ASSUME NEW codes \in Seq(Codes), NEW c \in Codes, NEW t \in Terminal, NEW u \in Terminal,
           NEW n, NEW at, NEW next, LineFits(codes, t, n, at),
           at \notin {"resume", "halted"}, next \notin {"resume", "halted"},
           u.line = t.line, u.left_cnt = t.left_cnt,
           IF at # "second byte" /\ c = EXT
           THEN u.ibuf = t.ibuf /\ next = "second byte"
           ELSE u.ibuf = t.ibuf \o Decoded(at = "second byte", c) /\ next # "second byte"
    PROVE  LineFits(Append(codes, c), u, n, next)
<1>1. PICK echoed \in Seq(Keys) :
        /\ decode[codes].keys = echoed \o t.ibuf
        /\ FirstLine(echoed, n).line = t.line /\ ~FirstLine(echoed, n).complete
        /\ t.left_cnt + Len(t.line) = n
  BY DEF LineFits
<1>2. /\ decode[Append(codes, c)] = DecodeStep(decode[codes], c)
      /\ decode[codes] \in Decoding
  BY DecodeSteps, DecodeEquation
<1>3. decode[codes].ext <=> at = "second byte"
  BY DEF LineFits
<1>4. /\ decode[Append(codes, c)].ext <=> next = "second byte"
      /\ decode[Append(codes, c)].keys = echoed \o u.ibuf
  <2>1. CASE at # "second byte" /\ c = EXT
    <3>1. DecodeStep(decode[codes], c) = [decode[codes] EXCEPT !.ext = TRUE]
      BY <1>3, <2>1 DEF DecodeStep
    <3>2. /\ DecodeStep(decode[codes], c).ext = TRUE
          /\ DecodeStep(decode[codes], c).keys = decode[codes].keys
      BY <1>2, <3>1 DEF Decoding
    <3>. QED BY <1>1, <1>2, <2>1, <3>2
  <2>2. CASE ~(at # "second byte" /\ c = EXT)
    <3>1. DecodeStep(decode[codes], c) =
             [ext |-> FALSE, keys |-> decode[codes].keys \o Decoded(decode[codes].ext, c)]
      BY <1>3, <2>2 DEF DecodeStep
    <3>2. Decoded(decode[codes].ext, c) = Decoded(at = "second byte", c)
      BY <1>3 DEF Decoded
    <3>3. Decoded(at = "second byte", c) \in Seq(Keys) /\ t.ibuf \in Seq(Keys)
      BY <2>2, DecodedKeys DEF Terminal
    <3>4. PICK d, b : d = Decoded(at = "second byte", c) /\ b = t.ibuf
      OBVIOUS
    <3>5. d \in Seq(Keys) /\ b \in Seq(Keys)
      BY <3>3, <3>4
    <3>6. (echoed \o b) \o d = echoed \o (b \o d)
      <4>1. echoed \in Seq(Keys)
        OBVIOUS
      <4>. QED BY ONLY <3>5, <4>1, Regroup
    <3>7. PICK ks : ks = (echoed \o b) \o d
      OBVIOUS
    <3>8. DecodeStep(decode[codes], c) = [ext |-> FALSE, keys |-> ks]
      <4>1. Decoded(decode[codes].ext, c) = d /\ decode[codes].keys = echoed \o b
        BY <1>1, <3>2, <3>4
      <4>. QED BY <3>1, <3>7, <4>1
    <3>9. /\ DecodeStep(decode[codes], c).keys = ks
          /\ DecodeStep(decode[codes], c).ext = FALSE
      BY ONLY <3>8
    <3>10. u.ibuf = b \o d /\ next # "second byte"
      BY <2>2, <3>4
    <3>. QED BY <1>2, <3>6, <3>7, <3>9, <3>10
  <2>. QED BY <2>1, <2>2
<1>. QED BY <1>1, <1>4 DEF LineFits

\* One key less in ibuf: it has become part of the line, or changed it.
LEMMA EchoesKey ==
    ASSUME NEW codes, NEW t \in Terminal, t.ibuf # <<>>, t.left_cnt > 0, NEW n \in Nat,
           NEW e, e = Edited(t, Head(t.ibuf)), NEW u, u = [e EXCEPT !.ibuf = Tail(@)],
           LineFits(codes, t, n, "echo"),
           NEW next, next # "second byte",
           next \in {"resume", "halted"} <=> Complete(e, Head(t.ibuf))
    PROVE  LineFits(codes, u, n, next)
<1> DEFINE k == Head(t.ibuf)
<1>1. PICK echoed \in Seq(Keys) :
        /\ decode[codes].keys = echoed \o t.ibuf
        /\ FirstLine(echoed, n).line = t.line /\ ~FirstLine(echoed, n).complete
        /\ t.left_cnt + Len(t.line) = n
  BY DEF LineFits
<1>2. /\ t.ibuf \in Seq(Keys) /\ k \in Keys /\ Tail(t.ibuf) \in Seq(Keys)
      /\ t.line \in Seq(Chars) /\ Len(t.line) \in Nat /\ t.left_cnt \in Nat
  BY HeadTailProperties, LenProperties DEF Terminal
<1>3. e \in Terminal /\ e.ibuf = t.ibuf
  BY <1>2, EditedFields
<1>4. u.ibuf = Tail(t.ibuf) /\ u.line = e.line /\ u.left_cnt = e.left_cnt
  <2>1. PICK b : b = Tail(t.ibuf)
    OBVIOUS
  <2>2. u = [e EXCEPT !.ibuf = b]
    BY <1>3, <2>1 DEF Terminal
  <2>. QED BY <1>3, <2>1, <2>2 DEF Terminal
<1>5. Append(echoed, k) \in Seq(Keys)
      /\ FirstLine(Append(echoed, k), n) = EditStep(FirstLine(echoed, n), k, n)
  BY <1>2, AppendProperties, FirstLineSteps
<1>6. Append(echoed, k) \o Tail(t.ibuf) = echoed \o t.ibuf
  <2>1. PICK b : b = t.ibuf
    OBVIOUS
  <2>2. b \in Seq(Keys) /\ b # <<>>
    BY <1>2, <2>1
  <2>3. Append(echoed, Head(b)) \o Tail(b) = echoed \o b
    BY <2>2, HeadMoves
  <2>. QED BY <2>1, <2>3
<1>7. /\ FirstLine(Append(echoed, k), n).line = e.line
      /\ FirstLine(Append(echoed, k), n).complete <=> Complete(e, k)
      /\ e.left_cnt + Len(e.line) = n \/ Complete(e, k)
  <2> DEFINE L == FirstLine(echoed, n)
  <2>0. L \in Editing
    BY FirstLineSteps
  <2>. HIDE DEF L, k
  <2>1. CASE k = ENTER
    <3>1. k \notin Chars /\ k # BACKSPACE
      BY <2>1, TtyAssumption
    <3>2. e = t
      BY <3>1 DEF Edited, k
    <3>3. EditStep(L, k, n) = [L EXCEPT !.complete = TRUE]
      BY <1>1, <2>1 DEF EditStep, L
    <3>4. EditStep(L, k, n).line = t.line /\ EditStep(L, k, n).complete
      BY <1>1, <2>0, <3>3 DEF Editing, L
    <3>. QED BY <1>5, <2>1, <3>2, <3>4 DEF Complete, L
  <2>2. CASE k \in Chars
    <3>1. k # ENTER /\ k # BACKSPACE
      BY <2>2, TtyAssumption
    <3>2. e.line = Append(t.line, k) /\ e.left_cnt = t.left_cnt - 1
      <4>1. PICK l : l = Append(t.line, k)
        OBVIOUS
      <4>2. PICK m : m = t.left_cnt - 1
        OBVIOUS
      <4>3. e = [t EXCEPT !.line = l, !.left_cnt = m]
        BY <2>2, <4>1, <4>2 DEF Edited, k, Terminal
      <4>. QED BY <4>1, <4>2, <4>3 DEF Terminal
    <3>3. EditStep(L, k, n) = [line |-> Append(L.line, k), complete |-> Len(L.line) + 1 = n]
      BY <1>1, <3>1 DEF EditStep, L
    <3>4. EditStep(L, k, n).line = e.line /\ (EditStep(L, k, n).complete <=> Len(t.line) + 1 = n)
      <4>1. L.line = t.line
        BY <1>1 DEF L
      <4>2. PICK l : l = Append(t.line, k)
        OBVIOUS
      <4>3. PICK c \in BOOLEAN : c <=> Len(t.line) + 1 = n
        OBVIOUS
      <4>4. EditStep(L, k, n) = [line |-> l, complete |-> c]
        BY <3>3, <4>1, <4>2, <4>3
      <4>5. EditStep(L, k, n).line = l /\ EditStep(L, k, n).complete = c
        BY ONLY <4>4
      <4>. QED BY <3>2, <4>2, <4>3, <4>5
    <3>5. Len(e.line) = Len(t.line) + 1
      <4>1. PICK l : l = t.line
        OBVIOUS
      <4>2. Len(Append(l, k)) = Len(l) + 1
        BY <1>2, <2>2, <4>1, AppendProperties
      <4>. QED BY <3>2, <4>1, <4>2
    <3>6. Complete(e, k) <=> e.left_cnt = 0
      BY <3>1 DEF Complete
    <3>7. /\ Len(t.line) + 1 = n <=> e.left_cnt = 0
          /\ e.left_cnt + Len(e.line) = n
      <4>1. PICK a, b, c, d : a = t.left_cnt /\ b = Len(t.line) /\ c = e.left_cnt
                              /\ d = Len(e.line)
        OBVIOUS
      <4>2. a \in Nat /\ b \in Nat /\ a + b = n /\ c = a - 1 /\ d = b + 1
        BY <1>1, <1>2, <3>2, <3>5, <4>1
      <4>3. (b + 1 = n <=> c = 0) /\ c + d = n
        BY ONLY <4>2
      <4>. QED BY <4>1, <4>3
    <3>. QED BY <1>5, <3>4, <3>6, <3>7 DEF L
  <2>3. CASE k = BACKSPACE
    <3>1. k # ENTER /\ k \notin Chars
      BY <2>3, TtyAssumption
    <3>2. EditStep(L, k, n) =
             [L EXCEPT !.line = SubSeq(L.line, 1, IF L.line = <<>> THEN 0 ELSE Len(L.line) - 1)]
      BY <1>1, <2>3, <3>1 DEF EditStep, L
    <3>3. CASE t.line = <<>>
      <4>1. e = t
        BY <3>1, <3>3 DEF Edited, k
      <4>2. SubSeq(t.line, 1, 0) = <<>>
        BY ONLY SubSeqEmpty
      <4>3. EditStep(L, k, n).line = t.line /\ ~EditStep(L, k, n).complete
        <5>1. L.line = t.line /\ ~L.complete
          BY <1>1 DEF L
        <5>2. EditStep(L, k, n) = [L EXCEPT !.line = SubSeq(t.line, 1, 0)]
          BY <3>2, <3>3, <5>1
        <5>3. EditStep(L, k, n) = [L EXCEPT !.line = t.line]
          BY <3>3, <4>2, <5>2
        <5>. QED BY <2>0, <5>1, <5>3 DEF Editing
      <4>4. ~Complete(e, k)
        <5>1. t.left_cnt \in Nat /\ t.left_cnt > 0
          BY <1>2
        <5>2. t.left_cnt # 0
          BY ONLY <5>1
        <5>. QED BY <3>1, <4>1, <5>2 DEF Complete
      <4>. QED BY <1>1, <1>5, <4>1, <4>3, <4>4 DEF L
    <3>4. CASE t.line # <<>>
      <4>1. PICK l : l = SubSeq(t.line, 1, Len(t.line) - 1)
        OBVIOUS
      <4>2. PICK m : m = t.left_cnt + 1
        OBVIOUS
      <4>3. e = [t EXCEPT !.line = l, !.left_cnt = m]
        BY <2>3, <3>1, <3>4, <4>1, <4>2 DEF Edited, k, Terminal
      <4>4. e.line = l /\ e.left_cnt = m
        BY <4>3 DEF Terminal
      <4>5. EditStep(L, k, n).line = l /\ ~EditStep(L, k, n).complete
        <5>1. L.line = t.line /\ ~L.complete
          BY <1>1 DEF L
        <5>2. EditStep(L, k, n) = [L EXCEPT !.line = l]
          BY <3>2, <3>4, <4>1, <5>1
        <5>. QED BY <2>0, <5>1, <5>2 DEF Editing
      <4>6. Len(l) = Len(t.line) - 1
        BY <1>2, <3>4, <4>1, FrontLast DEF Front
      <4>7. e.left_cnt # 0 /\ e.left_cnt + Len(e.line) = n
        <5>1. PICK a, b, c, d : a = t.left_cnt /\ b = Len(t.line) /\ c = e.left_cnt
                                /\ d = Len(e.line)
          OBVIOUS
        <5>2. a \in Nat /\ b \in Nat /\ a + b = n /\ c = a + 1 /\ d = b - 1
          BY <1>1, <1>2, <4>2, <4>4, <4>6, <5>1
        <5>3. c # 0 /\ c + d = n
          BY ONLY <5>2
        <5>. QED BY <5>1, <5>3
      <4>8. ~Complete(e, k)
        BY <3>1, <4>7 DEF Complete
      <4>. QED BY <1>5, <4>4, <4>5, <4>7, <4>8 DEF L
    <3>. QED BY <3>3, <3>4
  <2>. QED BY <1>2, <2>1, <2>2, <2>3 DEF Keys
<1>8. ~decode[codes].ext
  BY DEF LineFits
<1>9. decode[codes].keys = Append(echoed, k) \o u.ibuf
  BY <1>1, <1>4, <1>6
<1>10. next \notin {"resume", "halted"} => u.left_cnt + Len(u.line) = n
  BY <1>4, <1>7
<1>. QED BY <1>4, <1>5, <1>7, <1>8, <1>9, <1>10 DEF LineFits

\* The sequence in front of another one.
LEMMA PrefixTaken ==
    ASSUME NEW X, NEW s \in Seq(X), NEW r \in Seq(X)
    PROVE  SubSeq(s \o r, 1, Len(s \o r) - Len(r)) = s
<1>1. PICK q : q = s \o r
  OBVIOUS
<1>2. /\ Len(s) \in Nat /\ Len(q) - Len(r) = Len(s)
      /\ \A i \in 1 .. Len(s) : q[i] = s[i] /\ s[i] \in X
  <2>1. Len(s) \in Nat /\ Len(r) \in Nat /\ \A i \in 1 .. Len(s) : s[i] \in X
    BY LenProperties, ElementOfSeq
  <2>2. /\ Len(s \o r) = Len(s) + Len(r)
        /\ \A i \in 1 .. Len(s) + Len(r) :
              (s \o r)[i] = IF i <= Len(s) THEN s[i] ELSE r[i - Len(s)]
    BY ConcatProperties
  <2>3. ASSUME NEW i \in 1 .. Len(s) PROVE q[i] = s[i]
    <3>1. i \in 1 .. Len(s) + Len(r) /\ i <= Len(s)
      BY <2>1
    <3>. QED BY <1>1, <2>2, <3>1
  <2>. QED BY <1>1, <2>1, <2>2, <2>3
<1>3. PICK m : m = Len(s)
  OBVIOUS
<1>4. /\ SubSeq(q, 1, m) \in Seq(X) /\ Len(SubSeq(q, 1, m)) = IF 1 <= m THEN m - 1 + 1 ELSE 0
      /\ \A i \in 1 .. m - 1 + 1 : SubSeq(q, 1, m)[i] = q[1 + i - 1]
  <2>1. \A i \in 1 .. m : q[i] \in X
    BY <1>2, <1>3
  <2>. QED BY <1>2, <1>3, <2>1, SubSeqProperties
<1>5. PICK z : z = SubSeq(q, 1, m)
  OBVIOUS
<1>6. z \in Seq(X) /\ Len(z) = m /\ \A i \in 1 .. m : z[i] = q[i]
  BY <1>2, <1>3, <1>4, <1>5
<1>7. z = s
  BY <1>2, <1>3, <1>6, SeqEqual
<1>. QED BY <1>1, <1>2, <1>3, <1>5, <1>7

\* A stretch of a sequence, and the same one with the element behind it.
LEMMA SubSeqGrows ==
    ASSUME NEW X, NEW s \in Seq(X), NEW m \in Nat, NEW n \in Nat, m <= n, n + 1 <= Len(s)
    PROVE  SubSeq(s, m + 1, n + 1) = Append(SubSeq(s, m + 1, n), s[n + 1])
<1>0. Len(s) \in Nat /\ \A i \in 1 .. Len(s) : s[i] \in X
  BY LenProperties, ElementOfSeq
<1>1. PICK a, b : a = SubSeq(s, m + 1, n + 1) /\ b = SubSeq(s, m + 1, n)
  OBVIOUS
<1>2. /\ a \in Seq(X) /\ Len(a) = n - m + 1
      /\ \A i \in 1 .. n - m + 1 : a[i] = s[m + i]
  <2>1. m + 1 \in Int /\ n + 1 \in Int /\ m + 1 <= n + 1
    OBVIOUS
  <2>2. \A i \in m + 1 .. n + 1 : s[i] \in X
    BY <1>0
  <2>3. /\ a \in Seq(X)
        /\ Len(a) = IF m + 1 <= n + 1 THEN n + 1 - (m + 1) + 1 ELSE 0
        /\ \A i \in 1 .. n + 1 - (m + 1) + 1 : a[i] = s[m + 1 + i - 1]
    BY <1>1, <2>1, <2>2, SubSeqProperties
  <2>. QED BY <2>1, <2>3
<1>3. /\ b \in Seq(X) /\ Len(b) = n - m
      /\ \A i \in 1 .. n - m : b[i] = s[m + i]
  <2>1. m + 1 \in Int /\ n \in Int
    OBVIOUS
  <2>2. \A i \in m + 1 .. n : s[i] \in X
    BY <1>0
  <2>3. /\ b \in Seq(X)
        /\ Len(b) = IF m + 1 <= n THEN n - (m + 1) + 1 ELSE 0
        /\ \A i \in 1 .. n - (m + 1) + 1 : b[i] = s[m + 1 + i - 1]
    BY <1>1, <2>1, <2>2, SubSeqProperties
  <2>. QED BY <2>1, <2>3
<1>4. PICK x : x = s[n + 1]
  OBVIOUS
<1>5. PICK c : c = Append(b, x)
  OBVIOUS
<1>6. /\ c \in Seq(X) /\ Len(c) = n - m + 1 /\ c[n - m + 1] = x
      /\ \A i \in 1 .. n - m : c[i] = b[i]
  <2>1. n + 1 \in 1 .. Len(s)
    BY <1>0
  <2>2. x \in X
    BY <1>0, <1>4, <2>1
  <2>. QED BY <1>3, <1>5, <2>2, AppendProperties
<1>7. ASSUME NEW i \in 1 .. n - m + 1 PROVE a[i] = c[i]
  <2>1. CASE i = n - m + 1
    <3>1. m + i = n + 1
      BY <2>1
    <3>. QED BY <1>2, <1>4, <1>6, <2>1, <3>1
  <2>2. CASE i # n - m + 1
    <3>1. i \in 1 .. n - m
      BY <2>2
    <3>. QED BY <1>2, <1>3, <1>6, <3>1
  <2>. QED BY <2>1, <2>2
<1>8. a = c
  BY <1>2, <1>6, <1>7, SeqEqual
<1>. QED BY <1>1, <1>4, <1>5, <1>8

\* A stretch of a sequence stays the same when an element is added behind it.
LEMMA SubSeqKept ==
    ASSUME NEW X, NEW s \in Seq(X), NEW x \in X, NEW m \in Nat, NEW n \in Nat, n <= Len(s)
    PROVE  /\ SubSeq(Append(s, x), m + 1, n) = SubSeq(s, m + 1, n)
           /\ SubSeq(s, m + 1, n) \in Seq(X)
<1>0. /\ Len(s) \in Nat /\ \A i \in 1 .. Len(s) : s[i] \in X
      /\ \A i \in 1 .. Len(s) : Append(s, x)[i] = s[i]
  BY LenProperties, ElementOfSeq, AppendProperties
<1>1. PICK t : t = Append(s, x)
  OBVIOUS
<1>2. PICK a, b : a = SubSeq(t, m + 1, n) /\ b = SubSeq(s, m + 1, n)
  OBVIOUS
<1>3. m + 1 \in Int /\ n \in Int
  OBVIOUS
<1>4. \A i \in m + 1 .. n : s[i] \in X /\ t[i] = s[i]
  BY <1>0, <1>1
<1>5. /\ a \in Seq(X)
      /\ Len(a) = IF m + 1 <= n THEN n - (m + 1) + 1 ELSE 0
      /\ \A i \in 1 .. n - (m + 1) + 1 : a[i] = t[m + 1 + i - 1]
  BY <1>2, <1>3, <1>4, SubSeqProperties
<1>6. /\ b \in Seq(X)
      /\ Len(b) = IF m + 1 <= n THEN n - (m + 1) + 1 ELSE 0
      /\ \A i \in 1 .. n - (m + 1) + 1 : b[i] = s[m + 1 + i - 1]
  BY <1>2, <1>3, <1>4, SubSeqProperties
<1>7. ASSUME NEW i \in 1 .. Len(a) PROVE a[i] = b[i]
  <2>1. i \in 1 .. n - (m + 1) + 1 /\ m + 1 + i - 1 \in m + 1 .. n
    BY <1>5
  <2>. QED BY <1>4, <1>5, <1>6, <2>1
<1>8. a = b
  BY <1>5, <1>6, <1>7, SeqEqual
<1>. QED BY <1>1, <1>2, <1>6, <1>8

\* The scan codes that TTY has read for its request.
LEMMA CodesSoFar ==
    ASSUME TypeOK, Ring
    PROVE  /\ CodesTaken \in Seq(Codes) /\ taken <= Len(arrived) /\ Len(arrived) \in Nat
           /\ kb_in # <<>> =>
                /\ Head(kb_in) \in Codes
                /\ taken + 1 <= Len(arrived) /\ arrived[taken + 1] = Head(kb_in)
<1>1. /\ arrived \in Seq(Codes) /\ kb_in \in Seq(Codes) /\ taken \in Nat /\ from \in Nat
  BY DEF TypeOK
<1>2. Len(arrived) \in Nat /\ Len(kb_in) \in Nat /\ taken + Len(kb_in) = Len(arrived)
  BY <1>1, LenProperties DEF Ring
<1>3. taken <= Len(arrived)
  BY <1>1, <1>2
<1>4. CodesTaken \in Seq(Codes)
  <2>1. \E x : x \in Codes
    BY DEF Codes
  <2>. QED BY <1>1, <1>3, <2>1, SubSeqKept DEF CodesTaken
<1>5. ASSUME kb_in # <<>>
      PROVE  /\ Head(kb_in) \in Codes
             /\ taken + 1 <= Len(arrived) /\ arrived[taken + 1] = Head(kb_in)
  <2>1. Head(kb_in) \in Codes /\ Len(kb_in) \in Nat \ {0}
    BY <1>1, <1>5, HeadTailProperties, EmptySeq
  <2>2. Head(kb_in) = kb_in[1]
    BY <1>1
  <2>3. 1 \in 1 .. Len(kb_in) /\ taken + 1 <= Len(arrived)
    BY <1>1, <1>2, <2>1
  <2>. QED BY <2>1, <2>2, <2>3 DEF Ring
<1>. QED BY <1>2, <1>3, <1>4, <1>5

LEMMA LineInit == Init => LInv
<1>. SUFFICES ASSUME Init PROVE LInv
  OBVIOUS
<1>1. /\ Len(arrived) = 0 /\ Len(kb_in) = 0 /\ taken = 0 /\ from = 0
  BY EmptySeq DEF Init
<1>2. Ring
  <2>1. taken + Len(kb_in) = Len(arrived) /\ from <= taken
    BY <1>1
  <2>2. 1 .. Len(kb_in) = {}
    BY <1>1
  <2>3. task # "receive"
    BY DEF Init
  <2>. QED BY <2>1, <2>2, <2>3 DEF Ring
<1>3. \A p \in Proc : ~Suspended(p)
  BY DEF Init, Suspended
<1>. QED BY <1>2, <1>3 DEF LInv

\* What the invariant reads of the keys and of the task TTY stays the same.
LEMMA LineStays ==
    ASSUME LInv, UNCHANGED <<arrived, taken, from, kb_in, tty>>,
           task' = "second byte" <=> task = "second byte",
           task' \in {"resume", "halted"} <=> task \in {"resume", "halted"},
           task' = "receive" => tty.ibuf = <<>>,
           \A p \in Proc : Suspended(p)' => Suspended(p) /\ wants'[p] = wants[p]
    PROVE  LInv'
<1>1. Ring'
  BY DEF LInv, Ring
<1>2. ASSUME NEW p \in Proc, Suspended(p)' PROVE LineSoFar(p)'
  <2>1. LineSoFar(p) /\ wants'[p] = wants[p]
    BY <1>2 DEF LInv
  <2>2. CodesTaken' = CodesTaken
    BY DEF CodesTaken
  <2>3. LineFits(CodesTaken, tty, wants[p].cnt, task)
    BY <2>1 DEF LineSoFar
  <2>4. LineFits(CodesTaken, tty, wants[p].cnt, task')
    BY <2>3 DEF LineFits
  <2>5. LineFits(CodesTaken', tty', wants'[p].cnt, task')
    BY <2>1, <2>2, <2>4
  <2>. QED BY <2>5 DEF LineSoFar
<1>. QED BY <1>1, <1>2 DEF LInv

\* A scan code arrives: it is behind all that TTY has read.
LEMMA LineArrives ==
    ASSUME TypeOK, LInv, NEW c \in Codes, keyboard_handler(c)
    PROVE  LInv'
<1>1. /\ UNCHANGED <<tty, task, proc, wants, taken, from>>
      /\ \/ kb_in' = Append(kb_in, c) /\ arrived' = Append(arrived, c)
         \/ UNCHANGED <<kb_in, arrived>>
  BY DEF keyboard_handler
<1>2. CASE UNCHANGED <<kb_in, arrived>>
  <2>1. \A p \in Proc : Suspended(p)' => Suspended(p) /\ wants'[p] = wants[p]
    BY <1>1 DEF Suspended
  <2>2. task' = "receive" => tty.ibuf = <<>>
    BY <1>1 DEF LInv, Ring
  <2>. QED BY <1>1, <1>2, <2>1, <2>2, LineStays
<1>3. CASE kb_in' = Append(kb_in, c) /\ arrived' = Append(arrived, c)
  <2>1. /\ arrived \in Seq(Codes) /\ kb_in \in Seq(Codes) /\ taken \in Nat /\ from \in Nat
    BY DEF TypeOK
  <2>2. /\ Len(arrived) \in Nat /\ Len(kb_in) \in Nat /\ taken + Len(kb_in) = Len(arrived)
        /\ from <= taken /\ taken <= Len(arrived)
    BY <2>1, CodesSoFar, LenProperties DEF LInv, Ring
  <2>3. /\ Len(arrived') = Len(arrived) + 1 /\ Len(kb_in') = Len(kb_in) + 1
        /\ kb_in'[Len(kb_in) + 1] = c /\ arrived'[Len(arrived) + 1] = c
        /\ \A i \in 1 .. Len(kb_in) : kb_in'[i] = kb_in[i]
        /\ \A i \in 1 .. Len(arrived) : arrived'[i] = arrived[i]
    BY <1>3, <2>1, AppendProperties
  <2>4. Ring'
    <3>1. taken' + Len(kb_in') = Len(arrived') /\ from' <= taken'
      <4>1. taken' = taken /\ from' = from
        BY <1>1
      <4>2. taken + Len(kb_in') = Len(arrived')
        <5>1. PICK a, b, d : a = Len(kb_in) /\ b = Len(arrived) /\ d = taken
          OBVIOUS
        <5>2. a \in Nat /\ b \in Nat /\ d \in Nat /\ d + a = b
          BY <2>1, <2>2, <5>1
        <5>3. d + (a + 1) = b + 1
          BY ONLY <5>2
        <5>. QED BY <2>3, <5>1, <5>3
      <4>. QED BY <2>2, <4>1, <4>2
    <3>2. ASSUME NEW i \in 1 .. Len(kb_in') PROVE kb_in'[i] = arrived'[taken' + i]
      <4>1. CASE i = Len(kb_in) + 1
        <5>1. taken' + i = Len(arrived) + 1
          BY <1>1, <2>1, <2>2, <4>1
        <5>. QED BY <2>3, <4>1, <5>1
      <4>2. CASE i # Len(kb_in) + 1
        <5>1. i \in 1 .. Len(kb_in) /\ taken' + i \in 1 .. Len(arrived) /\ taken' = taken
          BY <1>1, <2>1, <2>2, <2>3, <4>2
        <5>2. kb_in[i] = arrived[taken + i]
          BY <5>1 DEF LInv, Ring
        <5>. QED BY <2>3, <5>1, <5>2
      <4>. QED BY <4>1, <4>2
    <3>3. task' = "receive" => tty'.ibuf = <<>>
      BY <1>1 DEF LInv, Ring
    <3>. QED BY <3>1, <3>2, <3>3 DEF Ring
  <2>5. CodesTaken' = CodesTaken
    BY <1>1, <1>3, <2>1, <2>2, SubSeqKept DEF CodesTaken
  <2>6. ASSUME NEW p \in Proc, Suspended(p)' PROVE LineSoFar(p)'
    <3>1. LineFits(CodesTaken, tty, wants[p].cnt, task)
      BY <1>1, <2>6 DEF LInv, LineSoFar, Suspended
    <3>2. LineFits(CodesTaken', tty', wants'[p].cnt, task')
      BY <1>1, <2>5, <3>1
    <3>. QED BY <3>2 DEF LineSoFar
  <2>. QED BY <2>4, <2>6 DEF LInv
<1>. QED BY <1>1, <1>2, <1>3

\* TTY takes a scan code from the ring.
LEMMA RingServed ==
    ASSUME TypeOK, Ring, kb_in # <<>>, TakeByte, task' # "receive"
    PROVE  Ring' /\ CodesTaken' = Append(CodesTaken, Head(kb_in))
<1>1. /\ kb_in' = Tail(kb_in) /\ taken' = taken + 1 /\ UNCHANGED <<arrived, from>>
  BY DEF TakeByte
<1>2. /\ arrived \in Seq(Codes) /\ kb_in \in Seq(Codes) /\ taken \in Nat /\ from \in Nat
      /\ taken + Len(kb_in) = Len(arrived) /\ from <= taken
  BY DEF TypeOK, Ring
<1>3. /\ Len(kb_in) \in Nat \ {0} /\ Len(kb_in') = Len(kb_in) - 1
      /\ \A i \in 1 .. Len(kb_in') : kb_in'[i] = kb_in[i + 1]
  BY <1>1, <1>2, HeadTailProperties, EmptySeq
<1>4. taken' + Len(kb_in') = Len(arrived') /\ from' <= taken'
  BY <1>1, <1>2, <1>3
<1>5. ASSUME NEW i \in 1 .. Len(kb_in') PROVE kb_in'[i] = arrived'[taken' + i]
  <2>1. i + 1 \in 1 .. Len(kb_in) /\ taken' + i = taken + (i + 1)
    BY <1>1, <1>2, <1>3
  <2>2. kb_in[i + 1] = arrived[taken + (i + 1)]
    BY <2>1 DEF Ring
  <2>. QED BY <1>1, <1>3, <2>1, <2>2
<1>6. taken + 1 <= Len(arrived) /\ arrived[taken + 1] = Head(kb_in)
  BY CodesSoFar
<1>7. SubSeq(arrived, from + 1, taken + 1)
         = Append(SubSeq(arrived, from + 1, taken), arrived[taken + 1])
  BY <1>2, <1>6, SubSeqGrows
<1>8. CodesTaken' = Append(CodesTaken, Head(kb_in))
  BY <1>1, <1>6, <1>7 DEF CodesTaken
<1>. QED BY <1>4, <1>5, <1>8 DEF Ring

\* TTY reads a scan code.
LEMMA LineTakesCode ==
    ASSUME RInv, LInv, keyboard_read \/ get_second_byte
    PROVE  LInv'
<1> DEFINE c == Head(kb_in)
<1>1. /\ kb_in # <<>> /\ TakeByte /\ UNCHANGED <<proc, wants>>
      /\ task \in {"read keys", "second byte"} /\ task' \in {"read keys", "second byte"}
      /\ IF task # "second byte" /\ c = EXT
         THEN tty' = tty /\ task' = "second byte"
         ELSE tty' = in_process(Decoded(task = "second byte", c)) /\ task' # "second byte"
  <2>1. CASE keyboard_read
    <3>1. task = "read keys" /\ (task = "second byte") = FALSE
      BY <2>1 DEF keyboard_read
    <3>. QED BY <2>1, <3>1 DEF keyboard_read, TakeByte
  <2>2. CASE get_second_byte
    <3>1. task = "second byte" /\ (task = "second byte") = TRUE
      BY <2>2 DEF get_second_byte
    <3>. QED BY <2>2, <3>1 DEF get_second_byte, TakeByte
  <2>. QED BY <2>1, <2>2
<1>2. Ring' /\ CodesTaken' = Append(CodesTaken, c)
  <2>1. TypeOK /\ Ring /\ task' # "receive"
    BY <1>1 DEF RInv, LInv
  <2>. QED BY <1>1, <2>1, RingServed
<1>3. CodesTaken \in Seq(Codes) /\ c \in Codes /\ tty \in Terminal
  <2>1. TypeOK /\ Ring
    BY DEF RInv, LInv
  <2>. QED BY <1>1, <2>1, CodesSoFar DEF TypeOK, Terminal
<1>4. /\ tty' \in Terminal /\ tty'.line = tty.line /\ tty'.left_cnt = tty.left_cnt
      /\ IF task # "second byte" /\ c = EXT
         THEN tty'.ibuf = tty.ibuf /\ task' = "second byte"
         ELSE tty'.ibuf = tty.ibuf \o Decoded(task = "second byte", c)
              /\ task' # "second byte"
  <2>1. CASE task # "second byte" /\ c = EXT
    BY <1>1, <1>3, <2>1
  <2>2. CASE ~(task # "second byte" /\ c = EXT)
    <3>1. Decoded(task = "second byte", c) \in Seq(Keys)
      BY <1>3, <2>2, DecodedKeys
    <3>2. tty' = in_process(Decoded(task = "second byte", c)) /\ task' # "second byte"
      BY <1>1, <2>2
    <3>3. PICK d : d = Decoded(task = "second byte", c)
      OBVIOUS
    <3>4. /\ in_process(d) \in Terminal /\ in_process(d).ibuf = tty.ibuf \o d
          /\ in_process(d).left_cnt = tty.left_cnt /\ in_process(d).line = tty.line
      BY <1>3, <3>1, <3>3, InProcess
    <3>. QED BY <2>2, <3>2, <3>3, <3>4
  <2>. QED BY <2>1, <2>2
<1>5. ASSUME NEW p \in Proc, Suspended(p)' PROVE LineSoFar(p)'
  <2>1. LineFits(CodesTaken, tty, wants[p].cnt, task)
    BY <1>1, <1>5 DEF LInv, LineSoFar, Suspended
  <2>2. task \notin {"resume", "halted"} /\ task' \notin {"resume", "halted"}
    BY <1>1
  <2>3. LineFits(Append(CodesTaken, c), tty', wants[p].cnt, task')
    BY <1>3, <1>4, <2>1, <2>2, TakesCode
  <2>4. LineFits(CodesTaken', tty', wants'[p].cnt, task')
    BY <1>1, <1>2, <2>3
  <2>. QED BY <2>4 DEF LineSoFar
<1>. QED BY <1>2, <1>5 DEF LInv

\* TTY echoes the first key of ibuf, for the process whose request is open.
LEMMA LineEchoes ==
    ASSUME RInv, LInv, tty_dev_write
    PROVE  LInv'
<1> DEFINE ch == Head(tty.ibuf)
           e == Edited(tty, ch)
<1>1. /\ task = "echo" /\ tty.ibuf # <<>> /\ tty \in Terminal
      /\ UNCHANGED <<arrived, kb_in, taken, from, proc, wants>>
  BY DEF tty_dev_write, keys, RInv, TypeOK, Terminal
<1>2. tty.left_cnt > 0 =>
        /\ tty' = [e EXCEPT !.ibuf = Tail(@)]
        /\ IF Complete(e, ch) THEN SendToFS ELSE UNCHANGED <<task, queue>>
  BY DEF tty_dev_write
<1>3. task' \in {"echo", "resume", "halted"}
  BY <1>1 DEF tty_dev_write, SendToFS
<1>4. Ring'
  BY <1>1, <1>3 DEF LInv, Ring
<1>5. ASSUME NEW p \in Proc, Suspended(p)' PROVE LineSoFar(p)'
  <2>1. Suspended(p)
    BY <1>1, <1>5 DEF Suspended
  <2>2. tty.left_cnt > 0
    BY <1>1, <2>1 DEF RInv, Known, SuspendedIsKnown
  <2>3. wants[p].cnt \in Nat
    <3>1. wants[p].type = "DEV_READ"
      BY <2>1 DEF RInv, Known, Stages, Reads
    <3>. QED BY <3>1, Wanted DEF RInv
  <2>4. task' # "second byte" /\ (task' \in {"resume", "halted"} <=> Complete(e, ch))
    <3>1. CASE Complete(e, ch)
      <4>1. SendToFS
        BY <1>2, <2>2, <3>1
      <4>2. task' \in {"resume", "halted"}
        BY <4>1 DEF SendToFS
      <4>. QED BY <3>1, <4>2
    <3>2. CASE ~Complete(e, ch)
      <4>1. task' = "echo"
        BY <1>1, <1>2, <2>2, <3>2
      <4>. QED BY <3>2, <4>1
    <3>. QED BY <3>1, <3>2
  <2>5. LineFits(CodesTaken, tty, wants[p].cnt, "echo")
    BY <1>1, <2>1 DEF LInv, LineSoFar
  <2>6. tty' = [e EXCEPT !.ibuf = Tail(@)]
    BY <1>2, <2>2
  <2>. HIDE DEF e
  <2>7. LineFits(CodesTaken, tty', wants[p].cnt, task')
    BY <1>1, <2>2, <2>3, <2>4, <2>5, <2>6, EchoesKey DEF e
  <2>8. CodesTaken' = CodesTaken
    BY <1>1 DEF CodesTaken
  <2>9. LineFits(CodesTaken', tty', wants'[p].cnt, task')
    BY <1>1, <2>7, <2>8
  <2>. QED BY <2>9 DEF LineSoFar
<1>. QED BY <1>4, <1>5 DEF LInv

\* A process is suspended: nothing is typed for it yet.
LEMMA LineBegins ==
    ASSUME RInv, LInv, ReceiveRequest
    PROVE  LInv'
<1> DEFINE p == fs.src
<1>1. /\ p \in Proc /\ task = "receive" /\ task' = "read keys" /\ tty \in Terminal
      /\ UNCHANGED <<arrived, kb_in, taken>>
      /\ proc \in [Proc -> {"running", "sending", "calling", "suspended"}]
      /\ DOMAIN wants = Proc
  BY FsPlaces DEF RInv, TypeOK, Terminal, ReceiveRequest, keys
<1>2. CASE wants[p].type = "DEV_READ"
  <2>1. /\ tty' = Noting(p) /\ proc' = [proc EXCEPT ![p] = "suspended"]
        /\ from' = taken /\ wants' = wants
    BY <1>2 DEF ReceiveRequest
  <2>2. /\ tty'.ibuf = <<>> /\ tty'.line = <<>> /\ tty'.left_cnt = wants[p].cnt
        /\ wants[p].cnt \in Nat
    <3>1. tty.ibuf = <<>>
      BY <1>1 DEF LInv, Ring
    <3>2. wants[p].cnt \in Nat
      BY <1>1, <1>2, Wanted DEF RInv
    <3>. QED BY <1>1, <2>1, <3>1, <3>2 DEF Noting, Terminal
  <2>3. Ring'
    <3>1. taken \in Nat
      BY DEF RInv, TypeOK
    <3>2. from' <= taken'
      <4>1. from' = taken /\ taken' = taken
        BY <1>1, <2>1
      <4>. QED BY ONLY <3>1, <4>1
    <3>. QED BY <1>1, <3>2 DEF LInv, Ring
  <2>4. CodesTaken' = <<>>
    <3>1. CodesTaken' = SubSeq(arrived, taken + 1, taken)
      BY <1>1, <2>1 DEF CodesTaken
    <3>2. taken + 1 \in Int /\ taken \in Int /\ taken < taken + 1
      <4>1. taken \in Nat
        BY DEF RInv, TypeOK
      <4>. QED BY ONLY <4>1
    <3>. QED BY <3>1, <3>2, SubSeqEmpty
  <2>5. ASSUME NEW q \in Proc, Suspended(q)' PROVE q = p
    <3>1. Reads(q)
      <4>1. q = p \/ Suspended(q)
        BY <1>1, <2>1, <2>5 DEF Suspended
      <4>. QED BY <1>2, <4>1 DEF RInv, Known, Stages, Reads
    <3>. QED BY <1>1, <1>2, <3>1 DEF RInv, Known, OneReader, Reads
  <2>6. LineFits(<<>>, tty', wants[p].cnt, "read keys")
    <3>1. /\ decode[<<>>].ext = FALSE /\ decode[<<>>].keys = <<>>
          /\ FirstLine(<<>>, wants[p].cnt).line = <<>>
          /\ FirstLine(<<>>, wants[p].cnt).complete = FALSE
      BY DecodeSteps, FirstLineSteps DEF Nothing, NoLine
    <3>2. <<>> \in Seq(Keys) /\ <<>> \o <<>> = <<>> /\ Len(<<>>) = 0
      BY EmptySeq, ConcatEmptySeq
    <3>3. tty'.left_cnt + Len(tty'.line) = wants[p].cnt
      <4>1. PICK a, b : a = wants[p].cnt /\ b = Len(tty'.line)
        OBVIOUS
      <4>2. a \in Nat /\ b = 0
        BY <2>2, <3>2, <4>1
      <4>3. a + b = a
        BY ONLY <4>2
      <4>. QED BY <2>2, <4>1, <4>3
    <3>. QED BY <2>2, <3>1, <3>2, <3>3 DEF LineFits
  <2>7. ASSUME NEW q \in Proc, Suspended(q)' PROVE LineSoFar(q)'
    <3>1. LineFits(CodesTaken', tty', wants'[q].cnt, task')
      BY <1>1, <2>1, <2>4, <2>5, <2>6, <2>7
    <3>. QED BY <3>1 DEF LineSoFar
  <2>. QED BY <2>3, <2>7 DEF LInv
<1>3. CASE wants[p].type # "DEV_READ"
  <2>1. /\ tty' = tty /\ proc' = [proc EXCEPT ![p] = "running"]
        /\ wants' = [wants EXCEPT ![p] = NoRequest] /\ from' = from
    BY <1>3 DEF ReceiveRequest, Writing
  <2>2. ASSUME NEW q \in Proc, Suspended(q)' PROVE Suspended(q) /\ wants'[q] = wants[q]
    BY <1>1, <2>1, <2>2 DEF Suspended
  <2>3. /\ task' = "second byte" <=> task = "second byte"
        /\ task' \in {"resume", "halted"} <=> task \in {"resume", "halted"}
        /\ task' # "receive"
    BY <1>1
  <2>. QED BY <1>1, <2>1, <2>2, <2>3, LineStays
<1>. QED BY <1>2, <1>3

\* A process is resumed, and none is suspended.
LEMMA LineEnds ==
    ASSUME RInv, LInv, FsResume
    PROVE  LInv'
<1> DEFINE p == tty.procnr
<1>1. \A q \in Proc : Suspended(q) => q = p
  BY DEF RInv, Known, SuspendedIsKnown
<1>2. \A q \in Proc : ~Suspended(q)'
  <2>1. proc' = [proc EXCEPT ![p] = "running"]
    BY DEF FsResume
  <2>2. \A q \in Proc : proc'[q] = IF q = p THEN "running" ELSE proc[q]
    BY <2>1 DEF RInv, TypeOK
  <2>. QED BY <1>1, <2>2 DEF Suspended
<1>3. UNCHANGED <<arrived, kb_in, taken, from>> /\ task' = "echo"
  BY DEF FsResume, keys
<1>4. Ring'
  BY <1>3 DEF LInv, Ring
<1>. QED BY <1>2, <1>4 DEF LInv

\* Every step keeps the line as typed.
LEMMA LineNext == RInv /\ LInv /\ [Next]_vars => LInv'
<1>. SUFFICES ASSUME RInv, LInv, [Next]_vars PROVE LInv'
  OBVIOUS
<1>0. TypeOK /\ (task = "receive" => tty.ibuf = <<>>)
  BY DEF RInv, LInv, Ring
<1>1. CASE Press \/ SecondByte
  <2>1. ASSUME Press PROVE \E c \in Codes : keyboard_handler(c)
    <3>1. PICK k \in Keys : \E code \in {<<k>>, <<EXT, k>>} : keyboard_handler(Head(code))
      BY <2>1 DEF Press
    <3>2. PICK code \in {<<k>>, <<EXT, k>>} : keyboard_handler(Head(code))
      BY <3>1
    <3>3. Head(code) \in Codes
      BY <3>2 DEF Codes
    <3>. QED BY <3>2, <3>3
  <2>2. ASSUME SecondByte PROVE \E c \in Codes : keyboard_handler(c)
    <3>1. sending \in Seq(Codes) /\ sending # <<>> /\ keyboard_handler(Head(sending))
      BY <1>0, <2>2 DEF SecondByte, TypeOK
    <3>2. Head(sending) \in Codes
      BY <3>1, HeadTailProperties
    <3>. QED BY <3>1, <3>2
  <2>. QED BY <1>0, <1>1, <2>1, <2>2, LineArrives
<1>2. CASE clock_handler \/ KeysRead \/ EchoDone \/ ReceiveInt \/ UNCHANGED vars
  <2>1. UNCHANGED <<arrived, taken, from, kb_in, tty, proc, wants>>
    BY <1>2 DEF clock_handler, KeysRead, EchoDone, ReceiveInt, vars, keys
  <2>2. /\ task' = "second byte" <=> task = "second byte"
        /\ task' \in {"resume", "halted"} <=> task \in {"resume", "halted"}
        /\ task' = "receive" => tty.ibuf = <<>>
    BY <1>0, <1>2 DEF clock_handler, KeysRead, EchoDone, ReceiveInt, vars
  <2>3. \A p \in Proc : Suspended(p)' => Suspended(p) /\ wants'[p] = wants[p]
    BY <2>1 DEF Suspended
  <2>. QED BY <2>1, <2>2, <2>3, LineStays
<1>3. CASE keyboard_read \/ get_second_byte
  BY <1>3, LineTakesCode
<1>4. CASE tty_dev_write
  BY <1>4, LineEchoes
<1>5. CASE ReceiveRequest
  BY <1>5, LineBegins
<1>6. CASE FsRequest
  <2>1. UNCHANGED <<arrived, taken, from, kb_in, tty, wants>>
    BY <1>6 DEF FsRequest, keys
  <2>2. /\ task # "halted" /\ task' = IF task = "resume" THEN "halted" ELSE task
        /\ proc' = [proc EXCEPT ![Head(queue)] = "calling"]
    BY <1>6 DEF FsRequest
  <2>3. /\ task' = "second byte" <=> task = "second byte"
        /\ task' \in {"resume", "halted"} <=> task \in {"resume", "halted"}
        /\ task' = "receive" => tty.ibuf = <<>>
    BY <1>0, <2>2
  <2>4. \A p \in Proc : Suspended(p)' => Suspended(p) /\ wants'[p] = wants[p]
    BY <1>0, <2>1, <2>2 DEF Suspended, TypeOK
  <2>. QED BY <2>1, <2>3, <2>4, LineStays
<1>7. CASE FsResume
  BY <1>7, LineEnds
<1>8. ASSUME NEW p \in Proc, Read(p) \/ Write(p) PROVE LInv'
  <2>1. PICK type, n : Ask(p, type, n)
    BY <1>8 DEF Read, Write
  <2>2. UNCHANGED <<arrived, taken, from, kb_in, tty, task>>
    BY <2>1 DEF Ask, keys
  <2>3. \A q \in Proc : Suspended(q)' => Suspended(q) /\ wants'[q] = wants[q]
    <3>1. /\ proc' = [proc EXCEPT ![p] = "sending"]
          /\ wants' = [wants EXCEPT ![p] = [type |-> type, cnt |-> n]]
      BY <2>1 DEF Ask
    <3>. QED BY <1>0, <3>1 DEF Suspended, TypeOK
  <2>. QED BY <1>0, <2>2, <2>3, LineStays
<1>. QED BY <1>1, <1>2, <1>3, <1>4, <1>5, <1>6, <1>7, <1>8 DEF Next, TaskStep

\* The invariant implies the property.
LEMMA FitsAsTyped == TypeOK /\ LInv => LineAsTyped
<1>. SUFFICES ASSUME TypeOK, LInv, NEW p \in Proc, Suspended(p)
              PROVE  LET typed == SinceRequest(taken)
                         line == FirstLine(SubSeq(typed, 1, Len(typed) - Len(tty.ibuf)),
                                           wants[p].cnt)
                     IN  tty.line = line.line /\ (task \in {"resume", "halted"} <=> line.complete)
  BY DEF LineAsTyped
<1>1. LineFits(CodesTaken, tty, wants[p].cnt, task)
  BY DEF LInv, LineSoFar
<1>2. PICK echoed \in Seq(Keys) :
        /\ decode[CodesTaken].keys = echoed \o tty.ibuf
        /\ FirstLine(echoed, wants[p].cnt).line = tty.line
        /\ FirstLine(echoed, wants[p].cnt).complete <=> task \in {"resume", "halted"}
  BY <1>1 DEF LineFits
<1>3. SinceRequest(taken) = echoed \o tty.ibuf
  BY <1>2 DEF SinceRequest, Typed, CodesTaken
<1>4. SubSeq(SinceRequest(taken), 1, Len(SinceRequest(taken)) - Len(tty.ibuf)) = echoed
  <2>1. PICK b : b = tty.ibuf
    OBVIOUS
  <2>2. b \in Seq(Keys)
    BY <2>1 DEF TypeOK
  <2>3. SubSeq(echoed \o b, 1, Len(echoed \o b) - Len(b)) = echoed
    BY <2>2, PrefixTaken
  <2>. QED BY <1>3, <2>1, <2>3
<1>. QED BY <1>2, <1>4

\* Unless processes share a terminal, what a process gets is what was typed since its
\* request, in that order and as edited: no key is lost, doubled or given to a later line.
THEOREM LineIsAsTyped == ~SharedReads => (Spec => []LineAsTyped)
<1>. SUFFICES ASSUME ~SharedReads PROVE Spec => []LineAsTyped
  OBVIOUS
<1>1. Init => RInv /\ LInv
  BY TypeInit, KnownInit, LineInit DEF RInv
<1>2. (RInv /\ LInv) /\ [Next]_vars => (RInv /\ LInv)'
  BY TypeNext, KnownNext, LineNext DEF RInv
<1>3. RInv /\ LInv => LineAsTyped
  BY FitsAsTyped DEF RInv
<1>. QED BY <1>1, <1>2, <1>3, PTL DEF Spec
-----------------------------------------------------------------------------
(* Console: serial numbers *)

\* What % comes to within two turns.
LEMMA ModTwice ==
    ASSUME NEW S \in Nat \ {0}, NEW a \in 0 .. 2 * S - 1
    PROVE  a % S = IF a < S THEN a ELSE a - S
  OBVIOUS

\* The numbers of the lines before and after one that has a number.
LEMMA Neighbours ==
    ASSUME NEW n \in 0 .. Serials - 1
    PROVE  /\ (n + 1) % Serials = IF n + 1 < Serials THEN n + 1 ELSE 0
           /\ (n + Serials - 1) % Serials = IF n = 0 THEN Serials - 1 ELSE n - 1
<1>1. Serials \in Nat \ {0}
  BY ConsoleAssumption
<1>2. (n + 1) % Serials = IF n + 1 < Serials THEN n + 1 ELSE 0
  <2> DEFINE a == n + 1
  <2>1. a \in 0 .. 2 * Serials - 1
    BY <1>1
  <2>. HIDE DEF a
  <2>2. a % Serials = IF a < Serials THEN a ELSE a - Serials
    BY <1>1, <2>1, ModTwice
  <2>. QED BY <1>1, <2>2 DEF a
<1>3. (n + Serials - 1) % Serials = IF n = 0 THEN Serials - 1 ELSE n - 1
  <2> DEFINE a == n + Serials - 1
  <2>1. a \in 0 .. 2 * Serials - 1
    BY <1>1
  <2>. HIDE DEF a
  <2>2. a % Serials = IF a < Serials THEN a ELSE a - Serials
    BY <1>1, <2>1, ModTwice
  <2>. QED BY <1>1, <2>2 DEF a
<1>. QED BY <1>2, <1>3

\* The number of the line k lines before line n.
LEMMA Before ==
    ASSUME NEW n \in 0 .. Serials - 1, NEW k \in 0 .. Serials - 1
    PROVE  (n + Serials - k) % Serials = IF k <= n THEN n - k ELSE n + Serials - k
<1> DEFINE a == n + Serials - k
<1>1. a \in 0 .. 2 * Serials - 1 /\ Serials \in Nat \ {0}
  BY ConsoleAssumption
<1>2. a % Serials = IF a < Serials THEN a ELSE a - Serials
  <2>. HIDE DEF a
  <2>. QED BY <1>1, ModTwice
<1>. QED BY <1>1, <1>2

\* Seen from the next line, each line is one further back; from the previous line,
\* one less.
LEMMA OneFurther ==
    ASSUME NEW n \in 0 .. Serials - 1, NEW k \in 1 .. Serials - 1
    PROVE  /\ (((n + 1) % Serials) + Serials - k) % Serials = (n + Serials - (k - 1)) % Serials
           /\ (((n + Serials - 1) % Serials) + Serials - (k - 1)) % Serials
                  = (n + Serials - k) % Serials
<1>1. Serials \in Nat /\ k - 1 \in 0 .. Serials - 1 /\ k \in 0 .. Serials - 1
  BY ConsoleAssumption
<1>2. (n + 1) % Serials \in 0 .. Serials - 1 /\ (n + Serials - 1) % Serials \in 0 .. Serials - 1
  BY <1>1, Neighbours
<1>3. (((n + 1) % Serials) + Serials - k) % Serials = (n + Serials - (k - 1)) % Serials
  <2> DEFINE m == (n + 1) % Serials
  <2>1. m = IF n + 1 < Serials THEN n + 1 ELSE 0
    BY Neighbours
  <2>2. (m + Serials - k) % Serials = IF k <= m THEN m - k ELSE m + Serials - k
    BY <1>1, <1>2, Before
  <2>3. (n + Serials - (k - 1)) % Serials =
            IF k - 1 <= n THEN n - (k - 1) ELSE n + Serials - (k - 1)
    BY <1>1, Before
  <2>. HIDE DEF m
  <2>4. (m + Serials - k) % Serials = (n + Serials - (k - 1)) % Serials
    BY <1>1, <2>1, <2>2, <2>3
  <2>. QED BY <2>4 DEF m
<1>4. (((n + Serials - 1) % Serials) + Serials - (k - 1)) % Serials
          = (n + Serials - k) % Serials
  <2> DEFINE m == (n + Serials - 1) % Serials
  <2>1. m = IF n = 0 THEN Serials - 1 ELSE n - 1
    BY Neighbours
  <2>2. (m + Serials - (k - 1)) % Serials =
            IF k - 1 <= m THEN m - (k - 1) ELSE m + Serials - (k - 1)
    BY <1>1, <1>2, Before
  <2>3. (n + Serials - k) % Serials = IF k <= n THEN n - k ELSE n + Serials - k
    BY <1>1, Before
  <2>. HIDE DEF m
  <2>4. (m + Serials - (k - 1)) % Serials = (n + Serials - k) % Serials
    BY <1>1, <2>1, <2>2, <2>3
  <2>. QED BY <2>4 DEF m
<1>. QED BY <1>3, <1>4
-----------------------------------------------------------------------------
(* Console: the screen *)

\* scroll_screen leaves the screen inside the console.
LEMMA ScreenInside ==
    ASSUME InsideConsole
    PROVE  ScreenUp \in 0 .. Lines - Height /\ ScreenDown \in 0 .. Lines - Height
<1>1. ScreenUp \in 0 .. Lines - Height
  BY ConsoleAssumption DEF InsideConsole, ScreenUp, Row
<1>2. ScreenDown \in 0 .. Lines - Height
  BY ConsoleAssumption DEF InsideConsole, ScreenDown, Row
<1>. QED BY <1>1, <1>2

\* Clearing behind the cursor keeps the text a text and the rows above it as they are.
LEMMA ClearedBelow ==
    ASSUME NEW t \in [Row -> -1 .. Serials - 1], NEW y \in Row, NEW x
    PROVE  /\ Cleared(t, y, x) \in [Row -> -1 .. Serials - 1]
           /\ \A r \in 0 .. y : Cleared(t, y, x)[r] = t[r]
  BY ConsoleAssumption DEF Cleared, Row, Blank

\* What the state must still be after the cursor was moved.
Moved == InsideConsole /\ LinesKept

\* The cursor moves within its row.
LEMMA StaysInside ==
    ASSUME Moved, NEW x \in 0 .. Width - 1, StayInRow(x), trans_cnt' \in 0 .. EraseLimit
    PROVE  Moved'
<1>1. InsideConsole'
  BY DEF Moved, InsideConsole, StayInRow, Row, OnScreen
<1>2. LinesKept'
  BY DEF Moved, LinesKept, StayInRow
<1>. QED BY <1>1, <1>2 DEF Moved

\* The cursor enters the next row, which may be the first rows of the console again.
LEMMA EntersInside ==
    ASSUME Moved, NEW x \in 0 .. Width - 1, EnterRow(x), trans_cnt' \in 0 .. EraseLimit
    PROVE  Moved'
<1>1. /\ Lines \in Nat
      /\ NextLine \in 0 .. Serials - 1
      /\ newest \in 0 .. Serials - 1
      /\ cursor_y \in 0 .. Lines - 1
      /\ text \in [Row -> -1 .. Serials - 1]
  BY Neighbours, ConsoleAssumption DEF NextLine, Moved, InsideConsole, Row
<1>2. ASSUME NEW k \in 1 .. Lines - 1, k - 1 <= cursor_y
      PROVE  text[cursor_y - (k - 1)] = (NextLine + Serials - k) % Serials
  <2>1. text[cursor_y - (k - 1)] = (newest + Serials - (k - 1)) % Serials
    BY <1>1, <1>2 DEF Moved, LinesKept
  <2>2. k \in 1 .. Serials - 1
    BY ConsoleAssumption
  <2>. QED BY <1>1, <2>1, <2>2, OneFurther DEF NextLine
<1>3. (NextLine + Serials - 0) % Serials = NextLine
  BY <1>1, Before, ConsoleAssumption
<1>4. CASE cursor_y + 1 < Lines
  <2>1. /\ newest' = NextLine /\ cursor_x' = x /\ cursor_y' = cursor_y + 1
        /\ text' = [text EXCEPT ![cursor_y + 1] = NextLine]
        /\ scr_top' = scr_top /\ is_full' = is_full
        /\ scrolling' \in BOOLEAN
    BY <1>4 DEF EnterRow, OnScreen
  <2>2. InsideConsole'
    BY <1>1, <1>4, <2>1, ConsoleAssumption DEF Moved, InsideConsole, Row
  <2>3. ASSUME NEW k \in 0 .. cursor_y'
        PROVE  text'[cursor_y' - k] = (newest' + Serials - k) % Serials
    <3>1. CASE k = 0
      <4>1. text'[cursor_y'] = NextLine /\ cursor_y' - 0 = cursor_y'
        BY <1>1, <1>4, <2>1 DEF Row
      <4>. QED BY <1>3, <2>1, <3>1, <4>1
    <3>2. CASE k # 0
      <4>1. k \in 1 .. Lines - 1 /\ k - 1 <= cursor_y
        BY <1>1, <1>4, <2>1, <3>2
      <4>2. text'[cursor_y' - k] = text[cursor_y - (k - 1)]
        BY <1>1, <1>4, <2>1, <4>1 DEF Row
      <4>. QED BY <1>2, <2>1, <4>1, <4>2
    <3>. QED BY <3>1, <3>2
  <2>. QED BY <2>2, <2>3 DEF Moved, LinesKept
<1>5. CASE ~(cursor_y + 1 < Lines)
  <2> DEFINE w == Wrapped(NextLine)
  <2>1. /\ newest' = NextLine /\ cursor_x' = x /\ cursor_y' = Height - 1
        /\ text' = Cleared(w, Height - 1, x)
        /\ scr_top' = 0 /\ is_full' = TRUE
        /\ scrolling' \in BOOLEAN
    BY <1>5 DEF EnterRow, OnScreen
  <2>2. /\ Height - 1 \in Row
        /\ cursor_y = Lines - 1
        /\ 0 \in 0 .. Lines - Height
    BY <1>1, <1>5, ConsoleAssumption DEF Row
  <2>3. w \in [Row -> -1 .. Serials - 1]
    BY <1>1, ConsoleAssumption DEF Wrapped, Row
  <2>4. /\ text' \in [Row -> -1 .. Serials - 1]
        /\ \A r \in 0 .. Height - 1 : text'[r] = w[r]
    <3>. HIDE DEF w
    <3>. QED BY <2>1, <2>2, <2>3, ClearedBelow
  <2>5. InsideConsole'
    BY <1>1, <2>1, <2>2, <2>4 DEF Moved, InsideConsole
  <2>6. ASSUME NEW k \in 0 .. cursor_y'
        PROVE  text'[cursor_y' - k] = (newest' + Serials - k) % Serials
    <3>1. Height - 1 - k \in 0 .. Height - 1 /\ k \in 0 .. Height - 1
      BY <2>1, ConsoleAssumption
    <3>2. text'[cursor_y' - k] = w[Height - 1 - k]
      BY <2>1, <2>4, <3>1
    <3>3. CASE k = 0
      <4>1. w[Height - 1 - k] = NextLine
        BY <2>2, <3>3, ConsoleAssumption DEF Wrapped
      <4>. QED BY <1>3, <2>1, <3>2, <3>3, <4>1
    <3>4. CASE k # 0
      <4>1. /\ k \in 1 .. Lines - 1 /\ k - 1 <= cursor_y
            /\ Height - 1 - k + Lines + 1 - Height = cursor_y - (k - 1)
        BY <2>2, <3>1, <3>4, ConsoleAssumption
      <4>2. w[Height - 1 - k] = text[Height - 1 - k + Lines + 1 - Height]
        BY <3>1, <3>4, ConsoleAssumption DEF Wrapped, Row
      <4>. QED BY <1>2, <2>1, <3>2, <4>1, <4>2
    <3>. QED BY <3>3, <3>4
  <2>. QED BY <2>5, <2>6 DEF Moved, LinesKept
<1>. QED BY <1>4, <1>5

\* Printing k characters, k not more than a row.
LEMMA AdvancesInside ==
    ASSUME Moved, NEW k \in 1 .. Width, Advance(k), trans_cnt' \in 0 .. EraseLimit
    PROVE  Moved'
<1>1. cursor_x \in 0 .. Width - 1
  BY DEF Moved, InsideConsole
<1>2. CASE cursor_x + k < Width
  <2>1. cursor_x + k \in 0 .. Width - 1 /\ StayInRow(cursor_x + k)
    BY <1>1, <1>2, ConsoleAssumption DEF Advance
  <2>. QED BY <2>1, StaysInside
<1>3. CASE ~(cursor_x + k < Width)
  <2>1. cursor_x + k - Width \in 0 .. Width - 1 /\ EnterRow(cursor_x + k - Width)
    BY <1>1, <1>3, ConsoleAssumption DEF Advance
  <2>. QED BY <2>1, EntersInside
<1>. QED BY <1>2, <1>3

\* BACKSPACE takes back a character, or goes back to the row above.
LEMMA ErasesInside ==
    ASSUME Moved, Erase
    PROVE  Moved'
<1>1. /\ trans_cnt' \in 0 .. EraseLimit
      /\ newest \in 0 .. Serials - 1
      /\ cursor_y \in 0 .. Lines - 1 /\ cursor_x \in 0 .. Width - 1
      /\ text \in [Row -> -1 .. Serials - 1]
  BY ConsoleAssumption DEF Erase, Moved, InsideConsole, Row
<1>2. CASE cursor_x > 0
  <2>1. cursor_x - 1 \in 0 .. Width - 1 /\ StayInRow(cursor_x - 1)
    BY <1>1, <1>2, ConsoleAssumption DEF Erase
  <2>. QED BY <1>1, <2>1, StaysInside
<1>3. CASE ~(cursor_x > 0) /\ cursor_y > 0
  <2>1. /\ cursor_y' = cursor_y - 1 /\ cursor_x' = Width - 1
        /\ newest' = (newest + Serials - 1) % Serials
        /\ scrolling' \in BOOLEAN
        /\ text' = [text EXCEPT ![cursor_y] = Blank]
        /\ scr_top' = scr_top /\ is_full' = is_full
    BY <1>3 DEF Erase, OnScreen
  <2>2. newest' \in 0 .. Serials - 1
    BY <1>1, <2>1, Neighbours, ConsoleAssumption
  <2>3. InsideConsole'
    BY <1>1, <1>3, <2>1, <2>2, ConsoleAssumption DEF Moved, InsideConsole, Row, Blank
  <2>4. ASSUME NEW k \in 0 .. cursor_y'
        PROVE  text'[cursor_y' - k] = (newest' + Serials - k) % Serials
    <3>1. k + 1 \in 0 .. cursor_y /\ k + 1 \in 1 .. Serials - 1 /\ (k + 1) - 1 = k
      BY <1>1, <2>1, ConsoleAssumption
    <3>2. text'[cursor_y' - k] = text[cursor_y - (k + 1)]
      BY <1>1, <2>1, <3>1 DEF Row
    <3>3. text[cursor_y - (k + 1)] = (newest + Serials - (k + 1)) % Serials
      BY <3>1 DEF Moved, LinesKept
    <3>4. (newest' + Serials - ((k + 1) - 1)) % Serials = (newest + Serials - (k + 1)) % Serials
      BY <1>1, <2>1, <3>1, OneFurther
    <3>. QED BY <3>1, <3>2, <3>3, <3>4
  <2>. QED BY <2>3, <2>4 DEF Moved, LinesKept
<1>4. CASE ~(cursor_x > 0) /\ ~(cursor_y > 0)
  <2>1. StayInRow(cursor_x)
    BY <1>4 DEF Erase
  <2>. QED BY <1>1, <2>1, StaysInside
<1>. QED BY <1>2, <1>3, <1>4

\* out_char scrolls, and clears below the cursor.
LEMMA ScrollsInside ==
    ASSUME Moved, ScrollToCursor
    PROVE  Moved'
<1>1. /\ text' \in [Row -> -1 .. Serials - 1]
      /\ \A r \in 0 .. cursor_y : text'[r] = text[r]
  BY ClearedBelow DEF Moved, InsideConsole, ScrollToCursor
<1>2. InsideConsole'
  BY <1>1, ScreenInside DEF Moved, InsideConsole, ScrollToCursor, Row, OnScreen
<1>3. LinesKept'
  <2>1. cursor_y \in Nat /\ cursor_y' = cursor_y /\ newest' = newest
    BY ConsoleAssumption DEF Moved, InsideConsole, ScrollToCursor, Row
  <2>2. \A k \in 0 .. cursor_y : cursor_y - k \in 0 .. cursor_y
    BY <2>1
  <2>. QED BY <1>1, <2>1, <2>2 DEF Moved, LinesKept
<1>. QED BY <1>2, <1>3 DEF Moved
-----------------------------------------------------------------------------
(* Console: what stays true *)

\* The cursor and the screen are inside, and the lines complete, after the boot ...
LEMMA InitInside == ConsoleInit => Moved
<1>. SUFFICES ASSUME ConsoleInit PROVE Moved
  OBVIOUS
<1>1. /\ cursor_y \in 0 .. Height - 1 /\ newest = cursor_y
      /\ text = [r \in Row |-> IF r <= cursor_y THEN r ELSE Blank]
  BY DEF ConsoleInit
<1>2. InsideConsole
  <2>1. cursor_y \in Row /\ newest \in 0 .. Serials - 1
    BY <1>1, ConsoleAssumption DEF Row
  <2>2. text \in [Row -> -1 .. Serials - 1]
    BY <1>1, ConsoleAssumption DEF Row, Blank
  <2>3. 0 \in 0 .. Width - 1 /\ 0 \in 0 .. Lines - Height /\ 0 \in 0 .. EraseLimit
    BY ConsoleAssumption
  <2>4. /\ cursor_x \in 0 .. Width - 1 /\ scr_top \in 0 .. Lines - Height
        /\ trans_cnt \in 0 .. EraseLimit
        /\ is_full \in BOOLEAN /\ scrolling \in BOOLEAN
    BY <2>3, Zenon DEF ConsoleInit
  <2>. QED BY <2>1, <2>2, <2>4 DEF InsideConsole
<1>3. ASSUME NEW k \in 0 .. cursor_y
      PROVE  text[cursor_y - k] = (newest + Serials - k) % Serials
  <2>1. text[cursor_y - k] = cursor_y - k
    BY <1>1, ConsoleAssumption DEF Row
  <2>2. newest \in 0 .. Serials - 1 /\ k \in 0 .. Serials - 1 /\ k <= newest
    BY <1>1, ConsoleAssumption
  <2>. QED BY <1>1, <2>1, <2>2, Before
<1>. QED BY <1>2, <1>3 DEF Moved, LinesKept

\* ... and after every step.
LEMMA NextInside == Moved /\ [ConsoleNext]_consoleVars => Moved'
<1>. SUFFICES ASSUME Moved, [ConsoleNext]_consoleVars PROVE Moved'
  OBVIOUS
<1>1. trans_cnt \in 0 .. EraseLimit /\ EraseLimit \in Nat
      /\ 1 \in 1 .. Width /\ TabWidth \in 1 .. Width /\ 0 \in 0 .. Width - 1
  BY ConsoleAssumption DEF Moved, InsideConsole
<1>2. CASE PutChar
  BY <1>1, <1>2, AdvancesInside DEF PutChar
<1>3. CASE NewLine
  BY <1>1, <1>3, EntersInside DEF NewLine
<1>4. CASE Tab
  BY <1>1, <1>4, AdvancesInside DEF Tab
<1>5. CASE Echo
  <2>1. trans_cnt' \in 0 .. EraseLimit /\ Advance(1)
    BY <1>1, <1>5 DEF Echo
  <2>. QED BY <1>1, <2>1, AdvancesInside
<1>6. CASE Erase
  BY <1>6, ErasesInside
<1>7. CASE NewRead
  BY <1>1, <1>7 DEF NewRead, Moved, InsideConsole, LinesKept, Row
<1>8. CASE ScrollToCursor
  BY <1>8, ScrollsInside
<1>9. CASE ScrollUp \/ ScrollDown
  BY <1>9, ScreenInside DEF ScrollUp, ScrollDown, Scroll, Moved, InsideConsole, LinesKept, Row
<1>10. CASE UNCHANGED consoleVars
  BY <1>10 DEF consoleVars, Moved, InsideConsole, LinesKept, Row
<1>. QED BY <1>2, <1>3, <1>4, <1>5, <1>6, <1>7, <1>8, <1>9, <1>10 DEF ConsoleNext

\* The assertions of out_char and the screen: whatever is printed, echoed, erased and
\* scrolled, the cursor and the whole screen are inside the console.
THEOREM AlwaysInside == ConsoleSpec => []InsideConsole
<1>1. Moved => InsideConsole
  BY DEF Moved
<1>. QED BY InitInside, NextInside, <1>1, PTL DEF ConsoleSpec

\* The lines from the first row to the cursor are the last ones of the output, in
\* order, also after the console has run out of rows.
THEOREM AlwaysKept == ConsoleSpec => []LinesKept
<1>1. Moved => LinesKept
  BY DEF Moved
<1>. QED BY InitInside, NextInside, <1>1, PTL DEF ConsoleSpec

-----------------------------------------------------------------------------
(* Console: the lines the user scrolls through *)

\* The rows below the cursor: those of the round before, which the screen at the end of the
\* console joins to row 0.
OlderLines ==
    /\ \A r \in Row : r > cursor_y /\ ~is_full => text[r] = Blank
    /\ \A r \in Row : r > cursor_y /\ r < Lines - 1 => Follows(text[r], text[r + 1])
    /\ is_full /\ cursor_y < Lines - Height => Follows(text[Lines - Height], text[0])

\* Above the cursor, each row is followed by the next line.
LEMMA NewerLines ==
    ASSUME Moved, NEW r \in Row, r < cursor_y
    PROVE  Follows(text[r], text[r + 1]) /\ r + 1 \in Row
<1>1. /\ r \in Nat /\ cursor_y \in Nat /\ cursor_y < Lines /\ Lines \in Nat
      /\ newest \in 0 .. Serials - 1 /\ Serials \in Nat /\ Serials > 2 * Lines
  BY ConsoleAssumption DEF Moved, InsideConsole, Row
<1>2. PICK k \in 1 .. Serials - 1 : k = cursor_y - r
  BY <1>1
<1>3. /\ k \in 0 .. cursor_y /\ k - 1 \in 0 .. cursor_y
      /\ cursor_y - k = r /\ cursor_y - (k - 1) = r + 1
      /\ k \in 0 .. Serials - 1 /\ k - 1 \in 0 .. Serials - 1
  BY <1>1, <1>2
<1>4. /\ text[r] = (newest + Serials - k) % Serials
      /\ text[r + 1] = (newest + Serials - (k - 1)) % Serials
  BY <1>3 DEF Moved, LinesKept
<1>5. /\ text[r] = IF k <= newest THEN newest - k ELSE newest + Serials - k
      /\ text[r + 1] = IF k - 1 <= newest THEN newest - (k - 1) ELSE newest + Serials - (k - 1)
  BY <1>1, <1>3, <1>4, Before
<1>6. text[r] \in 0 .. Serials - 1
  BY <1>1, <1>3, <1>5
<1>7. (text[r] + 1) % Serials = IF text[r] + 1 < Serials THEN text[r] + 1 ELSE 0
  BY <1>6, Neighbours
<1>8. text[r + 1] = (text[r] + 1) % Serials
  BY <1>1, <1>3, <1>5, <1>7
<1>. QED BY <1>1, <1>8 DEF Follows, Row

\* A row that is cleared follows anything.
LEMMA ClearedFollows ==
    ASSUME NEW t, NEW y, NEW x, NEW r \in Row, NEW q \in Row, Follows(t[r], t[q])
    PROVE  Follows(Cleared(t, y, x)[r], Cleared(t, y, x)[q])
BY DEF Cleared, Follows

\* The cursor enters the next row: what was newer is older when the console has run out.
LEMMA EntersOlder ==
    ASSUME Moved, OlderLines, NEW x, EnterRow(x)
    PROVE  OlderLines'
<1>1. /\ Lines \in Nat /\ Height \in Nat \ {0} /\ Height < Lines
      /\ cursor_y \in Nat /\ cursor_y < Lines
      /\ newest \in 0 .. Serials - 1 /\ Serials \in Nat
      /\ text \in [Row -> -1 .. Serials - 1]
      /\ is_full \in BOOLEAN
  BY ConsoleAssumption DEF Moved, InsideConsole, Row
<1>2. CASE cursor_y + 1 < Lines
  <2>1. /\ cursor_y' = cursor_y + 1 /\ is_full' = is_full
        /\ text' = [text EXCEPT ![cursor_y + 1] = NextLine]
    BY <1>2 DEF EnterRow
  <2>2. \A r \in Row : r # cursor_y + 1 => text'[r] = text[r]
    BY <1>1, <2>1
  <2>3. \A r \in Row : r > cursor_y' => r > cursor_y /\ r # cursor_y + 1 /\ r \in Nat
    BY <1>1, <2>1 DEF Row
  <2>4. \A r \in Row : r > cursor_y' /\ ~is_full' => text'[r] = Blank
    BY <2>1, <2>2, <2>3 DEF OlderLines
  <2>5. ASSUME NEW r \in Row, r > cursor_y', r < Lines - 1
        PROVE  Follows(text'[r], text'[r + 1])
    <3>1. r + 1 \in Row /\ r + 1 # cursor_y + 1 /\ r > cursor_y /\ r # cursor_y + 1
      BY <1>1, <2>1, <2>5 DEF Row
    <3>. QED BY <2>2, <2>5, <3>1 DEF OlderLines
  <2>6. ASSUME is_full', cursor_y' < Lines - Height
        PROVE  Follows(text'[Lines - Height], text'[0])
    <3>1. /\ Lines - Height \in Row /\ 0 \in Row /\ cursor_y < Lines - Height
          /\ Lines - Height # cursor_y + 1 /\ 0 # cursor_y + 1
      BY <1>1, <2>1, <2>6 DEF Row
    <3>. QED BY <2>1, <2>2, <2>6, <3>1 DEF OlderLines
  <2>. QED BY <2>4, <2>5, <2>6 DEF OlderLines
<1>3. CASE ~(cursor_y + 1 < Lines)
  <2> DEFINE w == Wrapped(NextLine)
  <2>1. /\ cursor_y' = Height - 1 /\ is_full' = TRUE
        /\ text' = Cleared(w, Height - 1, x)
    BY <1>3 DEF EnterRow
  <2>2. cursor_y = Lines - 1
    BY <1>1, <1>3
  <2>3. ASSUME NEW r \in Row, r > cursor_y', r < Lines - 1
        PROVE  Follows(text'[r], text'[r + 1])
    <3>1. /\ r \in Row /\ r + 1 \in Row /\ r < cursor_y
          /\ ~(r < Height - 1) /\ r # Height - 1
          /\ ~(r + 1 < Height - 1) /\ r + 1 # Height - 1
      BY <1>1, <2>1, <2>2, <2>3 DEF Row
    <3>2. w[r] = text[r] /\ w[r + 1] = text[r + 1]
      BY <3>1 DEF Wrapped
    <3>3. Follows(w[r], w[r + 1])
      BY <3>1, <3>2, NewerLines
    <3> HIDE DEF w
    <3>. QED BY <2>1, <3>1, <3>3, ClearedFollows
  <2>4. ASSUME cursor_y' < Lines - Height
        PROVE  Follows(text'[Lines - Height], text'[0])
    <3>1. /\ Lines - Height \in Row /\ 0 \in Row
          /\ ~(Lines - Height < Height - 1) /\ Lines - Height # Height - 1
      BY <1>1, <2>1, <2>4 DEF Row
    <3>2. w[Lines - Height] = text[Lines - Height]
      BY <3>1 DEF Wrapped
    <3>3. ASSUME Height = 1 PROVE Follows(w[Lines - Height], w[0])
      <4>1. w[0] = NextLine /\ Lines - Height = cursor_y
        BY <1>1, <2>2, <3>1, <3>3 DEF Wrapped
      <4>2. text[cursor_y] = newest
        <5>1. text[cursor_y - 0] = (newest + Serials - 0) % Serials /\ cursor_y - 0 = cursor_y
          BY <1>1 DEF Moved, LinesKept
        <5>2. (newest + Serials - 0) % Serials = newest
          BY <1>1, Before, ConsoleAssumption
        <5>. QED BY <5>1, <5>2
      <4>. QED BY <3>2, <4>1, <4>2 DEF NextLine, Follows
    <3>4. ASSUME Height # 1 PROVE Follows(w[Lines - Height], w[0])
      <4>1. 0 < Height - 1 /\ 0 + Lines + 1 - Height = Lines - Height + 1
        BY <1>1, <3>4
      <4>2. w[0] = text[Lines - Height + 1]
        BY <3>1, <4>1 DEF Wrapped
      <4>3. Lines - Height < cursor_y
        BY <1>1, <2>2, <3>4
      <4>. QED BY <3>1, <3>2, <4>2, <4>3, NewerLines
    <3>5. Follows(w[Lines - Height], w[0])
      BY <3>3, <3>4
    <3> HIDE DEF w
    <3>. QED BY <2>1, <3>1, <3>5, ClearedFollows
  <2>. QED BY <2>1, <2>3, <2>4 DEF OlderLines
<1>. QED BY <1>2, <1>3


\* What stays when the rows do, or only the screen moves.
LEMMA StaysOlder ==
    ASSUME OlderLines, UNCHANGED <<cursor_y, is_full, text>>
    PROVE  OlderLines'
BY DEF OlderLines, Row, Follows

\* BACKSPACE leaves a blank row behind.
LEMMA ErasesOlder ==
    ASSUME Moved, OlderLines, Erase
    PROVE  OlderLines'
<1>1. /\ Lines \in Nat /\ Height \in Nat \ {0} /\ Height < Lines
      /\ cursor_y \in Nat /\ cursor_y < Lines
      /\ text \in [Row -> -1 .. Serials - 1]
  BY ConsoleAssumption DEF Moved, InsideConsole, Row
<1>2. CASE \E x : StayInRow(x)
  BY <1>2, StaysOlder DEF StayInRow
<1>3. CASE ~(cursor_x > 0) /\ cursor_y > 0
  <2>1. /\ cursor_y' = cursor_y - 1 /\ is_full' = is_full
        /\ text' = [text EXCEPT ![cursor_y] = Blank]
    BY <1>3 DEF Erase
  <2>2. /\ \A r \in Row : r # cursor_y => text'[r] = text[r]
        /\ text'[cursor_y] = Blank
    BY <1>1, <2>1 DEF Row
  <2>3. \A r \in Row : r > cursor_y' => r = cursor_y \/ r > cursor_y
    BY <1>1, <2>1 DEF Row
  <2>4. \A r \in Row : r > cursor_y' /\ ~is_full' => text'[r] = Blank
    BY <1>1, <2>1, <2>2, <2>3 DEF OlderLines, Row
  <2>5. ASSUME NEW r \in Row, r > cursor_y', r < Lines - 1
        PROVE  Follows(text'[r], text'[r + 1])
    <3>1. CASE r = cursor_y
      BY <2>2, <3>1 DEF Follows
    <3>2. CASE r # cursor_y
      <4>1. r > cursor_y /\ r + 1 \in Row /\ r + 1 # cursor_y
        BY <1>1, <2>3, <2>5, <3>2 DEF Row
      <4>. QED BY <2>2, <2>5, <3>2, <4>1 DEF OlderLines
    <3>. QED BY <3>1, <3>2
  <2>6. ASSUME is_full', cursor_y' < Lines - Height
        PROVE  Follows(text'[Lines - Height], text'[0])
    <3>1. Lines - Height \in Row /\ 0 \in Row /\ cursor_y # 0
      BY <1>1, <1>3 DEF Row
    <3>2. CASE cursor_y = Lines - Height
      BY <2>2, <3>2 DEF Follows
    <3>3. CASE cursor_y # Lines - Height
      <4>1. cursor_y < Lines - Height
        BY <1>1, <2>1, <2>6, <3>3
      <4>. QED BY <2>1, <2>2, <2>6, <3>1, <3>3, <4>1 DEF OlderLines
    <3>. QED BY <3>2, <3>3
  <2>. QED BY <2>4, <2>5, <2>6 DEF OlderLines
<1>. QED BY <1>2, <1>3 DEF Erase

\* The older lines after every step.
LEMMA NextOlder == Moved /\ OlderLines /\ [ConsoleNext]_consoleVars => OlderLines'
<1> SUFFICES ASSUME Moved, OlderLines, [ConsoleNext]_consoleVars PROVE OlderLines'
  OBVIOUS
<1>1. ASSUME NEW k, Advance(k) PROVE OlderLines'
  BY <1>1, EntersOlder, StaysOlder DEF Advance, StayInRow
<1>2. CASE PutChar \/ Tab \/ Echo
  BY <1>1, <1>2 DEF PutChar, Tab, Echo
<1>3. CASE NewLine
  BY <1>3, EntersOlder DEF NewLine
<1>4. CASE Erase
  BY <1>4, ErasesOlder
<1>5. CASE ScrollToCursor
  <2>1. /\ cursor_y' = cursor_y /\ is_full' = is_full
        /\ text' = Cleared(text, cursor_y, cursor_x)
    BY <1>5 DEF ScrollToCursor
  <2>2. Lines \in Nat /\ Height \in Nat \ {0} /\ Height < Lines
    BY ConsoleAssumption
  <2>3. \A r \in Row : text[r] = Blank => text'[r] = Blank
    BY <2>1 DEF Cleared
  <2>4. \A r \in Row : r < Lines - 1 => r + 1 \in Row
    BY <2>2 DEF Row
  <2>5. Lines - Height \in Row /\ 0 \in Row
    BY <2>2 DEF Row
  <2>6. \A r \in Row : r > cursor_y /\ r < Lines - 1 => Follows(text'[r], text'[r + 1])
    BY <2>1, <2>4, ClearedFollows DEF OlderLines
  <2>7. is_full /\ cursor_y < Lines - Height => Follows(text'[Lines - Height], text'[0])
    BY <2>1, <2>5, ClearedFollows DEF OlderLines
  <2>. QED BY <2>1, <2>3, <2>6, <2>7 DEF OlderLines
<1>6. CASE NewRead \/ ScrollUp \/ ScrollDown \/ UNCHANGED consoleVars
  BY <1>6, StaysOlder DEF NewRead, ScrollUp, ScrollDown, Scroll, consoleVars
<1>. QED BY <1>2, <1>3, <1>4, <1>5, <1>6 DEF ConsoleNext

\* Two rows that are not parted by the cursor show lines that follow one another.
LEMMA RowsFollow ==
    ASSUME Moved, OlderLines, NEW r \in Row, r < Lines - 1, is_full => r # cursor_y
    PROVE  Follows(text[r], text[r + 1])
<1>1. Lines \in Nat /\ cursor_y \in Nat /\ r \in Nat /\ r + 1 \in Row
  BY ConsoleAssumption DEF Moved, InsideConsole, Row
<1>2. CASE r < cursor_y
  BY <1>2, NewerLines
<1>3. CASE r = cursor_y
  BY <1>1, <1>3 DEF OlderLines, Follows
<1>4. CASE r > cursor_y
  BY <1>4 DEF OlderLines
<1>. QED BY <1>1, <1>2, <1>3, <1>4

\* OneLineAtATime: Shift and an arrow move the screen to the next or the previous line of the
\* output, over the end of the console and back too, unless the screen shows where the
\* newest and the oldest lines meet.
THEOREM ScrollsByALine == ConsoleSpec => OneLineAtATime
<1>1. ConsoleInit => OlderLines
  BY ConsoleAssumption DEF ConsoleInit, OlderLines, Row, Follows
<1>2. Moved /\ OlderLines /\ ~ShowsTheSeam /\ ScreenUp # scr_top
         => Follows(text[scr_top], text[ScreenUp])
  <2> SUFFICES ASSUME Moved, OlderLines, ~ShowsTheSeam, ScreenUp # scr_top
               PROVE  Follows(text[scr_top], text[ScreenUp])
    OBVIOUS
  <2>1. /\ Lines \in Nat /\ Height \in Nat \ {0} /\ Height < Lines
        /\ scr_top \in 0 .. Lines - Height /\ cursor_y \in Nat /\ cursor_y < Lines
    BY ConsoleAssumption DEF Moved, InsideConsole, Row
  <2>2. CASE is_full /\ scr_top + Height = Lines
    <3>1. /\ ScreenUp = 0 /\ scr_top = Lines - Height
          /\ scr_top + Height - 1 # cursor_y
      BY <2>1, <2>2 DEF ScreenUp
    <3>2. cursor_y < Lines - Height
      BY <2>1, <2>2, <3>1 DEF ShowsTheSeam
    <3>. QED BY <2>2, <3>1, <3>2 DEF OlderLines
  <2>3. CASE ~(is_full /\ scr_top + Height = Lines)
    <3>1. /\ ScreenUp = scr_top + 1 
          /\ is_full => scr_top + Height - 1 # cursor_y
          /\ ~is_full => cursor_y >= scr_top + Height
      BY <2>3 DEF ScreenUp
    <3>2. is_full => scr_top # cursor_y
      BY <2>1, <3>1 DEF ShowsTheSeam
    <3>3. scr_top \in Row /\ scr_top < Lines - 1
      BY <2>1, <2>3, <3>1 DEF Row
    <3>. QED BY <3>1, <3>2, <3>3, RowsFollow
  <2>. QED BY <2>2, <2>3
<1>3. Moved /\ OlderLines /\ ScreenDown # scr_top => Follows(text[ScreenDown], text[scr_top])
  <2> SUFFICES ASSUME Moved, OlderLines, ScreenDown # scr_top
               PROVE  Follows(text[ScreenDown], text[scr_top])
    OBVIOUS
  <2>1. /\ Lines \in Nat /\ Height \in Nat \ {0} /\ Height < Lines
        /\ scr_top \in 0 .. Lines - Height /\ cursor_y \in Nat /\ cursor_y < Lines
    BY ConsoleAssumption DEF Moved, InsideConsole, Row
  <2>2. CASE scr_top > 0
    <3>1. ScreenDown = scr_top - 1 /\ scr_top # Oldest
      BY <2>2 DEF ScreenDown
    <3>2. is_full => scr_top - 1 # cursor_y
      <4>1. is_full => Oldest = (cursor_y + 1) % Lines
        BY DEF Oldest
      <4>2. scr_top - 1 = cursor_y => (cursor_y + 1) % Lines = cursor_y + 1
        BY <2>1
      <4>. QED BY <2>1, <3>1, <4>1, <4>2
    <3>3. scr_top - 1 \in Row /\ scr_top - 1 < Lines - 1 /\ (scr_top - 1) + 1 = scr_top
      BY <2>1, <2>2 DEF Row
    <3>. QED BY <3>1, <3>2, <3>3, RowsFollow
  <2>3. CASE ~(scr_top > 0)
    <3>1. /\ ScreenDown = Lines - Height /\ scr_top = 0
          /\ is_full /\ cursor_y < Lines - Height
      BY <2>1, <2>3 DEF ScreenDown
    <3>. QED BY <3>1 DEF OlderLines
  <2>. QED BY <2>2, <2>3
<1>4. Moved /\ OlderLines /\ [ConsoleNext]_consoleVars
         => [~ShowsTheSeam /\ scr_top' # scr_top =>
               /\ ScrollUp => Follows(text[scr_top], text[scr_top'])
               /\ ScrollDown => Follows(text[scr_top'], text[scr_top])]_consoleVars
  BY <1>2, <1>3 DEF ScrollUp, ScrollDown, Scroll
<1>. QED BY InitInside, NextInside, NextOlder, <1>1, <1>4, PTL DEF ConsoleSpec, OneLineAtATime
=============================================================================
