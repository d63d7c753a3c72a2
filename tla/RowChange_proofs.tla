--------------------------- MODULE RowChange_proofs --------------------------
(***************************************************************************)
(* Proofs about RowChange, for any relation with any types, identity,      *)
(* dropped, quoted and out-of-line columns, any texts, any rows and any    *)
(* number of transactions, along the way of a change:                      *)
(*   1. A value that is written as a literal is read back as the text it   *)
(*      was (LiteralIsRead), character by character.                       *)
(*   2. Writer and reader of a message share nothing but the order of what *)
(*      is on the wire: where each item stands in what the plugin writes   *)
(*      (ColumnsWritten, KeyWritten, TupleWritten, HeadWritten),           *)
(*   3. and what the client, which counts its way from item to item, finds *)
(*      there (HeadRead, TupleRead, and one lemma for each kind of change).*)
(*   4. So a message that was decoded says what its change says (IInv).    *)
(*   5. The statement of such a message (StatementIs),                     *)
(*   6. what its equations find and set at the target (WhereFinds,         *)
(*      SetAssigns),                                                       *)
(*   7. the rows of a table,                                               *)
(*   8. what the statement is in terms of the row before and after         *)
(*      (StatementHas),                                                    *)
(*   9. its effect (EffectIs), which is the change if it finds its row     *)
(*      alone (EffectIsSource),                                            *)
(*  10. and when that is so (KeyedEffect, HandledSpeaks).                  *)
(*  11. The inductive invariant (ReplicaInv) and the theorems.             *)
(***************************************************************************)
EXTENDS RowChange, Induction, FunctionTheorems, TLAPS

-----------------------------------------------------------------------------
(* Part 1: a value that the client writes is read by the target as the     *)
(* text it was.  Texts, and what the target's parser knows of one.         *)
Heldable == {"", Quote, Backslash}
ReaderState == [text : Texts, held : Heldable, ok : BOOLEAN]
Reader(text, held, ok) == [text |-> text, held |-> held, ok |-> ok]

(* The parser goes on from a through a text.                               *)
GoesOn(a, s, escapes) ==
  LET after[n \in 0 .. Len(s)] ==
        IF n = 0 THEN a ELSE StringStep(after[n - 1], s[n], escapes)
  IN  after[Len(s)]

(* A state of the parser has its type,                                     *)
LEMMA ReaderType ==
  ASSUME NEW t \in Texts, NEW h \in Heldable, NEW o \in BOOLEAN
  PROVE  Reader(t, h, o) \in ReaderState
BY DEF Reader, ReaderState

(* and a step of it leaves one.                                            *)
LEMMA StringStepType ==
  ASSUME NEW a \in ReaderState, NEW c \in Char, NEW escapes
  PROVE  StringStep(a, c, escapes) \in ReaderState
<1> DEFINE t == Append(a.text, c)
<1>1. t \in Texts
  BY AppendProperties DEF ReaderState, Texts
<1> DEFINE o == a.ok /\ c = Quote
<1>2. o \in BOOLEAN
  BY Zenon
<1>0. "" \in Heldable
  BY DEF Heldable
<1> HIDE DEF t, o
<1>3. [a EXCEPT !.held = "", !.ok = o, !.text = t] \in ReaderState
  BY <1>0, <1>1, <1>2 DEF ReaderState
<1>4. [a EXCEPT !.held = "", !.text = t] \in ReaderState
  BY <1>0, <1>1 DEF ReaderState
<1>5. c \in {Quote, Backslash} => [a EXCEPT !.held = c] \in ReaderState
  BY DEF ReaderState, Heldable
<1>6. [a EXCEPT !.text = t] \in ReaderState
  BY <1>1 DEF ReaderState
<1> QED
  BY <1>3, <1>4, <1>5, <1>6 DEF StringStep, t, o

(* The parser goes through f when it goes on from a through s.             *)
GoesThrough(f, a, s, escapes) ==
  /\ f \in [0 .. Len(s) -> ReaderState]
  /\ f[0] = a
  /\ \A i \in 1 .. Len(s) : f[i] = StringStep(f[i - 1], s[i], escapes)

(* There are such states,                                                  *)
LEMMA ThroughExists ==
  ASSUME NEW a \in ReaderState, NEW s \in Texts, NEW escapes
  PROVE  \E f : GoesThrough(f, a, s, escapes)
<1> DEFINE n == Len(s)
           F == [p \in (1 .. n) \X ReaderState |-> StringStep(p[2], s[p[1]], escapes)]
<1>0. n \in Nat /\ \A i \in 1 .. n : s[i] \in Char
  BY LenProperties, ElementOfSeq DEF Texts
<1>1. F \in [(1 .. n) \X ReaderState -> ReaderState]
  BY <1>0, StringStepType
<1>2. \A i \in 1 .. n : \A x \in ReaderState : F[<<i, x>>] = StringStep(x, s[i], escapes)
  OBVIOUS
<1> HIDE DEF F
<1>3. PICK f : IsRun(f, a, F, n, ReaderState)
  BY <1>0, <1>1, RunExists
<1>4. f \in [0 .. n -> ReaderState] /\ f[0] = a
  BY <1>3 DEF IsRun
<1>5. ASSUME NEW i \in 1 .. n PROVE f[i] = StringStep(f[i - 1], s[i], escapes)
  <2>1. f[i - 1] \in ReaderState
    BY <1>0, <1>4
  <2> QED
    BY <1>2, <1>3, <2>1 DEF IsRun
<1> QED
  BY <1>4, <1>5 DEF GoesThrough

(* and the last of them is where it ends.                                  *)
LEMMA GoesOnIsEnd ==
  ASSUME NEW a \in ReaderState, NEW s \in Texts, NEW escapes,
         NEW f, GoesThrough(f, a, s, escapes)
  PROVE  GoesOn(a, s, escapes) = f[Len(s)]
<1> DEFINE n == Len(s)
           P(h) == h = [i \in 0 .. n |->
                          IF i = 0 THEN a ELSE StringStep(h[i - 1], s[i], escapes)]
           c == CHOOSE h : P(h)
<1>0. n \in Nat
  BY LenProperties DEF Texts
<1>1. GoesOn(a, s, escapes) = c[n]
  BY DEF GoesOn
<1>2. P(f)
  <2> DEFINE h == [i \in 0 .. n |->
                     IF i = 0 THEN a ELSE StringStep(f[i - 1], s[i], escapes)]
  <2>1. \A i \in 0 .. n : h[i] = f[i]
    BY <1>0 DEF GoesThrough
  <2>2. h = f
    BY <2>1 DEF GoesThrough
  <2> QED
    BY <2>2
<1>3. P(c)
  BY <1>2
<1>4. c[0] = a /\ \A i \in 1 .. n : c[i] = StringStep(c[i - 1], s[i], escapes)
  <2> HIDE DEF c
  <2>1. 0 \in 0 .. n /\ c[0] = a
    BY <1>0, <1>3
  <2>2. ASSUME NEW i \in 1 .. n PROVE c[i] = StringStep(c[i - 1], s[i], escapes)
    BY <1>3
  <2> QED
    BY <2>1, <2>2
<1> HIDE DEF P, c
<1> DEFINE T == {i \in 0 .. n : c[i] = f[i]}
<1>5. 0 \in T
  BY <1>0, <1>4 DEF GoesThrough
<1>6. ASSUME NEW i \in 1 .. n, i - 1 \in T PROVE i \in T
  <2>1. c[i - 1] = f[i - 1]
    BY <1>6
  <2> QED
    BY <1>4, <2>1 DEF GoesThrough
<1> HIDE DEF T
<1>7. \A i \in 0 .. n : i \in T
  BY <1>0, <1>5, <1>6, UpTo
<1>8. c[n] = f[n]
  BY <1>0, <1>7 DEF T
<1> QED
  BY <1>1, <1>8

(* Through no text the parser goes nowhere,                                *)
LEMMA OnThroughNothing ==
  ASSUME NEW a \in ReaderState, NEW escapes
  PROVE  GoesOn(a, <<>>, escapes) = a
<1>1. <<>> \in Texts /\ Len(<<>>) = 0
  BY EmptySeq DEF Texts
<1>2. PICK f : GoesThrough(f, a, <<>>, escapes)
  BY <1>1, ThroughExists
<1>3. GoesOn(a, <<>>, escapes) = f[Len(<<>>)]
  BY <1>1, <1>2, GoesOnIsEnd
<1>4. f[0] = a
  BY <1>2 DEF GoesThrough
<1> QED
  BY <1>1, <1>3, <1>4

(* and through one more character it makes one more step.                  *)
LEMMA OnThroughNext ==
  ASSUME NEW a \in ReaderState, NEW s \in Texts, NEW c \in Char, NEW escapes
  PROVE  /\ s \o <<c>> \in Texts
         /\ GoesOn(a, s \o <<c>>, escapes) = StringStep(GoesOn(a, s, escapes), c, escapes)
<1> DEFINE m == Len(s)
           sc == s \o <<c>>
<1>0. m \in Nat
  BY LenProperties DEF Texts
<1>1. /\ sc \in Texts /\ Len(sc) = m + 1
      /\ \A i \in 1 .. m : sc[i] = s[i]
      /\ sc[m + 1] = c
  <2>1. <<c>> \in Texts /\ Len(<<c>>) = 1 /\ <<c>>[1] = c
    BY OneElement DEF Texts
  <2> DEFINE o == <<c>>
  <2>0. s \in Seq(Char) /\ o \in Seq(Char)
    BY <2>1 DEF Texts
  <2> HIDE DEF o
  <2>2. /\ s \o o \in Texts /\ Len(s \o o) = Len(s) + Len(o)
        /\ \A i \in 1 .. Len(s) : (s \o o)[i] = s[i]
        /\ \A i \in 1 .. Len(o) : (s \o o)[Len(s) + i] = o[i]
    BY <2>0, ConcatRows DEF Texts
  <2>3. Len(o) = 1 /\ o[1] = c /\ 1 \in 1 .. 1
    BY <2>1 DEF o
  <2> QED
    BY <2>2, <2>3 DEF o
<1> HIDE DEF m, sc
<1>2. PICK f : GoesThrough(f, a, sc, escapes)
  BY <1>1, ThroughExists
<1> DEFINE g == [i \in 0 .. m |-> f[i]]
<1>3. /\ f \in [0 .. m + 1 -> ReaderState] /\ f[0] = a
      /\ \A i \in 1 .. m + 1 : f[i] = StringStep(f[i - 1], sc[i], escapes)
  BY <1>1, <1>2 DEF GoesThrough
<1>4. GoesThrough(g, a, s, escapes)
  <2>1. g \in [0 .. m -> ReaderState] /\ g[0] = a
    BY <1>0, <1>3
  <2>2. ASSUME NEW i \in 1 .. m PROVE g[i] = StringStep(g[i - 1], s[i], escapes)
    <3>1. i \in 1 .. m + 1 /\ g[i] = f[i] /\ g[i - 1] = f[i - 1]
      BY <1>0
    <3> QED
      BY <1>1, <1>3, <3>1
  <2> HIDE DEF g
  <2> QED
    BY <2>1, <2>2 DEF GoesThrough, m
<1>5. g[m] = f[m]
  BY <1>0
<1> HIDE DEF g
<1>6. GoesOn(a, s, escapes) = f[m]
  BY <1>4, <1>5, GoesOnIsEnd DEF m
<1>7. GoesOn(a, sc, escapes) = f[m + 1]
  BY <1>1, <1>2, GoesOnIsEnd
<1>8. m + 1 \in 1 .. m + 1 /\ m + 1 - 1 = m
  BY <1>0
<1>9. f[m + 1] = StringStep(f[m], c, escapes)
  <2> DEFINE k == m + 1
  <2>1. k \in 1 .. m + 1 /\ k - 1 = m
    BY <1>0
  <2>4. sc[k] = c
    BY <1>1
  <2> HIDE DEF k
  <2>2. f[k] = StringStep(f[k - 1], sc[k], escapes)
    BY <1>3, <2>1
  <2>3. f[k] = StringStep(f[m], c, escapes)
    BY <2>1, <2>2, <2>4
  <2> QED
    BY <2>3 DEF k
<1> QED
  BY <1>1, <1>6, <1>7, <1>9 DEF sc

(* What is written for a character of a text.                              *)
Twice(c) == IF SQL_STR_DOUBLE(c) THEN <<c, c>> ELSE <<c>>

(* It is one of the texts.                                                 *)
LEMMA TwiceType ==
  ASSUME NEW c \in Char
  PROVE  /\ <<c>> \in Texts /\ Twice(c) \in Texts
         /\ Twice(c) = IF c \in {Quote, Backslash} THEN <<c>> \o <<c>> ELSE <<c>>
<1>1. <<c>> \in Texts
  BY OneElement DEF Texts
<1>2. <<c>> \o <<c>> \in Texts
  BY <1>1, ConcatProperties DEF Texts
<1>3. <<c, c>> = <<c>> \o <<c>>
  BY TwoElements
<1> QED
  BY <1>1, <1>2, <1>3 DEF Twice, SQL_STR_DOUBLE

(* Doubled goes character by character.                                    *)
LEMMA DoubledGrows ==
  ASSUME NEW src \in Texts
  PROVE  \E d \in [0 .. Len(src) -> Texts] :
           /\ d[0] = <<>>
           /\ \A i \in 1 .. Len(src) : d[i] = d[i - 1] \o Twice(src[i])
           /\ Doubled(src) = d[Len(src)]
<1> DEFINE n == Len(src)
           F == [p \in (1 .. n) \X Texts |-> p[2] \o Twice(src[p[1]])]
           P(h) == h = [i \in 0 .. n |->
                          IF i = 0 THEN <<>>
                          ELSE h[i - 1] \o (IF SQL_STR_DOUBLE(src[i])
                                            THEN <<src[i], src[i]>> ELSE <<src[i]>>)]
           c == CHOOSE h : P(h)
<1>0. n \in Nat /\ (\A i \in 1 .. n : src[i] \in Char) /\ <<>> \in Texts
  BY LenProperties, ElementOfSeq, EmptySeq DEF Texts
<1>1. F \in [(1 .. n) \X Texts -> Texts]
  BY <1>0, TwiceType, ConcatProperties DEF Texts
<1>2. \A i \in 1 .. n : \A a \in Texts : F[<<i, a>>] = a \o Twice(src[i])
  OBVIOUS
<1> HIDE DEF F
<1>3. PICK f : IsRun(f, <<>>, F, n, Texts)
  BY <1>0, <1>1, RunExists
<1>4. f \in [0 .. n -> Texts] /\ f[0] = <<>>
  BY <1>3 DEF IsRun
<1>5. ASSUME NEW i \in 1 .. n PROVE f[i] = f[i - 1] \o Twice(src[i])
  <2>1. f[i - 1] \in Texts
    BY <1>0, <1>4
  <2> QED
    BY <1>2, <1>3, <2>1 DEF IsRun
<1>6. P(f)
  <2> DEFINE h == [i \in 0 .. n |->
                     IF i = 0 THEN <<>>
                     ELSE f[i - 1] \o (IF SQL_STR_DOUBLE(src[i])
                                       THEN <<src[i], src[i]>> ELSE <<src[i]>>)]
  <2>1. ASSUME NEW i \in 0 .. n PROVE h[i] = f[i]
    <3>1. CASE i = 0
      BY <1>4, <3>1
    <3>2. CASE i # 0
      <4>1. i \in 1 .. n
        BY <1>0, <3>2
      <4> QED
        BY <1>5, <3>2, <4>1 DEF Twice
    <3> QED
      BY <3>1, <3>2
  <2>2. h = f
    BY <1>4, <2>1
  <2> QED
    BY <2>2
<1>7. P(c)
  BY <1>6
<1>8. Doubled(src) = c[n]
  BY DEF Doubled
<1>9. c[0] = <<>> /\ \A i \in 1 .. n : c[i] = c[i - 1] \o Twice(src[i])
  <2> HIDE DEF c
  <2>0. c = [i \in 0 .. n |-> IF i = 0 THEN <<>> ELSE c[i - 1] \o Twice(src[i])]
    BY <1>7 DEF Twice
  <2> HIDE DEF P
  <2>1. 0 \in 0 .. n /\ c[0] = <<>>
    BY <1>0, <2>0
  <2>2. ASSUME NEW i \in 1 .. n PROVE c[i] = c[i - 1] \o Twice(src[i])
    BY SMTT(60), <2>0
  <2> QED
    BY <2>1, <2>2
<1> HIDE DEF P, c
<1> DEFINE T == {i \in 0 .. n : c[i] = f[i]}
<1>10. 0 \in T
  BY <1>0, <1>4, <1>9
<1>11. ASSUME NEW i \in 1 .. n, i - 1 \in T PROVE i \in T
  <2>1. c[i - 1] = f[i - 1]
    BY <1>11
  <2>2. c[i] = f[i - 1] \o Twice(src[i])
    BY <1>9, <2>1
  <2>3. c[i] = f[i]
    BY <1>5, <2>2
  <2> QED
    BY <2>3
<1> HIDE DEF T
<1>12. \A i \in 0 .. n : i \in T
  BY <1>0, <1>10, <1>11, UpTo
<1>13. c[n] = f[n]
  BY <1>0, <1>12 DEF T
<1> QED
  BY <1>4, <1>5, <1>8, <1>13

(* The steps of the parser that are needed: a character that is nothing    *)
(* special, a quote before another and the one behind it, and the same     *)
(* for a backslash after E.                                                *)
LEMMA ParserSteps ==
  ASSUME NEW t, NEW c, NEW escapes
  PROVE  /\ c # Quote /\ ~(escapes /\ c = Backslash) =>
              StringStep(Reader(t, "", TRUE), c, escapes) = Reader(Append(t, c), "", TRUE)
         /\ c = Quote =>
              StringStep(Reader(t, "", TRUE), c, escapes) = Reader(t, Quote, TRUE)
         /\ c = Quote =>
              StringStep(Reader(t, Quote, TRUE), c, escapes) = Reader(Append(t, c), "", TRUE)
         /\ escapes /\ c = Backslash =>
              StringStep(Reader(t, "", TRUE), c, escapes) = Reader(t, Backslash, TRUE)
         /\ c = Backslash =>
              StringStep(Reader(t, Backslash, TRUE), c, escapes) = Reader(Append(t, c), "", TRUE)
<1>1. "" # Quote /\ "" # Backslash /\ Quote # Backslash
  BY DEF Quote, Backslash
<1>2. ASSUME c # Quote, ~(escapes /\ c = Backslash)
      PROVE  StringStep(Reader(t, "", TRUE), c, escapes) = Reader(Append(t, c), "", TRUE)
  BY <1>1, <1>2 DEF StringStep, Reader
<1>3. ASSUME c = Quote
      PROVE  StringStep(Reader(t, "", TRUE), c, escapes) = Reader(t, Quote, TRUE)
  BY <1>1, <1>3 DEF StringStep, Reader
<1>4. ASSUME c = Quote
      PROVE  StringStep(Reader(t, Quote, TRUE), c, escapes) = Reader(Append(t, c), "", TRUE)
  BY <1>1, <1>4 DEF StringStep, Reader
<1>5. ASSUME escapes, c = Backslash
      PROVE  StringStep(Reader(t, "", TRUE), c, escapes) = Reader(t, Backslash, TRUE)
  BY <1>1, <1>5 DEF StringStep, Reader
<1>6. ASSUME c = Backslash
      PROVE  StringStep(Reader(t, Backslash, TRUE), c, escapes) = Reader(Append(t, c), "", TRUE)
  BY <1>1, <1>6 DEF StringStep, Reader
<1> QED
  BY <1>2, <1>3, <1>4, <1>5, <1>6

(* Where the brackets stand does not matter.                               *)
LEMMA TwiceBehind ==
  ASSUME NEW s \in Texts, NEW o \in Texts
  PROVE  (s \o o) \o o = s \o (o \o o)
BY ConcatAssociative DEF Texts

(* What the parser makes of what was written for a character.              *)
LEMMA TwiceReads ==
  ASSUME NEW s \in Texts, NEW t \in Texts, NEW c \in Char, NEW escapes \in BOOLEAN,
         GoesOn(StringStart, s, escapes) = Reader(t, "", TRUE),
         c = Backslash => escapes
  PROVE  /\ s \o Twice(c) \in Texts
         /\ GoesOn(StringStart, s \o Twice(c), escapes) = Reader(Append(t, c), "", TRUE)
<1> DEFINE o == <<c>>
           G(x) == GoesOn(StringStart, x, escapes)
<1>1. StringStart \in ReaderState
  <2>1. <<>> \in Texts
    BY EmptySeq DEF Texts
  <2> QED
    BY <2>1 DEF StringStart, ReaderState, Heldable
<1>2. s \o o \in Texts /\ G(s \o o) = StringStep(G(s), c, escapes)
  BY <1>1, OnThroughNext
<1>3. (s \o o) \o o \in Texts /\ G((s \o o) \o o) = StringStep(G(s \o o), c, escapes)
  BY <1>1, <1>2, OnThroughNext
<1>4. CASE c \in {Quote, Backslash}
  <2>1. Twice(c) = o \o o
    BY <1>4, TwiceType
  <2>2. s \o Twice(c) = (s \o o) \o o
    <3>1. o \in Texts
      BY TwiceType
    <3> HIDE DEF o
    <3>2. (s \o o) \o o = s \o (o \o o)
      BY <3>1, TwiceBehind
    <3> QED
      BY <2>1, <3>2
  <2> HIDE DEF o, G
  <2>3. G(s \o o) = Reader(t, c, TRUE)
    BY ZenonT(60), <1>2, <1>4, ParserSteps DEF G
  <2>4. StringStep(Reader(t, c, TRUE), c, escapes) = Reader(Append(t, c), "", TRUE)
    <3>1. CASE c = Quote
      BY <3>1, ParserSteps
    <3>2. CASE c = Backslash
      BY <3>2, ParserSteps
    <3> QED
      BY <1>4, <3>1, <3>2
  <2>5. G((s \o o) \o o) = Reader(Append(t, c), "", TRUE)
    BY <1>3, <2>3, <2>4
  <2> QED
    BY <1>3, <2>2, <2>5 DEF G
<1>5. CASE c \notin {Quote, Backslash}
  <2>1. Twice(c) = o
    BY <1>5, TwiceType
  <2>2. G(s \o o) = Reader(Append(t, c), "", TRUE)
    BY <1>2, <1>5, ParserSteps
  <2> QED
    BY <1>2, <2>1, <2>2
<1> QED
  BY <1>4, <1>5

(* The prefix of a text, one character longer.                             *)
LEMMA PrefixGrows ==
  ASSUME NEW s \in Texts, NEW i \in 1 .. Len(s)
  PROVE  /\ SubSeq(s, 1, i - 1) \in Texts
         /\ SubSeq(s, 1, i) = Append(SubSeq(s, 1, i - 1), s[i])
<1>1. Len(s) \in Nat /\ 1 \in 1 .. Len(s) /\ s[i] \in Char
  BY LenProperties, ElementOfSeq DEF Texts
<1>2. SubSeq(s, 1, i) = SubSeq(s, 1, i - 1) \o <<s[i]>>
  BY <1>1, SubSeqRecursiveSecond DEF Texts
<1>3. SubSeq(s, 1, i - 1) \in Seq(Char)
  <2>1. 1 \in Int /\ i - 1 \in Int /\ \A j \in 1 .. i - 1 : s[j] \in Char
    BY <1>1, ElementOfSeq DEF Texts
  <2> QED
    BY <2>1, SubSeqProperties
<1> QED
  BY <1>1, <1>2, <1>3, AppendIsConcat DEF Texts

(* A text that was doubled is read as it was, if backslashes are looked    *)
(* for where there are some.                                               *)
LEMMA DoubledIsRead ==
  ASSUME NEW src \in Texts, NEW escapes \in BOOLEAN, Backslash \in ToSet(src) => escapes
  PROVE  /\ Doubled(src) \in Texts
         /\ Unescape(Doubled(src), escapes) = Reader(src, "", TRUE)
<1> DEFINE n == Len(src)
           G(x) == GoesOn(StringStart, x, escapes)
<1>0. /\ n \in Nat /\ (\A i \in 1 .. n : src[i] \in Char)
      /\ DOMAIN src = 1 .. n
      /\ <<>> \in Texts
  BY LenProperties, ElementOfSeq, EmptySeq DEF Texts
<1>1. PICK d \in [0 .. n -> Texts] :
        /\ d[0] = <<>>
        /\ \A i \in 1 .. n : d[i] = d[i - 1] \o Twice(src[i])
        /\ Doubled(src) = d[n]
  BY DoubledGrows
<1>2. \A i \in 1 .. n : src[i] = Backslash => escapes
  BY <1>0 DEF ToSet
<1>3. SubSeq(src, 1, n) = src
  BY SubSeqFull DEF Texts
<1> DEFINE Fine(i) == G(d[i]) = Reader(SubSeq(src, 1, i), "", TRUE)
           T == {i \in 0 .. n : Fine(i)}
<1> HIDE DEF n
<1>4. 0 \in T
  <2>1. StringStart \in ReaderState
    BY <1>0 DEF StringStart, ReaderState, Heldable
  <2>2. G(d[0]) = StringStart
    BY <1>1, <2>1, OnThroughNothing
  <2>3. SubSeq(src, 1, 0) = <<>>
    BY SubSeqEmpty
  <2>4. Fine(0)
    BY <2>2, <2>3 DEF StringStart, Reader
  <2> HIDE DEF Fine
  <2> QED
    BY <1>0, <2>4
<1>5. ASSUME NEW i \in 1 .. n, i - 1 \in T PROVE i \in T
  <2> DEFINE x == src[i]
             a == d[i - 1]
             t == SubSeq(src, 1, i - 1)
  <2>1. G(a) = Reader(t, "", TRUE)
    BY <1>5
  <2>2. a \in Texts /\ x \in Char
    <3>1. i - 1 \in 0 .. n
      BY <1>0
    <3> QED
      BY <1>0, <1>1, <3>1
  <2>3. t \in Texts /\ SubSeq(src, 1, i) = Append(t, x)
    BY PrefixGrows DEF n
  <2>4. x = Backslash => escapes
    BY <1>2
  <2>5. d[i] = a \o Twice(x)
    BY <1>1
  <2> HIDE DEF x, a, t
  <2>8. GoesOn(StringStart, a, escapes) = Reader(t, "", TRUE)
    BY <2>1
  <2>9. GoesOn(StringStart, a \o Twice(x), escapes) = Reader(Append(t, x), "", TRUE)
    BY ZenonT(60), <2>2, <2>3, <2>4, <2>8, TwiceReads
  <2>6. G(a \o Twice(x)) = Reader(Append(t, x), "", TRUE)
    BY <2>9
  <2>7. Fine(i)
    BY <2>3, <2>5, <2>6
  <2> HIDE DEF Fine
  <2> QED
    BY <2>7
<1> HIDE DEF T
<1>6. \A i \in 0 .. n : i \in T
  BY <1>0, <1>4, <1>5, UpTo
<1> HIDE DEF Fine
<1>7. n \in 0 .. n /\ Fine(n)
  BY <1>0, <1>6 DEF T
<1>8. d[n] \in Texts /\ GoesOn(StringStart, d[n], escapes) = Reader(src, "", TRUE)
  BY <1>3, <1>7 DEF Fine
<1>9. Unescape(Doubled(src), escapes) = GoesOn(StringStart, d[n], escapes)
  BY <1>1 DEF Unescape, GoesOn
<1> QED
  BY <1>1, <1>8, <1>9

(* So is a text without quotes, without looking for backslashes.           *)
LEMMA PlainIsRead ==
  ASSUME NEW src \in Texts, Quote \notin ToSet(src)
  PROVE  Unescape(src, FALSE) = Reader(src, "", TRUE)
<1> DEFINE n == Len(src)
           G(x) == GoesOn(StringStart, x, FALSE)
           p(i) == SubSeq(src, 1, i)
<1>0. /\ n \in Nat /\ (\A i \in 1 .. n : src[i] \in Char)
      /\ DOMAIN src = 1 .. n
      /\ <<>> \in Texts
  BY LenProperties, ElementOfSeq, EmptySeq DEF Texts
<1>2. \A i \in 1 .. n : src[i] # Quote
  BY <1>0 DEF ToSet
<1>3. p(n) = src
  BY SubSeqFull DEF Texts
<1>s. StringStart \in ReaderState
  BY <1>0 DEF StringStart, ReaderState, Heldable
<1> DEFINE Fine(i) == G(p(i)) = Reader(p(i), "", TRUE)
           T == {i \in 0 .. n : Fine(i)}
<1> HIDE DEF n
<1>4. 0 \in T
  <2>2. G(<<>>) = StringStart
    BY <1>s, OnThroughNothing
  <2>3. p(0) = <<>>
    BY SubSeqEmpty
  <2>4. Fine(0)
    BY <2>2, <2>3 DEF StringStart, Reader
  <2> HIDE DEF Fine
  <2> QED
    BY <1>0, <2>4
<1>5. ASSUME NEW i \in 1 .. n, i - 1 \in T PROVE i \in T
  <2> DEFINE x == src[i]
             t == SubSeq(src, 1, i - 1)
  <2>1. GoesOn(StringStart, t, FALSE) = Reader(t, "", TRUE)
    BY <1>5
  <2>2. x \in Char /\ x # Quote
    BY <1>0, <1>2
  <2>3. t \in Texts /\ SubSeq(src, 1, i) = Append(t, x)
    BY PrefixGrows DEF n
  <2>4. p(i) = SubSeq(src, 1, i)
    OBVIOUS
  <2> HIDE DEF x, t, p
  <2>5. Append(t, x) = t \o <<x>>
    BY <2>2, <2>3, AppendIsConcat DEF Texts
  <2>6. GoesOn(StringStart, t \o <<x>>, FALSE) = StringStep(GoesOn(StringStart, t, FALSE), x, FALSE)
    BY <1>s, <2>2, <2>3, OnThroughNext
  <2>7. StringStep(Reader(t, "", TRUE), x, FALSE) = Reader(Append(t, x), "", TRUE)
    BY <2>2, ParserSteps
  <2>8. Fine(i)
    BY <2>1, <2>3, <2>4, <2>5, <2>6, <2>7
  <2> HIDE DEF Fine
  <2> QED
    BY <2>8
<1> HIDE DEF T
<1>6. \A i \in 0 .. n : i \in T
  BY <1>0, <1>4, <1>5, UpTo
<1> HIDE DEF Fine
<1>7. n \in 0 .. n /\ Fine(n)
  BY <1>0, <1>6 DEF T
<1>8. GoesOn(StringStart, src, FALSE) = Reader(src, "", TRUE)
  BY <1>3, <1>7 DEF Fine
<1> QED
  BY <1>8 DEF Unescape, GoesOn

(* A text with a quote in it is no number,                                 *)
LEMMA QuotedIsNoNumber ==
  ASSUME NEW l \in Texts, NEW i \in 1 .. Len(l), l[i] = Quote
  PROVE  ~IsNumber(l)
<1>1. DOMAIN l = 1 .. Len(l)
  BY LenProperties DEF Texts
<1>2. Quote \in ToSet(l)
  BY <1>1 DEF ToSet
<1> QED
  BY <1>2 DEF IsNumber, Quote

(* and one without is no string.                                           *)
LEMMA UnquotedIsNumber ==
  ASSUME NEW l \in Texts, Quote \notin ToSet(l), IsLiteral(l)
  PROVE  IsNumber(l)
<1>1. DOMAIN l = 1 .. Len(l) /\ Len(l) \in Nat
  BY LenProperties DEF Texts
<1> SUFFICES ASSUME Len(l) > 1, l[Len(l)] = Quote PROVE FALSE
  BY DEF IsLiteral
<1>2. Len(l) \in 1 .. Len(l)
  BY <1>1
<1>3. Quote \in ToSet(l)
  BY <1>1, <1>2 DEF ToSet
<1> QED
  BY <1>3

(* An opening, a text and a closing quote; and the openings.               *)
Framed(p, s) == (p \o s) \o <<Quote>>
Opening == <<Quote>>
EOpening == <<"E">> \o <<Quote>>

(* Each is a text of one or two characters that ends with a quote.         *)
LEMMA Openings ==
  /\ Opening \in Texts /\ Len(Opening) = 1 /\ Opening[1] = Quote
  /\ EOpening \in Texts /\ Len(EOpening) = 2 /\ EOpening[1] = "E" /\ EOpening[2] = Quote
<1>1. Quote \in Char /\ "E" \in Char
  BY ValuesAssumption
<1>2. Opening \in Texts /\ Len(Opening) = 1 /\ Opening[1] = Quote
  BY <1>1, OneElement DEF Texts, Opening
<1> DEFINE e == <<"E">>
<1>3. e \in Texts /\ Len(e) = 1 /\ e[1] = "E"
  BY <1>1, OneElement DEF Texts
<1>4. EOpening = e \o Opening
  BY DEF Opening, EOpening
<1> HIDE DEF e
<1>5. /\ e \o Opening \in Texts /\ Len(e \o Opening) = Len(e) + Len(Opening)
      /\ \A i \in 1 .. Len(e) : (e \o Opening)[i] = e[i]
      /\ \A i \in 1 .. Len(Opening) : (e \o Opening)[Len(e) + i] = Opening[i]
  BY <1>2, <1>3, ConcatRows DEF Texts
<1>6. 1 \in 1 .. Len(e) /\ 1 \in 1 .. Len(Opening) /\ Len(e) + 1 = 2
  BY <1>2, <1>3
<1>7. (e \o Opening)[2] = Opening[1]
  BY <1>5, <1>6
<1> QED
  BY <1>2, <1>3, <1>4, <1>5, <1>6, <1>7

(* What stands where in a frame.                                           *)
LEMMA FrameHolds ==
  ASSUME NEW p \in Texts, NEW s \in Texts
  PROVE  /\ Framed(p, s) \in Texts /\ Len(s) \in Nat
         /\ Len(Framed(p, s)) = Len(p) + Len(s) + 1
         /\ \A i \in 1 .. Len(p) : Framed(p, s)[i] = p[i]
         /\ Framed(p, s)[Len(Framed(p, s))] = Quote
         /\ SubSeq(Framed(p, s), Len(p) + 1, Len(Framed(p, s)) - 1) = s
<1> DEFINE k == Len(p)
           n == Len(s)
           o == <<Quote>>
           ps == p \o s
           w == Framed(p, s)
<1>0. Quote \in Char
  BY ValuesAssumption
<1>1. o \in Texts /\ Len(o) = 1 /\ o[1] = Quote
  BY <1>0, OneElement DEF Texts
<1>2. k \in Nat /\ n \in Nat /\ s \in [1 .. n -> Char]
  BY LenProperties DEF Texts
<1>3. /\ ps \in Texts /\ Len(ps) = k + n
      /\ \A i \in 1 .. k : ps[i] = p[i]
      /\ \A i \in 1 .. n : ps[k + i] = s[i]
  BY ConcatRows DEF Texts
<1>4. w = ps \o o
  BY DEF Framed
<1> HIDE DEF k, n, o, ps, w
<1>5. /\ w \in Texts /\ Len(w) = k + n + 1
      /\ \A i \in 1 .. k + n : w[i] = ps[i]
      /\ \A i \in 1 .. 1 : w[k + n + i] = o[i]
  <2>1. ps \in Seq(Char) /\ o \in Seq(Char)
    BY <1>1, <1>3 DEF Texts
  <2>2. /\ ps \o o \in Seq(Char)
        /\ Len(ps \o o) = Len(ps) + Len(o)
        /\ \A i \in 1 .. Len(ps) : (ps \o o)[i] = ps[i]
        /\ \A i \in 1 .. Len(o) : (ps \o o)[Len(ps) + i] = o[i]
    BY <2>1, ConcatRows
  <2> QED
    BY <1>1, <1>3, <1>4, <2>2 DEF Texts
<1>6. w[k + n + 1] = Quote
  <2>1. 1 \in 1 .. 1
    OBVIOUS
  <2>2. w[k + n + 1] = o[1]
    BY <1>5, <2>1
  <2> QED
    BY <1>1, <2>2
<1>7. \A i \in 1 .. k : w[i] = p[i]
  BY <1>2, <1>3, <1>5
<1>8. SubSeq(w, k + 1, k + n) = s
  <2> DEFINE b == SubSeq(w, k + 1, k + n)
  <2>1. b \in Texts /\ Len(b) = n /\ \A i \in 1 .. n : b[i] = w[k + i]
    <3>1. k + 1 \in Int /\ k + n \in Int
      BY <1>2
    <3>2. \A i \in k + 1 .. k + n : w[i] \in Char
      <4>1. \A i \in 1 .. k + n + 1 : w[i] \in Char
        BY <1>5, ElementOfSeq DEF Texts
      <4>2. k + 1 .. k + n \subseteq 1 .. k + n + 1
        BY <1>2
      <4> QED
        BY <4>1, <4>2
    <3> DEFINE x == k + 1
               z == k + n
    <3>3. x \in Int /\ z \in Int /\ \A i \in x .. z : w[i] \in Char
      BY <3>1, <3>2
    <3>4. z-x+1 = n /\ (IF x <= z THEN z-x+1 ELSE 0) = n /\ \A i \in 1 .. n : x+i-1 = k + i
      BY <1>2
    <3> HIDE DEF x, z
    <3>5. SubSeq(w, x, z) \in Seq(Char)
      BY ONLY <3>3
    <3>7. Len(SubSeq(w, x, z)) = IF x <= z THEN z-x+1 ELSE 0
      BY ONLY <3>3
    <3>8. \A i \in 1 .. z-x+1 : SubSeq(w, x, z)[i] = w[x+i-1]
      BY ONLY <3>3
    <3>6. b = SubSeq(w,x,z)
      BY DEF x, z
    <3> HIDE DEF b
    <3> QED
      BY <3>4, <3>5, <3>6, <3>7, <3>8 DEF Texts
  <2> HIDE DEF b
  <2>2. ASSUME NEW i \in 1 .. n PROVE b[i] = s[i]
    <3>1. k + i \in 1 .. k + n
      BY <1>2
    <3> QED
      BY <1>3, <1>5, <2>1, <3>1
  <2>3. b \in [1 .. n -> Char]
    BY <2>1, LenProperties DEF Texts
  <2>4. b = s
    BY <1>2, <2>2, <2>3
  <2> QED
    BY <2>4 DEF b
<1>9. Len(w) - 1 = k + n
  BY <1>2, <1>5
<1>10. /\ w \in Texts /\ Len(w) = k + n + 1 /\ (\A i \in 1 .. k : w[i] = p[i])
       /\ w[Len(w)] = Quote /\ SubSeq(w, k + 1, Len(w) - 1) = s
  BY <1>5, <1>6, <1>7, <1>8, <1>9
<1> QED
  BY <1>2, <1>10 DEF k, n, w

(* What the parser reads between the quotes, without and behind E.         *)
PlainReads(s, t) == Unescape(s, FALSE) = Reader(t, "", TRUE)
EscapedReads(s, t) == Unescape(s, TRUE) = Reader(t, "", TRUE)

(* A string is read as what stands between its quotes,                     *)
LEMMA StringIsRead ==
  ASSUME NEW s \in Texts, NEW t \in Texts, PlainReads(s, t)
  PROVE  /\ Framed(Opening, s) \in Texts
         /\ IsLiteral(Framed(Opening, s)) /\ TextOf(Framed(Opening, s)) = t
<1> DEFINE l == Framed(Opening, s)
           m == Len(Opening)
           n == Len(s)
<1>a. /\ l \in Texts /\ n \in Nat /\ Len(l) = m + n + 1
      /\ \A i \in 1 .. m : l[i] = Opening[i]
      /\ l[Len(l)] = Quote
  BY Openings, FrameHolds
<1>b. SubSeq(l, m + 1, Len(l) - 1) = s
  BY Openings, FrameHolds
<1>c. m = 1
  BY Openings
<1> HIDE DEF l, m, n
<1>1. l \in Texts /\ l[Len(l)] = Quote
  BY <1>a
<1>2. Len(l) = n + 2 /\ Len(l) > 1 /\ 1 \in 1 .. Len(l)
  BY ONLY <1>a, <1>c
<1>3. l[1] = Quote
  <2>1. 1 \in 1 .. m
    BY <1>c
  <2> QED
    BY <1>a, <2>1, Openings
<1>4. SubSeq(l, 2, Len(l) - 1) = s
  <2>1. m + 1 = 2
    BY <1>c
  <2> QED
    BY ONLY <1>b, <2>1
<1>5. ~IsEscaped(l)
  BY <1>3 DEF IsEscaped, Quote
<1>6. Body(l) = s
  BY <1>4, <1>5 DEF Body
<1>7. ~IsNumber(l)
  BY <1>1, <1>2, <1>3, QuotedIsNoNumber
<1>8. Unescape(Body(l), IsEscaped(l)) = Reader(t, "", TRUE)
  <2>1. IsEscaped(l) = FALSE
    BY <1>5
  <2> QED
    BY <1>6, <2>1, Zenon DEF PlainReads
<1> DEFINE r == Unescape(Body(l), IsEscaped(l))
<1>r. r.ok /\ r.held = "" /\ r.text = t
  <2>1. r = [text |-> t, held |-> "", ok |-> TRUE]
    BY <1>8, Zenon DEF Reader
  <2> HIDE DEF r
  <2> QED
    BY ONLY <2>1
<1>q. Quote \in {l[1], l[2]}
  BY <1>3
<1>9. IsLiteral(l)
  BY ONLY <1>1, <1>2, <1>q, <1>r DEF IsLiteral
<1>10. TextOf(l) = t
  BY ONLY <1>7, <1>r DEF TextOf
<1> QED
  BY <1>1, <1>9, <1>10 DEF l

(* also behind an E.                                                       *)
LEMMA EscapedIsRead ==
  ASSUME NEW s \in Texts, NEW t \in Texts, EscapedReads(s, t)
  PROVE  /\ Framed(EOpening, s) \in Texts
         /\ IsLiteral(Framed(EOpening, s)) /\ TextOf(Framed(EOpening, s)) = t
<1> DEFINE l == Framed(EOpening, s)
           m == Len(EOpening)
           n == Len(s)
<1>a. /\ l \in Texts /\ n \in Nat /\ Len(l) = m + n + 1
      /\ \A i \in 1 .. m : l[i] = EOpening[i]
      /\ l[Len(l)] = Quote
  BY Openings, FrameHolds
<1>b. SubSeq(l, m + 1, Len(l) - 1) = s
  BY Openings, FrameHolds
<1>c. m = 2
  BY Openings
<1> HIDE DEF l, m, n
<1>1. l \in Texts /\ l[Len(l)] = Quote
  BY <1>a
<1>2. Len(l) = n + 3 /\ Len(l) > 2 /\ Len(l) > 1 /\ 2 \in 1 .. Len(l)
  BY ONLY <1>a, <1>c
<1>3. l[1] = "E" /\ l[2] = Quote
  <2>1. 1 \in 1 .. m /\ 2 \in 1 .. m
    BY <1>c
  <2> QED
    BY <1>a, <2>1, Openings
<1>4. SubSeq(l, 3, Len(l) - 1) = s
  <2>1. m + 1 = 3
    BY <1>c
  <2> QED
    BY ONLY <1>b, <2>1
<1>5. IsEscaped(l)
  BY <1>2, <1>3 DEF IsEscaped
<1>6. Body(l) = s
  BY <1>4, <1>5 DEF Body
<1>7. ~IsNumber(l)
  BY <1>1, <1>2, <1>3, QuotedIsNoNumber
<1>8. Unescape(Body(l), IsEscaped(l)) = Reader(t, "", TRUE)
  BY <1>5, <1>6 DEF EscapedReads
<1> DEFINE r == Unescape(Body(l), IsEscaped(l))
<1>r. r.ok /\ r.held = "" /\ r.text = t
  <2>1. r = [text |-> t, held |-> "", ok |-> TRUE]
    BY <1>8, Zenon DEF Reader
  <2> HIDE DEF r
  <2> QED
    BY ONLY <2>1
<1>q. Quote \in {l[1], l[2]}
  BY <1>3
<1>9. IsLiteral(l)
  BY ONLY <1>1, <1>2, <1>q, <1>r DEF IsLiteral
<1>10. TextOf(l) = t
  BY ONLY <1>7, <1>r DEF TextOf
<1> QED
  BY <1>1, <1>9, <1>10 DEF l

(* What quote_literal_local writes, in these words.                        *)
LEMMA LiteralFramed ==
  ASSUME NEW text \in Texts, NEW type
  PROVE  quote_literal_local(text, type) =
           IF type \in Raw THEN text
           ELSE IF type \in Dated THEN Framed(Opening, text)
           ELSE IF Backslash \in ToSet(text) THEN Framed(EOpening, Doubled(text))
           ELSE Framed(Opening, Doubled(text))
<1>1. Raw \cap Dated = {}
  BY DEF Raw, Dated
<1>2. <<>> \o <<Quote>> = <<Quote>>
  OBVIOUS
<1>3. quote_literal_internal(text) =
        IF Backslash \in ToSet(text) THEN Framed(EOpening, Doubled(text))
        ELSE Framed(Opening, Doubled(text))
  BY ONLY <1>2 DEF quote_literal_internal, Framed, Opening, EOpening
<1>4. Framed(Opening, text) = <<Quote>> \o text \o <<Quote>>
  BY DEF Framed, Opening
<1> QED
  BY ONLY <1>1, <1>3, <1>4 DEF quote_literal_local

(* What quote_literal_local writes for a text, if it is a literal at all,  *)
(* is read as that text; and it is one unless it is a text that is no      *)
(* number where a number should be.                                        *)
LEMMA LiteralIsRead ==
  ASSUME NEW text \in Texts, NEW type,
         type \in Raw \union Dated => Quote \notin ToSet(text)
  PROVE  /\ quote_literal_local(text, type) \in Texts
         /\ IsLiteral(quote_literal_local(text, type)) =>
              TextOf(quote_literal_local(text, type)) = text
         /\ type \notin Raw \/ IsNumber(text) => IsLiteral(quote_literal_local(text, type))
         /\ type \in Raw => quote_literal_local(text, type) = text
<1> DEFINE l == quote_literal_local(text, type)
           b == Backslash \in ToSet(text)
<1>1. l = IF type \in Raw THEN text
          ELSE IF type \in Dated THEN Framed(Opening, text)
          ELSE IF b THEN Framed(EOpening, Doubled(text))
          ELSE Framed(Opening, Doubled(text))
  BY LiteralFramed
<1> HIDE DEF l
<1> SUFFICES /\ l \in Texts
             /\ IsLiteral(l) => TextOf(l) = text
             /\ type \notin Raw \/ IsNumber(text) => IsLiteral(l)
             /\ type \in Raw => l = text
  BY DEF l
<1>2. CASE type \in Raw
  <2>1. l = text /\ Quote \notin ToSet(l)
    BY <1>1, <1>2
  <2> QED
    BY <1>2, <2>1, UnquotedIsNumber DEF IsLiteral, TextOf
<1>3. CASE type \notin Raw
  <2>1. l \in Texts /\ IsLiteral(l) /\ TextOf(l) = text
    <3>1. CASE type \in Dated
      <4>1. PlainReads(text, text)
        BY <3>1, PlainIsRead DEF PlainReads
      <4> QED
        BY <1>1, <1>3, <3>1, <4>1, StringIsRead
    <3>2. CASE type \notin Dated /\ b
      <4>1. Doubled(text) \in Texts /\ EscapedReads(Doubled(text), text)
        BY DoubledIsRead DEF EscapedReads
      <4> QED
        BY <1>1, <1>3, <3>2, <4>1, EscapedIsRead
    <3>3. CASE type \notin Dated /\ ~b
      <4>1. Doubled(text) \in Texts /\ PlainReads(Doubled(text), text)
        BY <3>3, DoubledIsRead DEF PlainReads
      <4> QED
        BY <1>1, <1>3, <3>3, <4>1, StringIsRead
    <3> QED
      BY <3>1, <3>2, <3>3
  <2> QED
    BY <1>3, <2>1
<1> QED
  BY <1>2, <1>3

-----------------------------------------------------------------------------
USE MaxAttAssumption, NullsAssumption, RelationsAssumption

(* Part 2: the message.  A sequence, of whatever its items are.            *)
IsSeq(s) == s \in Seq(Range(s))

(* A sequence over any set is one.                                         *)
LEMMA SeqIsSeq ==
  ASSUME NEW S, NEW s \in Seq(S)
  PROVE  IsSeq(s)
<1>1. Len(s) \in Nat /\ s \in [1 .. Len(s) -> S] /\ DOMAIN s = 1 .. Len(s)
  BY LenProperties
<1>2. s \in [1 .. Len(s) -> Range(s)]
  BY <1>1 DEF Range
<1> QED
  BY <1>1, <1>2 DEF IsSeq

(* So is a function on 1 .. n, of length n,                                *)
LEMMA RowsAreSeq ==
  ASSUME NEW n \in Nat, NEW f, f = [i \in 1 .. n |-> f[i]]
  PROVE  IsSeq(f) /\ Len(f) = n
<1>1. f \in [1 .. n -> Range(f)]
  BY DEF Range
<1> QED
  BY <1>1 DEF IsSeq

(* and a single item.                                                      *)
LEMMA OneIsSeq ==
  ASSUME NEW e
  PROVE  IsSeq(<<e>>) /\ Len(<<e>>) = 1 /\ <<e>>[1] = e
<1>1. e \in {e}
  OBVIOUS
<1> QED
  BY <1>1, OneElement, SeqIsSeq

(* What two sequences behind each other hold, and where.                   *)
LEMMA Glue ==
  ASSUME NEW a, NEW b, IsSeq(a), IsSeq(b)
  PROVE  /\ IsSeq(a \o b) /\ Len(a) \in Nat /\ Len(b) \in Nat
         /\ Len(a \o b) = Len(a) + Len(b)
         /\ \A i \in 1 .. Len(a) : (a \o b)[i] = a[i]
         /\ \A i \in 1 .. Len(b) : (a \o b)[Len(a) + i] = b[i]
<1> DEFINE S == Range(a) \union Range(b)
<1>1. a \in Seq(S) /\ b \in Seq(S)
  <2>1. a \in [1 .. Len(a) -> Range(a)] /\ Len(a) \in Nat
    BY LenProperties DEF IsSeq
  <2>2. b \in [1 .. Len(b) -> Range(b)] /\ Len(b) \in Nat
    BY LenProperties DEF IsSeq
  <2>3. a \in [1 .. Len(a) -> S] /\ b \in [1 .. Len(b) -> S]
    BY <2>1, <2>2
  <2> QED
    BY SMTT(60), <2>1, <2>2, <2>3
<1>2. Len(a) \in Nat /\ Len(b) \in Nat
  BY <1>1, LenProperties
<1> HIDE DEF S
<1>3. /\ a \o b \in Seq(S) /\ Len(a \o b) = Len(a) + Len(b)
      /\ \A i \in 1 .. Len(a) : (a \o b)[i] = a[i]
      /\ \A i \in 1 .. Len(b) : (a \o b)[Len(a) + i] = b[i]
  BY <1>1, ConcatRows
<1>4. IsSeq(a \o b)
  BY <1>3, SeqIsSeq
<1> QED
  BY <1>2, <1>3, <1>4

(* Where what the plugin writes of a relation stands.                      *)
LEMMA ColumnsWritten ==
  ASSUME NEW r \in Relations
  PROVE  /\ IsSeq(WriteColumns(r)) /\ Len(WriteColumns(r)) = r.natt + 1
         /\ WriteColumns(r)[1] = <<"C", r.natt>>
         /\ \A i \in 1 .. r.natt :
              WriteColumns(r)[i + 1] = IF i \in r.dropped THEN <<"col", NullPtr, NullPtr>>
                                       ELSE <<"col", QuotedName(r, i), r.type[i]>>
<1> DEFINE c == <<"C", r.natt>>
           v == [i \in 1 .. r.natt |->
                   IF i \in r.dropped THEN <<"col", NullPtr, NullPtr>>
                   ELSE <<"col", QuotedName(r, i), r.type[i]>>]
<1>1. r.natt \in Nat
  OBVIOUS
<1>2. IsSeq(v) /\ Len(v) = r.natt
  BY <1>1, RowsAreSeq
<1>3. IsSeq(<<c>>) /\ Len(<<c>>) = 1 /\ <<c>>[1] = c
  BY OneIsSeq
<1>4. \A i \in 1 .. r.natt : v[i] = IF i \in r.dropped THEN <<"col", NullPtr, NullPtr>>
                                   ELSE <<"col", QuotedName(r, i), r.type[i]>>
  OBVIOUS
<1>5. WriteColumns(r) = <<c>> \o v
  BY DEF WriteColumns
<1> HIDE DEF c, v
<1>6. /\ IsSeq(<<c>> \o v) /\ Len(<<c>> \o v) = 1 + r.natt
      /\ (<<c>> \o v)[1] = c
      /\ \A i \in 1 .. r.natt : (<<c>> \o v)[1 + i] = v[i]
  BY <1>2, <1>3, Glue
<1>7. 1 + r.natt = r.natt + 1 /\ \A i \in 1 .. r.natt : 1 + i = i + 1
  BY <1>1
<1> QED
  BY <1>4, <1>5, <1>6, <1>7 DEF c

(* Where what it writes of a row stands,                                   *)
LEMMA TupleWritten ==
  ASSUME NEW r \in Relations, NEW row
  PROVE  /\ IsSeq(WriteTuple(r, row)) /\ Len(WriteTuple(r, row)) = r.natt + 1
         /\ WriteTuple(r, row)[1] = <<"T", r.natt>>
         /\ \A i \in 1 .. r.natt :
              WriteTuple(r, row)[i + 1] =
                IF i \in r.dropped \/ row[i] = Null THEN <<"n", Null>>
                ELSE IF row[i] = External THEN <<"u", Null>> ELSE <<"t", row[i]>>
<1> DEFINE c == <<"T", r.natt>>
           v == [i \in 1 .. r.natt |->
                   IF i \in r.dropped \/ row[i] = Null THEN <<"n", Null>>
                   ELSE IF row[i] = External THEN <<"u", Null>> ELSE <<"t", row[i]>>]
<1>1. r.natt \in Nat
  OBVIOUS
<1>2. IsSeq(v) /\ Len(v) = r.natt
  BY <1>1, RowsAreSeq
<1>3. IsSeq(<<c>>) /\ Len(<<c>>) = 1 /\ <<c>>[1] = c
  BY OneIsSeq
<1>4. \A i \in 1 .. r.natt :
        v[i] = IF i \in r.dropped \/ row[i] = Null THEN <<"n", Null>>
               ELSE IF row[i] = External THEN <<"u", Null>> ELSE <<"t", row[i]>>
  OBVIOUS
<1>5. WriteTuple(r, row) = <<c>> \o v
  BY DEF WriteTuple
<1> HIDE DEF c, v
<1>6. /\ IsSeq(<<c>> \o v) /\ Len(<<c>> \o v) = 1 + r.natt
      /\ (<<c>> \o v)[1] = c
      /\ \A i \in 1 .. r.natt : (<<c>> \o v)[1 + i] = v[i]
  BY <1>2, <1>3, Glue
<1>7. 1 + r.natt = r.natt + 1 /\ \A i \in 1 .. r.natt : 1 + i = i + 1
  BY <1>1
<1> QED
  BY <1>4, <1>5, <1>6, <1>7 DEF c

(* How many names of a key are written.                                    *)
HasKey(r, action) == action \in {"U", "D"} /\ r.key # <<>>
KeyLen(r, action) == IF HasKey(r, action) THEN Len(r.key) ELSE 0

(* and what it writes of the key.                                          *)
LEMMA KeyWritten ==
  ASSUME NEW r \in Relations, NEW action
  PROVE  /\ IsSeq(WriteKey(r, action)) /\ KeyLen(r, action) \in 0 .. MaxAtt
         /\ Len(WriteKey(r, action)) = KeyLen(r, action) + 1
         /\ WriteKey(r, action)[1] = IF HasKey(r, action) THEN <<"M", Len(r.key)>> ELSE <<"P", 0>>
         /\ \A j \in 1 .. KeyLen(r, action) :
              WriteKey(r, action)[j + 1] = <<"key", RawName(r.key[j])>>
<1> DEFINE n == Len(r.key)
           c == <<"M", n>>
           p == <<"P", 0>>
           v == [j \in DOMAIN r.key |-> <<"key", RawName(r.key[j])>>]
<1>1. n \in Nat /\ n <= MaxAtt /\ DOMAIN r.key = 1 .. n
  BY LenProperties
<1>2. IsSeq(v) /\ Len(v) = n /\ \A j \in 1 .. n : v[j] = <<"key", RawName(r.key[j])>>
  BY <1>1, RowsAreSeq
<1>3. IsSeq(<<c>>) /\ Len(<<c>>) = 1 /\ <<c>>[1] = c
  BY OneIsSeq
<1>4. IsSeq(<<p>>) /\ Len(<<p>>) = 1 /\ <<p>>[1] = p
  BY OneIsSeq
<1>5. WriteKey(r, action) = IF HasKey(r, action) THEN <<c>> \o v ELSE <<p>>
  BY DEF WriteKey, HasKey
<1>6. KeyLen(r, action) = IF HasKey(r, action) THEN n ELSE 0
  BY DEF KeyLen
<1> HIDE DEF n, v, c, p
<1>7. /\ IsSeq(<<c>> \o v) /\ Len(<<c>> \o v) = 1 + n
      /\ (<<c>> \o v)[1] = c
      /\ \A j \in 1 .. n : (<<c>> \o v)[1 + j] = v[j]
  BY <1>2, <1>3, Glue
<1>8. 1 + n = n + 1 /\ \A j \in 1 .. n : 1 + j = j + 1
  BY <1>1
<1>9. CASE HasKey(r, action)
  <2>1. /\ IsSeq(WriteKey(r, action)) /\ KeyLen(r, action) \in 0 .. MaxAtt
        /\ Len(WriteKey(r, action)) = KeyLen(r, action) + 1
    BY <1>1, <1>5, <1>6, <1>7, <1>8, <1>9
  <2> QED
    BY <1>2, <1>5, <1>6, <1>7, <1>8, <1>9, <2>1 DEF c, n
<1>10. CASE ~HasKey(r, action)
  BY <1>4, <1>5, <1>6, <1>10 DEF p
<1> QED
  BY <1>9, <1>10

(* The message of a change up to its tuples: the action, the table, the    *)
(* columns and the key.                                                    *)
HeadItems(r, action) == <<<<action, 0>>>> \o WriteRel(r, action)
HeadLen(r, action) == r.natt + KeyLen(r, action) + 4

(* Where all of that stands in a message.                                  *)
LEMMA HeadWritten ==
  ASSUME NEW r \in Relations, NEW action
  PROVE  /\ IsSeq(HeadItems(r, action)) /\ Len(HeadItems(r, action)) = HeadLen(r, action)
         /\ HeadItems(r, action)[1] = <<action, 0>>
         /\ HeadItems(r, action)[2] = <<"rel", [mixed |-> r.mixed]>>
         /\ \A i \in 1 .. r.natt + 1 : HeadItems(r, action)[i + 2] = WriteColumns(r)[i]
         /\ \A j \in 1 .. KeyLen(r, action) + 1 :
              HeadItems(r, action)[j + r.natt + 3] = WriteKey(r, action)[j]
<1> DEFINE n == r.natt
           k == KeyLen(r, action)
           a == <<<<action, 0>>>>
           t == <<<<"rel", [mixed |-> r.mixed]>>>>
           c == WriteColumns(r)
           y == WriteKey(r, action)
           tc == t \o c
           tcy == tc \o y
           h == a \o tcy
<1>1. /\ n \in Nat /\ k \in Nat /\ HeadLen(r, action) = n + k + 4
      /\ IsSeq(c) /\ Len(c) = n + 1 /\ IsSeq(y) /\ Len(y) = k + 1
  <2>1. IsSeq(c) /\ Len(c) = n + 1
    BY ColumnsWritten
  <2>2. k \in 0 .. MaxAtt /\ IsSeq(y) /\ Len(y) = k + 1
    BY KeyWritten
  <2> QED
    BY <2>1, <2>2 DEF HeadLen
<1>2. IsSeq(a) /\ Len(a) = 1 /\ a[1] = <<action, 0>>
  BY OneIsSeq
<1>3. IsSeq(t) /\ Len(t) = 1 /\ t[1] = <<"rel", [mixed |-> r.mixed]>>
  BY OneIsSeq
<1>4. HeadItems(r, action) = h
  BY DEF HeadItems, WriteRel
<1> HIDE DEF n, k, a, t, c, y, tc, tcy, h
<1>5. /\ IsSeq(tc) /\ Len(tc) = n + 2 /\ tc[1] = t[1]
      /\ \A i \in 1 .. n + 1 : tc[1 + i] = c[i]
  <2>1. /\ IsSeq(tc) /\ Len(tc) = 1 + (n + 1)
        /\ \A i \in 1 .. 1 : tc[i] = t[i]
        /\ \A i \in 1 .. n + 1 : tc[1 + i] = c[i]
    <3>1. IsSeq(t) /\ IsSeq(c)
      BY <1>1, <1>3
    <3>2. /\ IsSeq(tc) /\ Len(tc) = Len(t) + Len(c)
          /\ \A i \in 1 .. Len(t) : tc[i] = t[i]
          /\ \A i \in 1 .. Len(c) : tc[Len(t) + i] = c[i]
      BY <3>1, Glue DEF tc
    <3> QED
      BY <3>2, <1>1, <1>3
  <2> QED
    BY <1>1, <2>1
<1>6. /\ IsSeq(tcy) /\ Len(tcy) = n + k + 3
      /\ \A i \in 1 .. n + 2 : tcy[i] = tc[i]
      /\ \A j \in 1 .. k + 1 : tcy[n + 2 + j] = y[j]
  <2>1. /\ IsSeq(tcy) /\ Len(tcy) = (n + 2) + (k + 1)
        /\ \A i \in 1 .. n + 2 : tcy[i] = tc[i]
        /\ \A j \in 1 .. k + 1 : tcy[n + 2 + j] = y[j]
    <3>1. IsSeq(tc) /\ IsSeq(y)
      BY <1>1, <1>5
    <3>2. /\ IsSeq(tcy) /\ Len(tcy) = Len(tc) + Len(y)
          /\ \A i \in 1 .. Len(tc) : tcy[i] = tc[i]
          /\ \A i \in 1 .. Len(y) : tcy[Len(tc) + i] = y[i]
      BY <3>1, Glue DEF tcy
    <3> QED
      BY <3>2, <1>1, <1>5
  <2> QED
    BY <1>1, <2>1
<1>7. /\ IsSeq(h) /\ Len(h) = n + k + 4 /\ h[1] = a[1]
      /\ \A i \in 1 .. n + k + 3 : h[1 + i] = tcy[i]
  <2>1. /\ IsSeq(h) /\ Len(h) = 1 + (n + k + 3)
        /\ \A i \in 1 .. 1 : h[i] = a[i]
        /\ \A i \in 1 .. n + k + 3 : h[1 + i] = tcy[i]
    <3>1. IsSeq(a) /\ IsSeq(tcy)
      BY <1>1, <1>2, <1>6
    <3>2. /\ IsSeq(h) /\ Len(h) = Len(a) + Len(tcy)
          /\ \A i \in 1 .. Len(a) : h[i] = a[i]
          /\ \A i \in 1 .. Len(tcy) : h[Len(a) + i] = tcy[i]
      BY <3>1, Glue DEF h
    <3> QED
      BY <3>2, <1>1, <1>2, <1>6
  <2> QED
    BY <1>1, <2>1
<1>8. h[2] = t[1]
  <2>1. 1 \in 1 .. n + k + 3 /\ 1 \in 1 .. n + 2 /\ 2 = 1 + 1
    BY <1>1
  <2> QED
    BY <1>5, <1>6, <1>7, <2>1
<1>9. ASSUME NEW i \in 1 .. n + 1 PROVE h[i + 2] = c[i]
  <2>1. 1 + i \in 1 .. n + k + 3 /\ 1 + i \in 1 .. n + 2 /\ i + 2 = 1 + (1 + i)
    BY <1>1
  <2> QED
    BY <1>5, <1>6, <1>7, <2>1
<1>10. ASSUME NEW j \in 1 .. k + 1 PROVE h[j + n + 3] = y[j]
  <2>1. n + 2 + j \in 1 .. n + k + 3 /\ j + n + 3 = 1 + (n + 2 + j)
    BY SMTT(60), <1>1
  <2> QED
    BY <1>6, <1>7, <2>1
<1> QED
  BY <1>1, <1>2, <1>3, <1>4, <1>7, <1>8, <1>9, <1>10 DEF n, k, c, y

(* A message m begins with that.                                           *)
Begins(m, r, action) ==
  \A i \in 1 .. HeadLen(r, action) : m[i] = HeadItems(r, action)[i]

(* What the client makes of it.                                            *)
Described(r, action) ==
  [type |-> action, lsn |-> 0, tm |-> 0, xid |-> 0, end_lsn |-> 0,
   relname |-> [mixed |-> r.mixed], natt |-> r.natt,
   attname |-> [i \in 1 .. MaxAtt |-> IF i \in Live(r) THEN QuotedName(r, i) ELSE NullPtr],
   atttype |-> [i \in 1 .. MaxAtt |-> IF i \in Live(r) THEN r.type[i] ELSE NullPtr],
   k_natt |-> KeyLen(r, action),
   k_attname |-> [j \in 1 .. MaxAtt |->
                    IF j \in 1 .. KeyLen(r, action) THEN RawName(r.key[j]) ELSE NullPtr],
   has_key_or_old |-> FALSE, newtuple |-> ZeroTuple, oldtuple |-> ZeroTuple]

(* process_read_colunm_info reads the head as it was written, and stops    *)
(* behind it.                                                              *)
LEMMA HeadRead ==
  ASSUME NEW r \in Relations, NEW action, NEW m, Begins(m, r, action)
  PROVE  ReadColumns(m, 3, [ZeroMessage EXCEPT !.type = Tag(m, 1), !.relname = Arg(m, 2)]) =
           [msg |-> Described(r, action), next |-> HeadLen(r, action) + 1]
<1> DEFINE n == r.natt
           k == KeyLen(r, action)
           msg0 == [ZeroMessage EXCEPT !.type = Tag(m, 1), !.relname = Arg(m, 2)]
<1>1. /\ n \in 1 .. MaxAtt /\ k \in 0 .. MaxAtt /\ HeadLen(r, action) = n + k + 4
  BY KeyWritten DEF HeadLen
<1>0. /\ HeadItems(r, action)[1] = <<action, 0>>
      /\ HeadItems(r, action)[2] = <<"rel", [mixed |-> r.mixed]>>
      /\ \A i \in 1 .. n + 1 : HeadItems(r, action)[i + 2] = WriteColumns(r)[i]
      /\ \A j \in 1 .. k + 1 : HeadItems(r, action)[j + n + 3] = WriteKey(r, action)[j]
  BY HeadWritten
<1> HIDE DEF k
<1>2. m[1] = <<action, 0>> /\ m[2] = <<"rel", [mixed |-> r.mixed]>>
  <2>1. 1 \in 1 .. n + k + 4 /\ 2 \in 1 .. n + k + 4
    BY <1>1
  <2>2. m[1] = HeadItems(r, action)[1] /\ m[2] = HeadItems(r, action)[2]
    BY <1>1, <2>1 DEF Begins
  <2> QED
    BY <1>0, <2>2
<1>3. m[3] = <<"C", n>>
      /\ \A i \in 1 .. n : m[3 + i] = IF i \in r.dropped THEN <<"col", NullPtr, NullPtr>>
                                      ELSE <<"col", QuotedName(r, i), r.type[i]>>
  <2>1. ASSUME NEW i \in 1 .. n + 1 PROVE m[i + 2] = WriteColumns(r)[i]
    <3>1. i + 2 \in 1 .. n + k + 4
      BY <1>1
    <3>2. m[i + 2] = HeadItems(r, action)[i + 2]
      BY <1>1, <3>1 DEF Begins
    <3> QED
      BY <1>0, <3>2
  <2>2. m[3] = WriteColumns(r)[1]
    <3>1. 1 \in 1 .. n + 1 /\ 1 + 2 = 3
      BY <1>1
    <3> QED
      BY <2>1, <3>1
  <2>3. ASSUME NEW i \in 1 .. n PROVE m[3 + i] = WriteColumns(r)[i + 1]
    <3>1. i + 1 \in 1 .. n + 1 /\ (i + 1) + 2 = 3 + i
      BY <1>1
    <3> QED
      BY <2>1, <3>1
  <2> QED
    BY <2>2, <2>3, ColumnsWritten
<1>4. /\ m[3 + n + 1] = IF HasKey(r, action) THEN <<"M", Len(r.key)>> ELSE <<"P", 0>>
      /\ \A j \in 1 .. k : m[3 + n + 1 + j] = <<"key", RawName(r.key[j])>>
  <2>1. ASSUME NEW j \in 1 .. k + 1 PROVE m[j + n + 3] = WriteKey(r, action)[j]
    <3>1. j + n + 3 \in 1 .. n + k + 4
      BY <1>1
    <3>2. m[j + n + 3] = HeadItems(r, action)[j + n + 3]
      BY <1>1, <3>1 DEF Begins
    <3> QED
      BY <1>0, <3>2
  <2>2. m[3 + n + 1] = WriteKey(r, action)[1]
    <3>1. 1 \in 1 .. k + 1 /\ 1 + n + 3 = 3 + n + 1
      BY <1>1
    <3> QED
      BY <2>1, <3>1
  <2>3. ASSUME NEW j \in 1 .. k PROVE m[3 + n + 1 + j] = WriteKey(r, action)[j + 1]
    <3>1. j + 1 \in 1 .. k + 1
      BY <1>1
    <3>2. m[(j + 1) + n + 3] = WriteKey(r, action)[j + 1]
      BY <2>1, <3>1
    <3>3. (j + 1) + n + 3 = 3 + n + 1 + j
      <4>1. n \in Int /\ j \in Int
        BY <1>1
      <4> HIDE DEF n
      <4> QED
        BY ONLY <4>1
    <3> QED
      BY <3>2, <3>3
  <2> QED
    BY ZenonT(60), <2>2, <2>3, KeyWritten DEF k
<1>5. Tag(m, 1) = action /\ Arg(m, 2) = [mixed |-> r.mixed] /\ Arg(m, 3) = n
  BY <1>2, <1>3 DEF Tag, Arg
<1>6. \A i \in 1 .. n : /\ Arg(m, 3 + i) # NullPtr <=> i \in Live(r)
                        /\ i \in Live(r) => /\ Arg(m, 3 + i) = QuotedName(r, i)
                                            /\ m[3 + i][3] = r.type[i]
  <2> SUFFICES ASSUME NEW i \in 1 .. n
               PROVE  /\ Arg(m, 3 + i) # NullPtr <=> i \in Live(r)
                      /\ i \in Live(r) => /\ Arg(m, 3 + i) = QuotedName(r, i)
                                          /\ m[3 + i][3] = r.type[i]
    OBVIOUS
  <2>1. QuotedName(r, i) # NullPtr
    <3>1. i \in 1 .. MaxAtt
      BY <1>1
    <3>2. CASE i \in r.quoted
      <4>1. QuotedName(r, i) = [att |-> i, quoted |-> TRUE]
        BY <3>2 DEF QuotedName
      <4> QED
        BY <3>1, <4>1
    <3>3. CASE i \notin r.quoted
      <4>1. (i \in r.quoted) = FALSE
        BY SMT, <3>3
      <4>2. QuotedName(r, i) = [att |-> i, quoted |-> FALSE]
        BY Zenon, <4>1 DEF QuotedName
      <4> QED
        BY <3>1, <4>2
    <3> QED
      BY <3>2, <3>3
  <2>2. i \in Live(r) <=> i \notin r.dropped
    BY DEF Live
  <2>3. CASE i \in r.dropped
    <3>1. m[3 + i] = <<"col", NullPtr, NullPtr>>
      BY <1>3, <2>3
    <3> QED
      BY <2>2, <2>3, <3>1 DEF Arg
  <2>4. CASE i \notin r.dropped
    <3>1. m[3 + i] = <<"col", QuotedName(r, i), r.type[i]>>
      BY <1>3, <2>4
    <3> QED
      BY <2>1, <2>2, <2>4, <3>1 DEF Arg
  <2> QED
    BY <2>3, <2>4
<1> DEFINE named == [msg0 EXCEPT !.natt = n,
                  !.attname = [i \in DOMAIN @ |->
                     IF i \in 1 .. n /\ Arg(m, 3 + i) # NullPtr THEN Arg(m, 3 + i) ELSE @[i]],
                  !.atttype = [i \in DOMAIN @ |->
                     IF i \in 1 .. n /\ Arg(m, 3 + i) # NullPtr THEN m[3 + i][3] ELSE @[i]]]
           names == [i \in 1 .. MaxAtt |-> IF i \in Live(r) THEN QuotedName(r, i) ELSE NullPtr]
           types == [i \in 1 .. MaxAtt |-> IF i \in Live(r) THEN r.type[i] ELSE NullPtr]
           none == [i \in 1 .. MaxAtt |-> NullPtr]
<1>7. named = [ZeroMessage EXCEPT !.type = action, !.relname = [mixed |-> r.mixed],
                  !.natt = n, !.attname = names, !.atttype = types]
  <2>1. ASSUME NEW i \in 1 .. MaxAtt
        PROVE  (i \in 1 .. n /\ Arg(m, 3 + i) # NullPtr) <=> i \in Live(r)
    BY <1>6 DEF Live
  <2>2. [i \in 1 .. MaxAtt |->
           IF i \in 1 .. n /\ Arg(m, 3 + i) # NullPtr THEN Arg(m, 3 + i) ELSE none[i]] = names
    BY <1>6, <2>1
  <2>3. [i \in 1 .. MaxAtt |->
           IF i \in 1 .. n /\ Arg(m, 3 + i) # NullPtr THEN m[3 + i][3] ELSE none[i]] = types
    BY <1>6, <2>1
  <2>4. msg0 = [ZeroMessage EXCEPT !.type = action, !.relname = [mixed |-> r.mixed]]
    BY <1>5
  <2>5. msg0.attname = none /\ msg0.atttype = none /\ DOMAIN none = 1 .. MaxAtt
    BY DEF ZeroMessage
  <2> HIDE DEF names, types, none, msg0
  <2>6. named = [msg0 EXCEPT !.natt = n, !.attname = names, !.atttype = types]
    BY <2>2, <2>3, <2>5
  <2> QED
    BY <2>4, <2>6 DEF ZeroMessage
<1> DEFINE keys == [j \in 1 .. MaxAtt |-> IF j \in 1 .. k THEN RawName(r.key[j]) ELSE NullPtr]
           cols == ReadColumns(m, 3, msg0)
<1> HIDE DEF n, named, none, keys, msg0, names, types
<1>8. CASE HasKey(r, action)
  <2>1. k = Len(r.key) /\ Tag(m, 3 + n + 1) = "M" /\ Arg(m, 3 + n + 1) = k
    BY <1>4, <1>8 DEF k, KeyLen, Tag, Arg
  <2>2. cols = [msg |-> [named EXCEPT !.k_natt = k,
                       !.k_attname = [j \in DOMAIN @ |->
                          IF j \in 1 .. k THEN Arg(m, 3 + n + 1 + j) ELSE @[j]]],
                next |-> 3 + n + k + 2]
    BY ZenonT(60), <1>5, <2>1 DEF ReadColumns, named, cols
  <2>3. [j \in 1 .. MaxAtt |-> IF j \in 1 .. k THEN Arg(m, 3 + n + 1 + j) ELSE none[j]] = keys
    BY <1>4 DEF Arg, keys, none
  <2>4. named.k_attname = none /\ DOMAIN none = 1 .. MaxAtt
    BY <1>7 DEF ZeroMessage, none
  <2>5. [named EXCEPT !.k_natt = k, !.k_attname = [j \in DOMAIN @ |->
           IF j \in 1 .. k THEN Arg(m, 3 + n + 1 + j) ELSE @[j]]] =
        [named EXCEPT !.k_natt = k, !.k_attname = keys]
    BY <2>3, <2>4
  <2>6. [named EXCEPT !.k_natt = k, !.k_attname = keys] = Described(r, action)
    <3>1. Described(r, action) =
            [type |-> action, lsn |-> 0, tm |-> 0, xid |-> 0, end_lsn |-> 0,
             relname |-> [mixed |-> r.mixed], natt |-> n, attname |-> names, atttype |-> types,
             k_natt |-> k, k_attname |-> keys,
             has_key_or_old |-> FALSE, newtuple |-> ZeroTuple, oldtuple |-> ZeroTuple]
      BY Zenon DEF Described, names, types, keys, n, k
    <3>2. named = [type |-> action, lsn |-> 0, tm |-> 0, xid |-> 0, end_lsn |-> 0,
             relname |-> [mixed |-> r.mixed], natt |-> n, attname |-> names, atttype |-> types,
             k_natt |-> 0, k_attname |-> none,
             has_key_or_old |-> FALSE, newtuple |-> ZeroTuple, oldtuple |-> ZeroTuple]
      BY <1>7 DEF ZeroMessage, none
    <3>3. ASSUME NEW x, x = [named EXCEPT !.k_natt = k, !.k_attname = keys]
          PROVE  x = [type |-> action, lsn |-> 0, tm |-> 0, xid |-> 0, end_lsn |-> 0,
             relname |-> [mixed |-> r.mixed], natt |-> n, attname |-> names, atttype |-> types,
             k_natt |-> k, k_attname |-> keys,
             has_key_or_old |-> FALSE, newtuple |-> ZeroTuple, oldtuple |-> ZeroTuple]
      BY ONLY <3>2, <3>3
    <3> QED
      BY Zenon, <3>1, <3>3
  <2>7. 3 + n + k + 2 = n + k + 4 + 1
    BY <1>1
  <2>8. cols = [msg |-> Described(r, action), next |-> HeadLen(r, action) + 1]
    BY <1>1, <2>2, <2>5, <2>6, <2>7
  <2> QED
    BY <2>8 DEF cols, msg0
<1>9. CASE ~HasKey(r, action)
  <2>1. k = 0 /\ Tag(m, 3 + n + 1) = "P"
    BY <1>4, <1>9 DEF k, KeyLen, Tag
  <2>2. cols = [msg |-> named, next |-> 3 + n + 2]
    BY <1>5, <2>1 DEF ReadColumns, named, cols
  <2>3. keys = none
    BY <2>1 DEF keys, none
  <2>4. named = Described(r, action)
    BY ZenonT(60), <1>7, <2>1, <2>3 DEF Described, ZeroMessage, names, types, keys, none, n, k
  <2>5. 3 + n + 2 = n + k + 4 + 1
    BY <1>1, <2>1
  <2>6. cols = [msg |-> Described(r, action), next |-> HeadLen(r, action) + 1]
    BY <1>1, <2>2, <2>4, <2>5
  <2> QED
    BY <2>6 DEF cols, msg0
<1> QED
  BY <1>8, <1>9

-----------------------------------------------------------------------------
(* Part 3: the client.  A tuple that was read says what the row was.       *)
SaysRow(tup, r, row) ==
  /\ tup.natt = r.natt
  /\ \A i \in Live(r) :
       /\ IsNull(tup, i) <=> row[i] = Null
       /\ IsUnchangedToast(tup, i) <=> row[i] = External
       /\ tup.svalues[i] = IF tup.isnull[i] THEN NullPtr ELSE row[i]

(* The tuple of a row stands at position p of a message.                   *)
TupleAt(m, p, r, row) ==
  \A i \in 1 .. r.natt + 1 : m[p + i] = WriteTuple(r, row)[i]

(* read_tuple_parts reads a row as it was written, and stops behind it.    *)
LEMMA TupleRead ==
  ASSUME NEW r \in Relations, NEW row, NEW m, NEW p \in Nat, NEW tup, TupleAt(m, p, r, row)
  PROVE  SaysRow(ReadTuple(m, p + 1, tup), r, row) /\ TupleEnd(m, p + 1) = p + r.natt + 2
<1> DEFINE n == r.natt
           t == ReadTuple(m, p + 1, tup)
<1>1. n \in 1 .. MaxAtt /\ n \in Nat
  OBVIOUS
<1>2. m[p + 1] = <<"T", n>>
  <2>1. 1 \in 1 .. n + 1
    BY <1>1
  <2> QED
    BY <2>1, TupleWritten DEF TupleAt
<1>3. ASSUME NEW i \in 1 .. n
      PROVE  m[p + 1 + i] = IF i \in r.dropped \/ row[i] = Null THEN <<"n", Null>>
                            ELSE IF row[i] = External THEN <<"u", Null>> ELSE <<"t", row[i]>>
  <2>1. i + 1 \in 1 .. n + 1 /\ p + (i + 1) = p + 1 + i
    BY <1>1
  <2>2. m[p + (i + 1)] = WriteTuple(r, row)[i + 1]
    BY <2>1 DEF TupleAt
  <2> QED
    BY <2>1, <2>2, TupleWritten
<1>4. Arg(m, p + 1) = n
  BY <1>2 DEF Arg
<1>5. /\ t.natt = n
      /\ \A i \in 1 .. n : /\ t.isnull[i] <=> Tag(m, p + 1 + i) # "t"
                           /\ t.changed[i] <=> Tag(m, p + 1 + i) # "u"
                           /\ t.svalues[i] = IF Tag(m, p + 1 + i) = "t" THEN Arg(m, p + 1 + i)
                                              ELSE NullPtr
  <2> DEFINE nulls == [i \in 1 .. MaxAtt |-> ~(i \in 1 .. n /\ Tag(m, p + 1 + i) = "t")]
             touched == [i \in 1 .. MaxAtt |-> ~(i \in 1 .. n /\ Tag(m, p + 1 + i) = "u")]
             texts == [i \in 1 .. MaxAtt |->
                         IF i \in 1 .. n
                         THEN IF Tag(m, p + 1 + i) = "t" THEN Arg(m, p + 1 + i) ELSE NullPtr
                         ELSE tup.svalues[i]]
  <2>1. t = [natt |-> n, isnull |-> nulls, changed |-> touched, svalues |-> texts]
    BY <1>4, Zenon DEF ReadTuple
  <2>2. ASSUME NEW i \in 1 .. n
        PROVE  /\ nulls[i] <=> Tag(m, p + 1 + i) # "t"
               /\ touched[i] <=> Tag(m, p + 1 + i) # "u"
               /\ texts[i] = IF Tag(m, p + 1 + i) = "t" THEN Arg(m, p + 1 + i) ELSE NullPtr
    <3>1. i \in 1 .. MaxAtt
      BY <1>1
    <3> HIDE DEF n
    <3>2. nulls[i] <=> Tag(m, p + 1 + i) # "t"
      BY <3>1, Zenon
    <3>3. touched[i] <=> Tag(m, p + 1 + i) # "u"
      BY <3>1, Zenon
    <3>4. texts[i] = IF Tag(m, p + 1 + i) = "t" THEN Arg(m, p + 1 + i) ELSE NullPtr
      BY <3>1, Zenon
    <3> QED
      BY <3>2, <3>3, <3>4
  <2> HIDE DEF t, nulls, touched, texts, n
  <2>3. t.natt = n /\ t.isnull = nulls /\ t.changed = touched /\ t.svalues = texts
    BY <2>1
  <2> QED
    BY <2>2, <2>3
<1> HIDE DEF n
<1>6. TupleEnd(m, p + 1) = p + n + 2
  BY <1>1, <1>4 DEF TupleEnd
<1> HIDE DEF t
<1>7. ASSUME NEW i \in Live(r)
      PROVE  /\ IsNull(t, i) <=> row[i] = Null
             /\ IsUnchangedToast(t, i) <=> row[i] = External
             /\ t.svalues[i] = IF t.isnull[i] THEN NullPtr ELSE row[i]
  <2>1. i \in 1 .. n /\ i \notin r.dropped
    BY DEF Live, n
  <2>2. CASE row[i] = Null
    <3>0. m[p + 1 + i] = <<"n", Null>>
      BY <1>3, <2>1, <2>2
    <3>1. Tag(m, p + 1 + i) = "n"
      BY <3>0 DEF Tag
    <3> QED
      BY <1>5, <2>1, <2>2, <3>1 DEF IsNull, IsUnchangedToast
  <2>3. CASE row[i] = External
    <3>0. m[p + 1 + i] = <<"u", Null>>
      BY <1>3, <2>1, <2>3
    <3>1. Tag(m, p + 1 + i) = "u"
      BY <3>0 DEF Tag
    <3> QED
      BY <1>5, <2>1, <2>3, <3>1 DEF IsNull, IsUnchangedToast
  <2>4. CASE row[i] # Null /\ row[i] # External
    <3>0. m[p + 1 + i] = <<"t", row[i]>>
      BY <1>3, <2>1, <2>4
    <3>1. Tag(m, p + 1 + i) = "t" /\ Arg(m, p + 1 + i) = row[i]
      BY <3>0 DEF Tag, Arg
    <3> QED
      BY <1>5, <2>1, <2>4, <3>1 DEF IsNull, IsUnchangedToast
  <2> QED
    BY <2>2, <2>3, <2>4
<1> QED
  BY <1>5, <1>6, <1>7 DEF SaysRow, t, n

(* A message, and what follows its head.                                   *)
Message(r, action, rest) == HeadItems(r, action) \o rest

(* What follows the head stands behind it.                                 *)
LEMMA AfterHead ==
  ASSUME NEW r \in Relations, NEW action, NEW rest, IsSeq(rest)
  PROVE  /\ Begins(Message(r, action, rest), r, action)
         /\ \A i \in 1 .. Len(rest) :
              Message(r, action, rest)[HeadLen(r, action) + i] = rest[i]
<1>1. IsSeq(HeadItems(r, action)) /\ Len(HeadItems(r, action)) = HeadLen(r, action)
  BY HeadWritten
<1> DEFINE h == HeadItems(r, action)
           l == HeadLen(r, action)
<1>2. IsSeq(h) /\ Len(h) = l
  BY <1>1
<1> HIDE DEF h, l
<1>3. /\ \A i \in 1 .. Len(h) : (h \o rest)[i] = h[i]
      /\ \A i \in 1 .. Len(rest) : (h \o rest)[Len(h) + i] = rest[i]
  BY <1>2, Glue
<1> QED
  BY <1>2, <1>3 DEF Begins, Message, h, l

(* A tuple behind something else.                                          *)
WithTuple(a, r, row) == a \o WriteTuple(r, row)

(* Where the items of a tuple stand behind something else.                 *)
LEMMA Appended ==
  ASSUME NEW r \in Relations, NEW a, NEW row, IsSeq(a)
  PROVE  /\ IsSeq(WithTuple(a, r, row)) /\ Len(a) \in Nat
         /\ Len(WithTuple(a, r, row)) = Len(a) + r.natt + 1
         /\ \A i \in 1 .. Len(a) : WithTuple(a, r, row)[i] = a[i]
         /\ TupleAt(WithTuple(a, r, row), Len(a), r, row)
<1> DEFINE w == WriteTuple(r, row)
           n == r.natt
<1>1. IsSeq(w) /\ Len(w) = n + 1 /\ n \in Nat
  BY TupleWritten
<1> HIDE DEF w, n
<1>2. /\ IsSeq(a \o w) /\ Len(a) \in Nat /\ Len(a \o w) = Len(a) + Len(w)
      /\ \A i \in 1 .. Len(a) : (a \o w)[i] = a[i]
      /\ \A i \in 1 .. Len(w) : (a \o w)[Len(a) + i] = w[i]
  BY <1>1, Glue
<1>3. Len(a \o w) = Len(a) + n + 1
  BY <1>1, <1>2
<1> QED
  BY <1>1, <1>2, <1>3 DEF TupleAt, WithTuple, w, n

(* A tuple in what follows the head is one in the message.                 *)
LEMMA TupleMoved ==
  ASSUME NEW r \in Relations, NEW row, NEW s, NEW p \in Nat, TupleAt(s, p, r, row),
         NEW m, NEW l \in Nat, \A i \in 1 .. p + r.natt + 1 : m[l + i] = s[i]
  PROVE  TupleAt(m, l + p, r, row)
<1> DEFINE n == r.natt
<1>1. n \in Nat
  OBVIOUS
<1>2. ASSUME NEW i \in 1 .. n + 1
      PROVE  m[l + p + i] = WriteTuple(r, row)[i]
  <2>1. s[p + i] = WriteTuple(r, row)[i]
    BY <1>2 DEF TupleAt
  <2> HIDE DEF n
  <2>2. p + i \in 1 .. p + n + 1 /\ l + (p + i) = l + p + i
    BY <1>1
  <2>3. m[l + (p + i)] = s[p + i]
    BY <2>2 DEF n
  <2> QED
    BY <2>1, <2>2, <2>3
<1> QED
  BY <1>2 DEF TupleAt

(* Columns and key of a message that was read.                             *)
SameHead(d, r, action) ==
  LET e == Described(r, action)
  IN  /\ d.type = action /\ d.relname = e.relname /\ d.natt = e.natt
      /\ d.attname = e.attname /\ d.atttype = e.atttype
      /\ d.k_natt = e.k_natt /\ d.k_attname = e.k_attname

(* The same of a tuple that may be missing.                                *)
SaysTuple(tup, r, row) == IF row = <<>> THEN tup.natt = 0 ELSE SaysRow(tup, r, row)

(* The client has understood a change.                                     *)
Understood(d, r, c) ==
  /\ SameHead(d, r, c.action)
  /\ d.has_key_or_old <=> c.old # <<>>
  /\ SaysTuple(d.oldtuple, r, c.old)
  /\ SaysTuple(d.newtuple, r, c.new)

(* What a change has of the row before and after it.                       *)
Logged(c) ==
  /\ c.action \in RowActions
  /\ c.action = "I" => c.old = <<>>
  /\ c.action \in {"I", "U"} => c.new # <<>>
  /\ c.action = "D" => c.new = <<>>

(* What the readers leave of the head.                                     *)
LEMMA DescribedOnly ==
  ASSUME NEW r \in Relations, NEW action, NEW e, e = Described(r, action)
  PROVE  /\ SameHead(e, r, action) /\ ~e.has_key_or_old
         /\ e.newtuple.natt = 0 /\ e.oldtuple.natt = 0
BY DEF Described, SameHead, ZeroTuple

(* The reader of a new tuple sets nothing else,                            *)
LEMMA NewKeepsHead ==
  ASSUME NEW r \in Relations, NEW action, NEW m, NEW at, NEW d,
         d = ReadNew(m, at, Described(r, action))
  PROVE  /\ SameHead(d, r, action) /\ ~d.has_key_or_old /\ d.oldtuple.natt = 0
         /\ d.newtuple = ReadTuple(m, at + 1, ZeroTuple)
<1>1. SameHead(d, r, action) /\ ~d.has_key_or_old /\ d.oldtuple = ZeroTuple
      /\ d.newtuple = ReadTuple(m, at + 1, ZeroTuple)
  BY DEF Described, SameHead, ReadNew
<1> QED
  BY <1>1 DEF ZeroTuple

(* nor does that of an old one,                                            *)
LEMMA OldKeepsHead ==
  ASSUME NEW r \in Relations, NEW action, NEW m, NEW at, NEW d,
         d = ReadOld(m, at, Described(r, action))
  PROVE  /\ SameHead(d, r, action) /\ d.has_key_or_old /\ d.newtuple.natt = 0
         /\ d.oldtuple = ReadTuple(m, at + 1, ZeroTuple)
<1>1. SameHead(d, r, action) /\ d.has_key_or_old /\ d.newtuple = ZeroTuple
      /\ d.oldtuple = ReadTuple(m, at + 1, ZeroTuple)
  BY DEF Described, SameHead, ReadOld
<1> QED
  BY <1>1 DEF ZeroTuple

(* nor both.                                                               *)
LEMMA BothKeepHead ==
  ASSUME NEW r \in Relations, NEW action, NEW m, NEW at, NEW at2, NEW d,
         d = ReadNew(m, at2, ReadOld(m, at, Described(r, action)))
  PROVE  /\ SameHead(d, r, action) /\ d.has_key_or_old
         /\ d.oldtuple = ReadTuple(m, at + 1, ZeroTuple)
         /\ d.newtuple = ReadTuple(m, at2 + 1, ZeroTuple)
BY DEF Described, SameHead, ReadNew, ReadOld

(* A head is not empty.                                                    *)
LEMMA HeadLenIsNat ==
  ASSUME NEW r \in Relations, NEW action
  PROVE  HeadLen(r, action) \in Nat /\ HeadLen(r, action) >= 1
<1>1. KeyLen(r, action) \in 0 .. MaxAtt
  BY KeyWritten
<1>2. r.natt \in Nat
  OBVIOUS
<1> QED
  BY <1>1, <1>2 DEF HeadLen

(* How a message of a change is read: first its head.                      *)
HeadOf(r, action) == [msg |-> Described(r, action), next |-> HeadLen(r, action) + 1]

(* bdr_process_remote_action reads the head, and leaves the rest to the    *)
(* reader of the action.                                                   *)
LEMMA ChangeProcessed ==
  ASSUME NEW r \in Relations, NEW action \in RowActions, NEW rest, IsSeq(rest),
         NEW m, m = Message(r, action, rest)
  PROVE  /\ action = "I" => Process(m, ZeroMessage) = ProcessInsert(m, HeadOf(r, action))
         /\ action = "U" => Process(m, ZeroMessage) = ProcessUpdate(m, HeadOf(r, action))
         /\ action = "D" => Process(m, ZeroMessage) = ProcessDelete(m, HeadOf(r, action))
         /\ \A i \in 1 .. Len(rest) : m[HeadLen(r, action) + i] = rest[i]
<1>1. /\ Begins(m, r, action)
      /\ \A i \in 1 .. Len(rest) : m[HeadLen(r, action) + i] = rest[i]
  BY AfterHead
<1>2. Tag(m, 1) = action
  <2>1. 1 \in 1 .. HeadLen(r, action)
    BY HeadLenIsNat
  <2>2. m[1] = HeadItems(r, action)[1]
    BY <1>1, <2>1 DEF Begins
  <2>3. HeadItems(r, action)[1] = <<action, 0>>
    BY ZenonT(60), HeadWritten
  <2> QED
    BY <2>2, <2>3 DEF Tag
<1>3. ReadColumns(m, 3, [ZeroMessage EXCEPT !.type = Tag(m, 1), !.relname = Arg(m, 2)]) =
        HeadOf(r, action)
  BY <1>1, HeadRead DEF HeadOf
<1>4. CASE action = "I"
  BY <1>1, <1>2, <1>3, <1>4 DEF Process
<1>5. CASE action = "U"
  BY <1>1, <1>2, <1>3, <1>5 DEF Process
<1>6. CASE action = "D"
  BY <1>1, <1>2, <1>3, <1>6 DEF Process
<1> QED
  BY <1>4, <1>5, <1>6 DEF RowActions

(* An insert is understood,                                                *)
LEMMA InsertRead ==
  ASSUME NEW r \in Relations, NEW c, Logged(c), c.action = "I"
  PROVE  Understood(Process(EncodeChange(r, c), ZeroMessage), r, c)
<1> DEFINE a == <<<<"N", 0>>>>
           rest == WithTuple(a, r, c.new)
           m == Message(r, "I", rest)
           l == HeadLen(r, "I")
           n == r.natt
           d == ReadNew(m, l + 1, Described(r, "I"))
<1>1. EncodeChange(r, c) = m
  BY DEF EncodeChange, HeadItems, Message, WithTuple
<1>2. IsSeq(a) /\ Len(a) = 1
  BY OneIsSeq
<1> HIDE DEF a
<1>3. IsSeq(rest) /\ Len(rest) = 1 + n + 1 /\ TupleAt(rest, 1, r, c.new)
  <2>1. /\ IsSeq(rest) /\ Len(rest) = Len(a) + r.natt + 1
        /\ TupleAt(rest, Len(a), r, c.new)
    BY <1>2, Appended, Zenon
  <2> HIDE DEF rest
  <2> QED
    BY <1>2, <2>1
<1>4. l \in Nat /\ l + 1 \in Nat
  BY HeadLenIsNat
<1>5. "I" \in RowActions /\ c.old = <<>> /\ c.new # <<>>
  BY DEF RowActions, Logged
<1> HIDE DEF rest, m
<1>6. /\ Process(m, ZeroMessage) = ProcessInsert(m, HeadOf(r, "I"))
      /\ \A i \in 1 .. Len(rest) : m[l + i] = rest[i]
  BY <1>3, <1>5, ChangeProcessed DEF m
<1>7. Process(m, ZeroMessage) = d
  BY <1>6 DEF ProcessInsert, HeadOf
<1> HIDE DEF l, d
<1>8. TupleAt(m, l + 1, r, c.new)
  BY <1>3, <1>4, <1>6, TupleMoved
<1>9. SaysRow(ReadTuple(m, l + 1 + 1, ZeroTuple), r, c.new)
  BY <1>4, <1>8, TupleRead
<1>10. /\ SameHead(d, r, "I") /\ ~d.has_key_or_old /\ d.oldtuple.natt = 0
       /\ d.newtuple = ReadTuple(m, l + 1 + 1, ZeroTuple)
  BY NewKeepsHead DEF d
<1> QED
  BY <1>1, <1>5, <1>7, <1>9, <1>10 DEF Understood, SaysTuple

(* a delete, with and without an old tuple,                                *)
LEMMA DeleteRead ==
  ASSUME NEW r \in Relations, NEW c, Logged(c), c.action = "D"
  PROVE  Understood(Process(EncodeChange(r, c), ZeroMessage), r, c)
<1> DEFINE l == HeadLen(r, "D")
           n == r.natt
           e == Described(r, "D")
<1>1. l \in Nat /\ l + 1 \in Nat /\ "D" \in RowActions /\ c.new = <<>>
  BY HeadLenIsNat DEF RowActions, Logged
<1>2. CASE c.old = <<>>
  <2> DEFINE rest == <<<<"E", 0>>>>
             m == Message(r, "D", rest)
  <2>1. EncodeChange(r, c) = m
    BY <1>2 DEF EncodeChange, HeadItems, Message
  <2>2. IsSeq(rest) /\ Len(rest) = 1 /\ rest[1] = <<"E", 0>>
    BY OneIsSeq
  <2> HIDE DEF rest, m
  <2>3. /\ Process(m, ZeroMessage) = ProcessDelete(m, HeadOf(r, "D"))
        /\ \A i \in 1 .. Len(rest) : m[l + i] = rest[i]
    BY <1>1, <2>2, ChangeProcessed DEF m
  <2>4. Tag(m, l + 1) = "E"
    BY <2>2, <2>3 DEF Tag
  <2>5. Process(m, ZeroMessage) = e
    BY <2>3, <2>4 DEF ProcessDelete, HeadOf
  <2> HIDE DEF e
  <2>6. SameHead(e, r, "D") /\ ~e.has_key_or_old /\ e.newtuple.natt = 0 /\ e.oldtuple.natt = 0
    BY DescribedOnly DEF e
  <2> QED
    BY <1>1, <1>2, <2>1, <2>5, <2>6 DEF Understood, SaysTuple
<1>3. CASE c.old # <<>>
  <2> DEFINE a == <<<<"K", 0>>>>
             rest == WithTuple(a, r, c.old)
             m == Message(r, "D", rest)
             d == ReadOld(m, l + 1, e)
  <2>1. EncodeChange(r, c) = m
    BY <1>3 DEF EncodeChange, HeadItems, WriteOld, Message, WithTuple
  <2>2. IsSeq(a) /\ Len(a) = 1 /\ a[1] = <<"K", 0>>
    BY OneIsSeq
  <2> HIDE DEF a
  <2>3. /\ IsSeq(rest) /\ Len(rest) = 1 + n + 1 /\ TupleAt(rest, 1, r, c.old)
        /\ \A i \in 1 .. 1 : rest[i] = a[i]
    <3>1. /\ IsSeq(rest) /\ Len(rest) = Len(a) + r.natt + 1
          /\ TupleAt(rest, Len(a), r, c.old)
      BY <2>2, Appended, Zenon
    <3>2. \A i \in 1 .. Len(a) : rest[i] = a[i]
      <4>1. IsSeq(a)
        BY <2>2
      <4> QED
        BY <4>1, Appended
    <3> HIDE DEF rest
    <3> QED
      BY <2>2, <3>1, <3>2
  <2> HIDE DEF rest, m
  <2>4. /\ Process(m, ZeroMessage) = ProcessDelete(m, HeadOf(r, "D"))
        /\ \A i \in 1 .. Len(rest) : m[l + i] = rest[i]
    BY <1>1, <2>3, ChangeProcessed DEF m
  <2>5. Tag(m, l + 1) = "K"
    <3>1. 1 \in 1 .. 1 + n + 1
      OBVIOUS
    <3>2. m[l + 1] = rest[1] /\ rest[1] = a[1]
      BY <2>3, <2>4, <3>1
    <3> QED
      BY <2>2, <3>2 DEF Tag
  <2>6. Process(m, ZeroMessage) = d
    BY <2>4, <2>5 DEF ProcessDelete, HeadOf
  <2> HIDE DEF l, d
  <2>7. TupleAt(m, l + 1, r, c.old)
    <3>1. \A i \in 1 .. 1 + r.natt + 1 : m[l + i] = rest[i]
      BY <2>3, <2>4
    <3>2. l \in Nat /\ 1 \in Nat /\ TupleAt(rest, 1, r, c.old)
      BY <1>1, <2>3
    <3> HIDE DEF n
    <3> QED
      BY <3>1, <3>2, TupleMoved
  <2>8. SaysRow(ReadTuple(m, l + 1 + 1, ZeroTuple), r, c.old)
    BY <1>1, <2>7, TupleRead
  <2>9. /\ SameHead(d, r, "D") /\ d.has_key_or_old /\ d.newtuple.natt = 0
        /\ d.oldtuple = ReadTuple(m, l + 1 + 1, ZeroTuple)
    BY OldKeepsHead DEF d
  <2> QED
    BY <1>1, <1>3, <2>1, <2>6, <2>8, <2>9 DEF Understood, SaysTuple
<1> QED
  BY <1>2, <1>3

(* and an update, with and without an old tuple.                           *)
LEMMA UpdateRead ==
  ASSUME NEW r \in Relations, NEW c, Logged(c), c.action = "U"
  PROVE  Understood(Process(EncodeChange(r, c), ZeroMessage), r, c)
<1> DEFINE l == HeadLen(r, "U")
           n == r.natt
           o == WriteOld(r, c)
           b == <<<<"N", 0>>>>
           on == o \o b
           rest == WithTuple(on, r, c.new)
           m == Message(r, "U", rest)
           q == Len(on)
<1>1. l \in Nat /\ l + 1 \in Nat /\ n \in Nat /\ "U" \in RowActions /\ c.new # <<>>
  BY HeadLenIsNat DEF RowActions, Logged
<1>2. EncodeChange(r, c) = m
  BY DEF EncodeChange, HeadItems, Message, WithTuple
<1>3. IsSeq(b) /\ Len(b) = 1 /\ b[1] = <<"N", 0>>
  BY OneIsSeq
<1> HIDE DEF b
<1>4. ASSUME IsSeq(o)
      PROVE  /\ IsSeq(on) /\ Len(o) \in Nat /\ q = Len(o) + 1
             /\ \A i \in 1 .. Len(o) : on[i] = o[i]
             /\ on[Len(o) + 1] = <<"N", 0>>
  <2> HIDE DEF o
  <2>1. /\ IsSeq(on) /\ Len(o) \in Nat /\ Len(on) = Len(o) + Len(b)
        /\ \A i \in 1 .. Len(o) : on[i] = o[i]
        /\ \A i \in 1 .. Len(b) : on[Len(o) + i] = b[i]
    <3>1. IsSeq(o) /\ IsSeq(b)
      BY <1>3, <1>4
    <3>2. IsSeq(on) /\ Len(o) \in Nat /\ Len(on) = Len(o) + Len(b)
      BY <3>1, Glue
    <3>3. \A i \in 1 .. Len(o) : on[i] = o[i]
      BY <3>1, Glue
    <3>4. \A i \in 1 .. Len(b) : on[Len(o) + i] = b[i]
      BY <3>1, Glue
    <3> QED
      BY <3>2, <3>3, <3>4
  <2> HIDE DEF on
  <2>2. on[Len(o) + 1] = b[1]
    BY <1>3, <2>1
  <2> QED
    BY <1>3, <2>1, <2>2
<1> HIDE DEF on
<1>5. ASSUME IsSeq(on)
      PROVE  /\ IsSeq(rest) /\ q \in Nat /\ Len(rest) = q + n + 1
             /\ \A i \in 1 .. q : rest[i] = on[i]
             /\ TupleAt(rest, q, r, c.new)
  <2>1. /\ IsSeq(rest) /\ q \in Nat /\ Len(rest) = q + r.natt + 1
        /\ TupleAt(rest, q, r, c.new)
    BY <1>5, Appended, Zenon
  <2>2. \A i \in 1 .. q : rest[i] = on[i]
    BY <1>5, Appended
  <2> QED
    BY <2>1, <2>2
<1> HIDE DEF rest, m
<1>6. ASSUME IsSeq(rest)
      PROVE  /\ Process(m, ZeroMessage) = ProcessUpdate(m, HeadOf(r, "U"))
             /\ \A i \in 1 .. Len(rest) : m[l + i] = rest[i]
  BY <1>1, <1>6, ChangeProcessed DEF m
<1>7. CASE c.old = <<>>
  <2> DEFINE d == ReadNew(m, l + 1, Described(r, "U"))
  <2>1. o = <<>> /\ IsSeq(o) /\ Len(o) = 0
    BY <1>7 DEF WriteOld, IsSeq
  <2> HIDE DEF o
  <2>2. IsSeq(on) /\ q = 1 /\ on[1] = <<"N", 0>>
    BY <1>4, <2>1
  <2>3. IsSeq(rest) /\ Len(rest) = 1 + n + 1 /\ rest[1] = on[1] /\ TupleAt(rest, 1, r, c.new)
    BY <1>5, <2>2
  <2>4. /\ Process(m, ZeroMessage) = ProcessUpdate(m, HeadOf(r, "U"))
        /\ \A i \in 1 .. 1 + n + 1 : m[l + i] = rest[i]
    BY <1>6, <2>3
  <2>5. Tag(m, l + 1) = "N"
    <3>1. 1 \in 1 .. 1 + n + 1
      BY <1>1
    <3>2. m[l + 1] = rest[1]
      BY <2>4, <3>1
    <3> QED
      BY <2>2, <2>3, <3>2 DEF Tag
  <2>6. Process(m, ZeroMessage) = d
    BY <2>4, <2>5 DEF ProcessUpdate, HeadOf
  <2> HIDE DEF d, l
  <2>7. TupleAt(m, l + 1, r, c.new)
    BY <1>1, <2>3, <2>4, TupleMoved
  <2>8. SaysRow(ReadTuple(m, l + 1 + 1, ZeroTuple), r, c.new)
    BY <1>1, <2>7, TupleRead
  <2>9. /\ SameHead(d, r, "U") /\ ~d.has_key_or_old /\ d.oldtuple.natt = 0
        /\ d.newtuple = ReadTuple(m, l + 1 + 1, ZeroTuple)
    BY NewKeepsHead DEF d
  <2> QED
    BY <1>1, <1>2, <1>7, <2>6, <2>8, <2>9 DEF Understood, SaysTuple
<1>8. CASE c.old # <<>>
  <2> DEFINE a == <<<<"K", 0>>>>
             d == ReadNew(m, l + 1 + n + 2, ReadOld(m, l + 1, Described(r, "U")))
  <2>1. IsSeq(a) /\ Len(a) = 1 /\ a[1] = <<"K", 0>>
    BY OneIsSeq
  <2>2. o = WithTuple(a, r, c.old)
    BY <1>8 DEF WriteOld, WithTuple
  <2> HIDE DEF a, o
  <2>3. IsSeq(o) /\ Len(o) = 1 + n + 1 /\ TupleAt(o, 1, r, c.old) /\ o[1] = a[1]
    <3> DEFINE w == WithTuple(a, r, c.old)
    <3>1. IsSeq(w) /\ Len(w) = Len(a) + r.natt + 1 /\ TupleAt(w, Len(a), r, c.old)
      BY <2>1, Appended, Zenon
    <3>2. \A i \in 1 .. Len(a) : w[i] = a[i]
      <4>1. IsSeq(a)
        BY <2>1
      <4> QED
        BY <4>1, Appended
    <3> HIDE DEF w
    <3>3. IsSeq(w) /\ Len(w) = 1 + n + 1 /\ TupleAt(w, 1, r, c.old) /\ w[1] = a[1]
      BY <2>1, <3>1, <3>2
    <3> QED
      BY <2>2, <3>3 DEF w
  <2>4. IsSeq(on) /\ q = n + 3 /\ \A i \in 1 .. n + 2 : on[i] = o[i]
    <3> HIDE DEF q, n
    <3> QED
      BY <1>1, <1>4, <2>3
  <2>5. /\ IsSeq(rest) /\ Len(rest) = 2 * n + 4 /\ TupleAt(rest, n + 3, r, c.new)
        /\ \A i \in 1 .. n + 3 : rest[i] = on[i]
    <3> HIDE DEF q, n
    <3> QED
      BY <1>1, <1>5, <2>4
  <2>6. /\ Process(m, ZeroMessage) = ProcessUpdate(m, HeadOf(r, "U"))
        /\ \A i \in 1 .. 2 * n + 4 : m[l + i] = rest[i]
    BY <1>6, <2>5
  <2>7. \A i \in 1 .. 1 + n + 1 : m[l + i] = o[i]
    <3> HIDE DEF n, l
    <3> SUFFICES ASSUME NEW i \in 1 .. 1 + n + 1 PROVE m[l + i] = o[i]
      OBVIOUS
    <3>1. i \in 1 .. 2 * n + 4 /\ i \in 1 .. n + 3 /\ i \in 1 .. n + 2
      BY <1>1
    <3> QED
      BY <2>4, <2>5, <2>6, <3>1
  <2>8. Tag(m, l + 1) = "K"
    <3>1. 1 \in 1 .. 1 + n + 1
      BY <1>1
    <3>2. m[l + 1] = o[1]
      BY <2>7, <3>1
    <3> QED
      BY <2>1, <2>3, <3>2 DEF Tag
  <2>9. TupleAt(m, l + 1, r, c.old)
    <3> HIDE DEF l
    <3> QED
      BY <1>1, <2>3, <2>7, TupleMoved
  <2>10. SaysRow(ReadTuple(m, l + 1 + 1, ZeroTuple), r, c.old) /\ TupleEnd(m, l + 1 + 1) = l + 1 + n + 2
    <3> HIDE DEF l
    <3> QED
      BY <1>1, <2>9, TupleRead
  <2>11. Process(m, ZeroMessage) = d
    BY <2>6, <2>8, <2>10 DEF ProcessUpdate, HeadOf
  <2>12. TupleAt(m, l + 1 + n + 2, r, c.new)
    <3>1. \A i \in 1 .. (n + 3) + r.natt + 1 : m[l + i] = rest[i]
      <4>1. (n + 3) + r.natt + 1 = 2 * n + 4
        BY <1>1
      <4> QED
        BY <2>6, <4>1
    <3>2. n + 3 \in Nat
      BY <1>1
    <3> HIDE DEF l, n
    <3>3. TupleAt(m, l + (n + 3), r, c.new)
      BY <1>1, <2>5, <3>1, <3>2, TupleMoved
    <3>4. l + (n + 3) = l + 1 + n + 2
      BY <1>1
    <3> QED
      BY <3>3, <3>4
  <2>13. SaysRow(ReadTuple(m, l + 1 + n + 2 + 1, ZeroTuple), r, c.new)
    <3> HIDE DEF l, n
    <3>1. l + 1 + n + 2 \in Nat
      BY <1>1
    <3> QED
      BY <2>12, <3>1, TupleRead
  <2> HIDE DEF l, n, d
  <2>14. /\ SameHead(d, r, "U") /\ d.has_key_or_old
         /\ d.oldtuple = ReadTuple(m, l + 1 + 1, ZeroTuple)
         /\ d.newtuple = ReadTuple(m, l + 1 + n + 2 + 1, ZeroTuple)
    BY BothKeepHead DEF d
  <2> QED
    BY <1>1, <1>2, <1>8, <2>10, <2>11, <2>13, <2>14 DEF Understood, SaysTuple
<1> QED
  BY <1>7, <1>8

(* A change goes through the decoder whole.                                *)
LEMMA ChangeRead ==
  ASSUME NEW r \in Relations, NEW c, Logged(c), NEW last
  PROVE  Understood(Decode(Encode(r, c), last), r, c)
<1>1. Encode(r, c) = EncodeChange(r, c)
  BY DEF Encode, Logged, RowActions
<1>2. Decode(Encode(r, c), last) = Process(EncodeChange(r, c), ZeroMessage)
  BY <1>1 DEF Decode
<1> QED
  BY <1>2, InsertRead, UpdateRead, DeleteRead DEF Logged, RowActions

(* What a begin and a commit become.                                       *)
BeginMessage(txn) == [ZeroMessage EXCEPT !.type = "B", !.lsn = txn.final_lsn,
                                         !.tm = txn.commit_time, !.xid = txn.xid]
CommitMessage(txn) == [ZeroMessage EXCEPT !.type = "C", !.lsn = txn.final_lsn,
                                          !.end_lsn = txn.end_lsn, !.tm = txn.commit_time]

(* The numbers of a begin come in the order in which they are read,        *)
LEMMA BeginRead ==
  ASSUME NEW r, NEW last, NEW txn, NEW c, c = [action |-> "B", txn |-> txn]
  PROVE  Decode(Encode(r, c), last) = BeginMessage(txn)
<1> DEFINE b == EncodeBegin(txn)
<1>1. Encode(r, c) = b
  BY DEF Encode
<1>2. /\ Tag(b, 1) = "B" /\ Arg(b, 3) = txn.final_lsn
      /\ Arg(b, 4) = txn.commit_time /\ Arg(b, 5) = txn.xid
  BY DEF EncodeBegin, Tag, Arg
<1> HIDE DEF b
<1>3. Decode(Encode(r, c), last) = ProcessBegin(b, ZeroMessage)
  BY <1>1, <1>2 DEF Process, Decode
<1> QED
  BY <1>2, <1>3 DEF ProcessBegin, BeginMessage

(* and those of a commit.                                                  *)
LEMMA CommitRead ==
  ASSUME NEW r, NEW last, NEW txn, NEW c, c = [action |-> "C", txn |-> txn]
  PROVE  Decode(Encode(r, c), last) = CommitMessage(txn)
<1> DEFINE b == EncodeCommit(txn)
<1>1. Encode(r, c) = b
  BY DEF Encode
<1>2. /\ Tag(b, 1) = "C" /\ Arg(b, 2) = 0 /\ Arg(b, 3) = txn.final_lsn
      /\ Arg(b, 4) = txn.end_lsn /\ Arg(b, 5) = txn.commit_time
  BY DEF EncodeCommit, Tag, Arg
<1> HIDE DEF b
<1>3. Decode(Encode(r, c), last) = ProcessCommit(b, ZeroMessage)
  BY <1>1, <1>2 DEF Process, Decode
<1> QED
  BY <1>2, <1>3 DEF ProcessCommit, CommitMessage

-----------------------------------------------------------------------------
(* Part 4: the change of a message that is under way is one the plugin can *)
(* write.                                                                  *)
SentIsLogged ==
  pc = "sent" =>
    \/ IsRowChange /\ Logged(change)
    \/ change \in {[action |-> "B", txn |-> Txn], [action |-> "C", txn |-> Txn]}

(* The inductive invariant.                                                *)
IInv == rel \in Relations /\ SentIsLogged /\ MessageIsChange

(* A row with a column is not the empty sequence, which stands for none.   *)
LEMMA RowIsNoEmpty ==
  ASSUME NEW n \in Nat \ {0}, NEW f, DOMAIN f = 1 .. n
  PROVE  f # <<>>
<1>1. 1 \in DOMAIN f
  OBVIOUS
<1> QED
  BY <1>1

(* What the source executes leaves a change that is well logged.           *)
LEMMA SourceLogged ==
  ASSUME rel \in Relations, SourceInsert \/ SourceUpdate \/ SourceDelete
  PROVE  IsRowChange' /\ Logged(change')
<1>1. rel.natt \in Nat \ {0}
  OBVIOUS
<1>2. CASE SourceInsert
  <2> PICK x \in Slot \ Used(source), r \in Row : SourceExecutes("I", x, Absent, r, <<>>, r)
    BY <1>2 DEF SourceInsert
  <2>1. DOMAIN r = 1 .. rel.natt
    BY DEF Row
  <2>2. r # <<>>
    BY <1>1, <2>1, RowIsNoEmpty
  <2>3. change'.action = "I" /\ change'.old = <<>> /\ change'.new = r
    BY DEF SourceExecutes
  <2> QED
    BY <2>2, <2>3 DEF Logged, IsRowChange, RowActions
<1>3. CASE SourceUpdate
  <2> PICK x \in Used(source), r \in Row :
        SourceExecutes("U", x, source[x], r, LoggedOld(source[x], r), LoggedNew(source[x], r))
    BY <1>3 DEF SourceUpdate
  <2> DEFINE new == LoggedNew(source[x], r)
  <2>1. DOMAIN new = 1 .. rel.natt
    BY DEF LoggedNew
  <2> HIDE DEF new
  <2>2. new # <<>>
    BY <1>1, <2>1, RowIsNoEmpty
  <2>3. change'.action = "U" /\ change'.new = new
    BY DEF SourceExecutes, new
  <2> QED
    BY <2>2, <2>3 DEF Logged, IsRowChange, RowActions
<1>4. CASE SourceDelete
  <2> PICK x \in Used(source) :
        SourceExecutes("D", x, source[x], Absent, LoggedOld(source[x], Absent), <<>>)
    BY <1>4 DEF SourceDelete
  <2>1. change'.action = "D" /\ change'.new = <<>>
    BY DEF SourceExecutes
  <2> QED
    BY <2>1 DEF Logged, IsRowChange, RowActions
<1> QED
  BY <1>2, <1>3, <1>4

(* What was understood is what MessageIsChange asks for.                   *)
SaysColumns(d, r, action) ==
  /\ d.type = action /\ d.relname = [mixed |-> r.mixed]
  /\ Named(d, [natt |-> d.natt]) = Live(r)
  /\ \A i \in Live(r) : d.attname[i].att = i /\ d.atttype[i] = r.type[i]
  /\ {d.k_attname[j].att : j \in 1 .. d.k_natt} = IF action = "I" THEN {} ELSE Range(r.key)

(* The columns of the head are those of the relation.                      *)
LEMMA HeadSaysColumns ==
  ASSUME NEW r \in Relations, NEW d, NEW action \in RowActions, SameHead(d, r, action)
  PROVE  SaysColumns(d, r, action)
<1> DEFINE k == KeyLen(r, action)
<1>1. /\ d.type = action /\ d.relname = [mixed |-> r.mixed] /\ d.natt = r.natt /\ d.k_natt = k
      /\ d.attname = [i \in 1 .. MaxAtt |-> IF i \in Live(r) THEN QuotedName(r, i) ELSE NullPtr]
      /\ d.atttype = [i \in 1 .. MaxAtt |-> IF i \in Live(r) THEN r.type[i] ELSE NullPtr]
      /\ d.k_attname = [j \in 1 .. MaxAtt |->
                          IF j \in 1 .. k THEN RawName(r.key[j]) ELSE NullPtr]
  BY DEF SameHead, Described
<1>2. r.natt \in 1 .. MaxAtt
  OBVIOUS
<1>3. k \in 0 .. MaxAtt
  BY KeyWritten
<1>4. ASSUME NEW i \in 1 .. r.natt
      PROVE  /\ i \in 1 .. MaxAtt
             /\ i \in Live(r) => QuotedName(r, i) # NullPtr /\ QuotedName(r, i).att = i
  <2>1. i \in 1 .. MaxAtt
    BY <1>2
  <2>2. (i \in r.quoted) \in BOOLEAN
    BY SMT
  <2>3. NullPtr # [att |-> i, quoted |-> i \in r.quoted]
    BY <2>1, <2>2
  <2> QED
    BY <2>1, <2>3 DEF QuotedName
<1>5. ASSUME NEW i \in Live(r)
      PROVE  d.attname[i].att = i /\ d.atttype[i] = r.type[i]
  <2>1. i \in 1 .. r.natt
    BY DEF Live
  <2>2. i \in 1 .. MaxAtt
    BY <1>4, <2>1
  <2>3. d.attname[i] = QuotedName(r, i) /\ d.atttype[i] = r.type[i]
    BY <1>1, <2>2
  <2> QED
    BY <1>4, <2>1, <2>3
<1>6. Named(d, [natt |-> d.natt]) = Live(r)
  <2>1. Named(d, [natt |-> d.natt]) = {i \in 1 .. r.natt : d.attname[i] # NullPtr}
    BY <1>1 DEF Named
  <2>2. ASSUME NEW i \in 1 .. r.natt
        PROVE  d.attname[i] # NullPtr <=> i \in Live(r)
    <3>1. i \in 1 .. MaxAtt
      BY <1>4
    <3>2. d.attname[i] = IF i \in Live(r) THEN QuotedName(r, i) ELSE NullPtr
      BY <1>1, <3>1
    <3> QED
      BY <1>4, <3>2
  <2> QED
    BY <2>1, <2>2 DEF Live
<1>7. {d.k_attname[j].att : j \in 1 .. d.k_natt} = {r.key[j] : j \in 1 .. k}
  <2>1. ASSUME NEW j \in 1 .. k PROVE d.k_attname[j].att = r.key[j]
    <3>1. j \in 1 .. MaxAtt
      BY <1>3
    <3>2. d.k_attname[j] = RawName(r.key[j])
      BY <1>1, <3>1
    <3> QED
      BY <3>2 DEF RawName
  <2> HIDE DEF k
  <2>2. {d.k_attname[j].att : j \in 1 .. k} = {r.key[j] : j \in 1 .. k}
    BY <2>1
  <2> QED
    BY <1>1, <2>2
<1>8. {r.key[j] : j \in 1 .. k} = IF action = "I" THEN {} ELSE Range(r.key)
  <2>1. r.key \in Seq(Live(r))
    OBVIOUS
  <2>2. DOMAIN r.key = 1 .. Len(r.key) /\ Len(r.key) \in Nat
    BY <2>1, LenProperties
  <2>3. CASE action = "I"
    <3>1. k = 0
      BY <2>3 DEF KeyLen, HasKey
    <3> QED
      BY <2>3, <3>1
  <2>4. CASE action # "I" /\ r.key = <<>>
    <3>1. k = 0
      BY <2>4 DEF KeyLen, HasKey
    <3>2. Range(r.key) = {}
      BY <2>4 DEF Range
    <3> QED
      BY <2>4, <3>1, <3>2
  <2>5. CASE action # "I" /\ r.key # <<>>
    <3>1. k = Len(r.key)
      BY <2>5 DEF KeyLen, HasKey, RowActions
    <3> HIDE DEF k
    <3> QED
      BY <2>2, <2>5, <3>1 DEF Range
  <2> QED
    BY <2>3, <2>4, <2>5
<1> QED
  BY <1>1, <1>5, <1>6, <1>7, <1>8 DEF SaysColumns

(* exec_logical_decoder leaves a message that says what the change says.   *)
LEMMA DecodedIsChange ==
  ASSUME IInv, DecodeMessage
  PROVE  MessageIsChange'
<1>1. /\ rel \in Relations /\ pc = "sent" /\ pc' = "decoded" /\ rel' = rel /\ change' = change
      /\ msg' = Decode(Encode(rel, change), msg)
  BY DEF IInv, DecodeMessage
<1>2. CASE IsRowChange
  <2>1. Logged(change) /\ change.action \in RowActions
    BY <1>1, <1>2 DEF IInv, SentIsLogged, Logged, IsRowChange, RowActions
  <2>2. Understood(msg', rel, change)
    BY <1>1, <2>1, ChangeRead
  <2>3. SameHead(msg', rel, change.action)
    BY <2>2 DEF Understood
  <2>4. /\ msg'.type = change.action /\ msg'.relname = [mixed |-> rel.mixed]
        /\ Named(msg', [natt |-> msg'.natt]) = Live(rel)
        /\ \A i \in Live(rel) : msg'.attname[i].att = i /\ msg'.atttype[i] = rel.type[i]
        /\ {msg'.k_attname[j].att : j \in 1 .. msg'.k_natt} =
             IF change.action = "I" THEN {} ELSE Range(rel.key)
    <3>1. SaysColumns(msg', rel, change.action)
      BY <1>1, <2>1, <2>3, HeadSaysColumns
    <3> QED
      BY <3>1 DEF SaysColumns
  <2>5. msg'.has_key_or_old <=> change.old # <<>>
    BY <2>2 DEF Understood
  <2>6. TupleIs(msg'.oldtuple, change.old) /\ TupleIs(msg'.newtuple, change.new)
    BY <2>2 DEF Understood, SaysTuple, SaysRow, TupleIs
  <2>7. TupleIs(msg.oldtuple, change.old)' /\ TupleIs(msg.newtuple, change.new)'
    BY <1>1, <2>6 DEF TupleIs
  <2> QED
    BY <1>1, <1>2, <2>4, <2>5, <2>7 DEF MessageIsChange, IsRowChange
<1>3. CASE ~IsRowChange
  <2>1. change \in {[action |-> "B", txn |-> Txn], [action |-> "C", txn |-> Txn]}
    BY <1>1, <1>3 DEF IInv, SentIsLogged
  <2>2. CASE change = [action |-> "B", txn |-> Txn]
    <3>1. msg' = BeginMessage(Txn)
      BY <1>1, <2>2, BeginRead
    <3>2. msg' = TransactionMessage'
      BY <1>1, <2>2, <3>1 DEF TransactionMessage, BeginMessage, ZeroMessage
    <3> QED
      BY <1>1, <1>3, <3>2 DEF MessageIsChange, IsRowChange
  <2>3. CASE change = [action |-> "C", txn |-> Txn]
    <3>1. msg' = CommitMessage(Txn)
      BY <1>1, <2>3, CommitRead
    <3>2. msg' = TransactionMessage'
      BY ZenonT(60), <1>1, <2>3, <3>1 DEF TransactionMessage, CommitMessage, ZeroMessage
    <3> QED
      BY <1>1, <1>3, <3>2 DEF MessageIsChange, IsRowChange
  <2> QED
    BY <2>1, <2>2, <2>3
<1> QED
  BY <1>2, <1>3

-----------------------------------------------------------------------------
(* Part 5: the statement that out_put_tuple_to_sql makes of a message that *)
(* was understood.  A row, or what the WAL has of one.                     *)
RowLike(r, row) ==
  \A i \in Live(r) : row[i] \in Values[r.type[i]] \union {Null, External}

(* The literal of a column, and the equations of some columns.             *)
LiteralOf(r, row, i) ==
  IF row[i] = Null THEN Null
  ELSE IF row[i] = External THEN (IF r.type[i] \in Raw THEN Null ELSE NullPtr)
  ELSE quote_literal_local(row[i], r.type[i])
Equations(r, row, cols) == {<<QuotedName(r, i), LiteralOf(r, row, i)>> : i \in cols}

(* The columns of the key whose names are found again, and those of a      *)
(* WHERE.                                                                  *)
KeyColumns(r) == Range(r.key) \ r.quoted
WhereOf(r) == IF r.key # <<>> THEN KeyColumns(r) ELSE Live(r)

(* A column is set under FULL.                                             *)
Differs(old, new, i) == new[i] # External /\ new[i] # old[i]

UpdateOf(r, set, where) ==
  [verb |-> "UPDATE", table |-> [mixed |-> r.mixed], set |-> set, where |-> where, commas |-> 0]

(* The statement of a change.                                              *)
StatementOf(r, c) ==
  CASE c.action = "I" ->
         [verb |-> "INSERT", table |-> [mixed |-> r.mixed],
          set |-> Equations(r, c.new, Live(r)), where |-> {},
          commas |-> Cardinality(Live(r) \ {r.natt})]
    [] c.action = "D" ->
         IF c.old = <<>> THEN Nothing
         ELSE [verb |-> "DELETE", table |-> [mixed |-> r.mixed], set |-> {}, commas |-> 0,
               where |-> Equations(r, c.old, WhereOf(r))]
    [] c.action = "U" ->
         IF r.key = <<>>
         THEN IF c.old = <<>> THEN Nothing
              ELSE UpdateOf(r, Equations(r, c.new, {i \in Live(r) : Differs(c.old, c.new, i)}),
                            Equations(r, c.old, Live(r)))
         ELSE IF c.old = <<>>
              THEN UpdateOf(r, Equations(r, c.new, Live(r) \ KeyColumns(r)),
                            Equations(r, c.new, KeyColumns(r)))
              ELSE UpdateOf(r, Equations(r, c.new, Live(r)), Equations(r, c.old, KeyColumns(r)))

(* A name that is quoted or not is not the null pointer.                   *)
LEMMA NameIsName ==
  ASSUME NEW r \in Relations, NEW i \in 1 .. r.natt
  PROVE  i \in 1 .. MaxAtt /\ QuotedName(r, i) # NullPtr
<1>1. i \in 1 .. MaxAtt
  OBVIOUS
<1>2. (i \in r.quoted) \in BOOLEAN
  BY SMT
<1>3. NullPtr # [att |-> i, quoted |-> i \in r.quoted]
  BY <1>1, <1>2
<1> QED
  BY <1>1, <1>3 DEF QuotedName

(* The columns of a message are the live ones, under their quoted names.   *)
HeadIs(d, r, action) ==
  /\ d.type = action /\ d.relname = [mixed |-> r.mixed] /\ d.natt = r.natt
  /\ d.k_natt = KeyLen(r, action)
  /\ \A i \in Live(r) : d.attname[i] = QuotedName(r, i) /\ d.atttype[i] = r.type[i]

(* That is so for what SameHead says.                                      *)
LEMMA HeadColumns ==
  ASSUME NEW r \in Relations, NEW action, NEW d, SameHead(d, r, action)
  PROVE  HeadIs(d, r, action)
<1>1. /\ d.type = action /\ d.relname = [mixed |-> r.mixed] /\ d.natt = r.natt
      /\ d.k_natt = KeyLen(r, action)
      /\ d.attname = [i \in 1 .. MaxAtt |-> IF i \in Live(r) THEN QuotedName(r, i) ELSE NullPtr]
      /\ d.atttype = [i \in 1 .. MaxAtt |-> IF i \in Live(r) THEN r.type[i] ELSE NullPtr]
  BY DEF SameHead, Described
<1>2. ASSUME NEW i \in 1 .. r.natt
      PROVE  /\ d.attname[i] = IF i \in Live(r) THEN QuotedName(r, i) ELSE NullPtr
             /\ d.atttype[i] = IF i \in Live(r) THEN r.type[i] ELSE NullPtr
             /\ QuotedName(r, i) # NullPtr
  <2>1. i \in 1 .. MaxAtt /\ QuotedName(r, i) # NullPtr
    BY NameIsName
  <2> QED
    BY <1>1, <2>1
<1>3. Live(r) \subseteq 1 .. r.natt
  BY DEF Live
<1> QED
  BY <1>1, <1>2, <1>3 DEF HeadIs

(* Those of a tuple are the same.                                          *)
LEMMA TupleColumns ==
  ASSUME NEW r \in Relations, NEW action, NEW d, SameHead(d, r, action),
         NEW tup, tup.natt = r.natt
  PROVE  Named(d, tup) = Live(r)
<1>1. ASSUME NEW i \in 1 .. r.natt
      PROVE  d.attname[i] # NullPtr <=> i \in Live(r)
  <2>1. i \in 1 .. MaxAtt /\ QuotedName(r, i) # NullPtr
    BY NameIsName
  <2>2. d.attname = [x \in 1 .. MaxAtt |-> IF x \in Live(r) THEN QuotedName(r, x) ELSE NullPtr]
    BY DEF SameHead, Described
  <2> QED
    BY <2>1, <2>2
<1>2. Named(d, tup) = {i \in 1 .. r.natt : d.attname[i] # NullPtr}
  BY DEF Named
<1> QED
  BY <1>1, <1>2 DEF Live

(* A column is one of the key if it has the name of one, which a name that *)
(* is quoted has not.                                                      *)
LEMMA KeyColumnIs ==
  ASSUME NEW r \in Relations, NEW action, NEW d, SameHead(d, r, action),
         HasKey(r, action), NEW i \in Live(r)
  PROVE  is_key_column(d, i) <=> i \in KeyColumns(r)
<1> DEFINE n == Len(r.key)
<1>1. r.key \in Seq(Live(r)) /\ n <= MaxAtt
  OBVIOUS
<1>2. n \in Nat /\ DOMAIN r.key = 1 .. n
  BY <1>1, LenProperties
<1>3. d.k_natt = n /\ d.attname[i] = QuotedName(r, i)
  <2>0. HeadIs(d, r, action)
    BY HeadColumns
  <2>1. d.k_natt = KeyLen(r, action) /\ d.attname[i] = QuotedName(r, i)
    BY <2>0 DEF HeadIs
  <2> QED
    BY <2>1, Zenon DEF KeyLen
<1>4. ASSUME NEW j \in 1 .. n PROVE d.k_attname[j] = RawName(r.key[j])
  <2>1. j \in 1 .. MaxAtt
    BY <1>1, <1>2
  <2>2. d.k_attname = [x \in 1 .. MaxAtt |->
                         IF x \in 1 .. n THEN RawName(r.key[x]) ELSE NullPtr]
    BY DEF SameHead, Described, KeyLen
  <2> QED
    BY <2>1, <2>2
<1>5. ASSUME NEW k PROVE RawName(k) = QuotedName(r, i) <=> k = i /\ i \notin r.quoted
  <2>1. CASE i \in r.quoted
    <3>1. QuotedName(r, i).quoted = TRUE /\ RawName(k).quoted = FALSE
      BY <2>1 DEF QuotedName, RawName
    <3> QED
      BY <2>1, <3>1
  <2>2. CASE i \notin r.quoted
    <3>1. (i \in r.quoted) = FALSE
      BY <2>2
    <3>2. QuotedName(r, i) = [att |-> i, quoted |-> FALSE]
      BY <3>1, Zenon DEF QuotedName
    <3>3. [att |-> k, quoted |-> FALSE] = [att |-> i, quoted |-> FALSE] <=> k = i
      OBVIOUS
    <3> QED
      BY <2>2, <3>2, <3>3, Zenon DEF RawName
  <2> QED
    BY <2>1, <2>2
<1> HIDE DEF n
<1>6. is_key_column(d, i) <=> \E j \in 1 .. n : r.key[j] = i /\ i \notin r.quoted
  BY <1>3, <1>4, <1>5 DEF is_key_column
<1>7. i \in Range(r.key) <=> \E j \in 1 .. n : r.key[j] = i
  BY <1>2 DEF Range
<1> QED
  BY <1>6, <1>7 DEF KeyColumns

(* The columns of a WHERE.                                                 *)
LEMMA WhereColumnsAre ==
  ASSUME NEW r \in Relations, NEW action \in {"U", "D"}, NEW d, SameHead(d, r, action),
         NEW tup, tup.natt = r.natt
  PROVE  /\ WhereColumns(d, tup) = WhereOf(r) /\ WhereOf(r) \subseteq Live(r)
         /\ r.key # <<>> =>
              {i \in Named(d, tup) : d.k_natt > 0 => ~is_key_column(d, i)}
                = Live(r) \ KeyColumns(r)
         /\ d.k_natt \in Nat /\ (d.k_natt > 0 <=> r.key # <<>>)
<1>0. HeadIs(d, r, action)
  BY HeadColumns
<1>1. Named(d, tup) = Live(r) /\ d.k_natt = KeyLen(r, action)
  BY <1>0, TupleColumns DEF HeadIs
<1>2. r.key \in Seq(Live(r)) /\ Len(r.key) \in Nat /\ DOMAIN r.key = 1 .. Len(r.key)
  BY LenProperties
<1>3. KeyColumns(r) \subseteq Live(r)
  BY <1>2 DEF KeyColumns, Range
<1>4. CASE r.key = <<>>
  <2>1. d.k_natt = 0
    BY <1>1, <1>4 DEF KeyLen, HasKey
  <2> QED
    BY <1>1, <1>4, <2>1 DEF WhereColumns, WhereOf
<1>5. CASE r.key # <<>>
  <2>1. HasKey(r, action)
    BY <1>5 DEF HasKey
  <2>2. d.k_natt = Len(r.key)
    BY <1>1, <2>1 DEF KeyLen
  <2>3. Len(r.key) > 0
    BY <1>2, <1>5, EmptySeq
  <2>4. \A i \in Live(r) : is_key_column(d, i) <=> i \in KeyColumns(r)
    BY <2>1, KeyColumnIs
  <2> QED
    BY <1>1, <1>2, <1>3, <1>5, <2>2, <2>3, <2>4 DEF WhereColumns, WhereOf
<1> QED
  BY <1>4, <1>5

(* What a row has in a column is told apart.                               *)
LEMMA ColumnKinds ==
  ASSUME NEW r \in Relations, NEW row, RowLike(r, row), NEW i \in Live(r)
  PROVE  /\ r.type[i] \in DOMAIN Values
         /\ \/ row[i] = Null
            \/ row[i] = External
            \/ /\ row[i] \in Values[r.type[i]] /\ row[i] \in Texts
               /\ row[i] \notin {Null, External, NullPtr}
               /\ r.type[i] \in Raw \union Dated => Quote \notin ToSet(row[i])
<1>1. i \in 1 .. r.natt
  BY DEF Live
<1>2. r.type[i] \in DOMAIN Values
  BY <1>1
<1> QED
  BY <1>2, ValuesAssumption DEF RowLike

(* append_values writes the equations of its columns.                      *)
LEMMA ValuesAppended ==
  ASSUME NEW r \in Relations, NEW action, NEW d, SameHead(d, r, action),
         NEW row, RowLike(r, row), NEW tup, SaysRow(tup, r, row), NEW cols \in SUBSET Live(r)
  PROVE  append_values(d, tup, cols) = Equations(r, row, cols)
<1>1. ASSUME NEW i \in Live(r)
      PROVE  d.attname[i] = QuotedName(r, i) /\ Literal(d, tup, i) = LiteralOf(r, row, i)
  <2>0. HeadIs(d, r, action)
    BY HeadColumns
  <2>1. d.attname[i] = QuotedName(r, i) /\ d.atttype[i] = r.type[i]
    BY <2>0 DEF HeadIs
  <2>2. /\ IsNull(tup, i) <=> row[i] = Null
        /\ IsUnchangedToast(tup, i) <=> row[i] = External
        /\ tup.svalues[i] = IF tup.isnull[i] THEN NullPtr ELSE row[i]
    BY DEF SaysRow
  <2>3. CASE row[i] = Null
    BY <2>1, <2>2, <2>3 DEF Literal, LiteralOf
  <2>4. CASE row[i] = External
    <3>1. tup.isnull[i] /\ row[i] # Null
      BY <2>2, <2>4 DEF IsUnchangedToast
    <3> QED
      BY <2>1, <2>2, <2>4, <3>1 DEF Literal, LiteralOf, Written
  <2>5. CASE row[i] # Null /\ row[i] # External
    <3>1. row[i] # NullPtr
      BY <2>5, ColumnKinds
    <3>2. ~tup.isnull[i]
      BY <2>2, <2>5 DEF IsNull, IsUnchangedToast
    <3> QED
      BY <2>1, <2>2, <2>5, <3>1, <3>2 DEF Literal, LiteralOf, Written
  <2> QED
    BY <2>1, <2>3, <2>4, <2>5
<1> QED
  BY <1>1 DEF append_values, Equations

(* The rows that a change has, where only a new one of an update leaves    *)
(* out-of-line values out.                                                 *)
HasRows(r, c) ==
  /\ c.new # <<>> => RowLike(r, c.new)
  /\ c.old # <<>> => RowLike(r, c.old) /\ \A i \in Live(r) : c.old[i] # External
  /\ c.action = "I" => \A i \in Live(r) : c.new[i] # External

(* The statement of an insert,                                             *)
LEMMA InsertIs ==
  ASSUME NEW r \in Relations, NEW c, NEW d, Understood(d, r, c), Logged(c), HasRows(r, c),
         c.action = "I"
  PROVE  out_put_tuple_to_sql(d) = StatementOf(r, c)
<1> DEFINE new == d.newtuple
           row == c.new
<1>1. SameHead(d, r, "I") /\ SaysRow(new, r, row) /\ new.natt = r.natt
  BY DEF Understood, Logged, SaysTuple, SaysRow
<1>2. RowLike(r, row) /\ \A i \in Live(r) : row[i] # External
  BY DEF Logged, HasRows
<1>3. HeadIs(d, r, "I")
  BY <1>1, HeadColumns
<1> HIDE DEF new, row
<1>4. d.type = "I" /\ d.relname = [mixed |-> r.mixed] /\ d.natt = r.natt
  BY <1>3 DEF HeadIs
<1>5. Named(d, new) = Live(r)
  BY <1>1, TupleColumns
<1>6. ASSUME NEW i \in Live(r)
      PROVE  /\ d.attname[i] = QuotedName(r, i)
             /\ (IF new.isnull[i] THEN Null ELSE Written(d, new, i)) = LiteralOf(r, row, i)
  <2>1. d.attname[i] = QuotedName(r, i) /\ d.atttype[i] = r.type[i]
    BY <1>3 DEF HeadIs
  <2>2. /\ IsNull(new, i) <=> row[i] = Null
        /\ IsUnchangedToast(new, i) <=> row[i] = External
        /\ new.svalues[i] = IF new.isnull[i] THEN NullPtr ELSE row[i]
    BY <1>1 DEF SaysRow
  <2>3. row[i] # External
    BY <1>2
  <2>4. CASE new.isnull[i]
    <3>1. row[i] = Null
      BY <2>2, <2>3, <2>4 DEF IsNull, IsUnchangedToast
    <3> QED
      BY <2>1, <2>4, <3>1 DEF LiteralOf
  <2>5. CASE ~new.isnull[i]
    <3>1. row[i] # Null
      BY <2>2, <2>5 DEF IsNull
    <3>2. row[i] # NullPtr
      BY <1>2, <2>3, <3>1, ColumnKinds
    <3> QED
      BY <2>1, <2>2, <2>3, <2>5, <3>1, <3>2 DEF LiteralOf, Written
  <2> QED
    BY <2>1, <2>4, <2>5
<1>7. append_insert_values(d, new) = Equations(r, row, Live(r))
  BY <1>5, <1>6 DEF append_insert_values, Equations
<1>8. append_insert_colname(d, new) = Cardinality(Live(r) \ {r.natt})
  BY <1>1, <1>5 DEF append_insert_colname
<1>9. checktuple(d)
  <2>1. r.natt # 0
    OBVIOUS
  <2> QED
    BY <1>1, <1>4, <2>1 DEF checktuple, new
<1>10. out_put_tuple_to_sql(d) = Insert(d)
  BY <1>4, <1>9 DEF out_put_tuple_to_sql
<1>11. Insert(d) = [verb |-> "INSERT", table |-> [mixed |-> r.mixed],
                    set |-> Equations(r, row, Live(r)), where |-> {},
                    commas |-> Cardinality(Live(r) \ {r.natt})]
  BY <1>4, <1>7, <1>8, Zenon DEF Insert, new
<1> QED
  BY <1>10, <1>11, Zenon DEF StatementOf, row

(* of a delete, which has none if there is no identity,                    *)
LEMMA DeleteIs ==
  ASSUME NEW r \in Relations, NEW c, NEW d, Understood(d, r, c), Logged(c), HasRows(r, c),
         c.action = "D"
  PROVE  out_put_tuple_to_sql(d) = StatementOf(r, c)
<1> DEFINE old == d.oldtuple
           row == c.old
<1>1. SameHead(d, r, "D") /\ (d.has_key_or_old <=> row # <<>>) /\ SaysTuple(old, r, row)
  BY DEF Understood
<1>2. row # <<>> => RowLike(r, row)
  BY DEF HasRows
<1>3. HeadIs(d, r, "D")
  BY <1>1, HeadColumns
<1>s. StatementOf(r, c) =
        IF row = <<>> THEN Nothing
        ELSE [verb |-> "DELETE", table |-> [mixed |-> r.mixed], set |-> {}, commas |-> 0,
              where |-> Equations(r, row, WhereOf(r))]
  BY Zenon DEF StatementOf
<1> HIDE DEF old, row
<1>4. d.type = "D" /\ d.relname = [mixed |-> r.mixed]
  BY <1>3 DEF HeadIs
<1>5. CASE row = <<>>
  <2>1. ~checktuple(d)
    BY <1>1, <1>4, <1>5 DEF checktuple
  <2> QED
    BY <1>s, <1>5, <2>1 DEF out_put_tuple_to_sql
<1>6. CASE row # <<>>
  <2>1. SaysRow(old, r, row) /\ old.natt = r.natt
    BY <1>1, <1>6 DEF SaysTuple, SaysRow
  <2>2. WhereColumns(d, old) = WhereOf(r) /\ WhereOf(r) \subseteq Live(r)
    BY <1>1, <2>1, WhereColumnsAre
  <2>3. append_values(d, old, WhereOf(r)) = Equations(r, row, WhereOf(r))
    BY <1>1, <1>2, <1>6, <2>1, <2>2, ValuesAppended
  <2>4. append_delete_where_statement(d, old) = Equations(r, row, WhereOf(r))
    BY <2>2, <2>3 DEF append_delete_where_statement
  <2>5. checktuple(d)
    <3>1. r.natt # 0
      OBVIOUS
    <3> QED
      BY <1>1, <1>4, <1>6, <2>1, <3>1 DEF checktuple, old
  <2>6. out_put_tuple_to_sql(d) = Delete(d)
    BY <1>4, <2>5 DEF out_put_tuple_to_sql
  <2>7. Delete(d) = [verb |-> "DELETE", table |-> [mixed |-> r.mixed], set |-> {}, commas |-> 0,
                     where |-> Equations(r, row, WhereOf(r))]
    BY <1>4, <2>4, Zenon DEF Delete, old
  <2> QED
    BY <1>s, <1>6, <2>6, <2>7
<1> QED
  BY <1>5, <1>6

(* The two tuples of a message show a difference where there is one.       *)
LEMMA ChangedIs ==
  ASSUME NEW r \in Relations, NEW old, NEW new, NEW was, NEW row,
         SaysRow(old, r, was), SaysRow(new, r, row),
         NEW i \in Live(r), was[i] # External
  PROVE  Changed(new, old, i) <=> Differs(was, row, i)
<1>1. /\ IsNull(new, i) <=> row[i] = Null
      /\ IsUnchangedToast(new, i) <=> row[i] = External
      /\ new.svalues[i] = IF new.isnull[i] THEN NullPtr ELSE row[i]
      /\ IsNull(old, i) <=> was[i] = Null
      /\ IsUnchangedToast(old, i) <=> was[i] = External
      /\ old.svalues[i] = IF old.isnull[i] THEN NullPtr ELSE was[i]
  BY DEF SaysRow
<1>2. CASE row[i] = Null
  BY <1>1, <1>2 DEF Changed, Differs
<1>3. CASE row[i] = External
  BY <1>1, <1>3 DEF Changed, Differs
<1>4. CASE row[i] # Null /\ row[i] # External
  <2>1. new.svalues[i] = row[i]
    BY <1>1, <1>4 DEF IsNull, IsUnchangedToast
  <2>2. CASE was[i] = Null
    BY <1>1, <1>4, <2>2 DEF Changed, Differs
  <2>3. CASE was[i] # Null
    <3>1. old.svalues[i] = was[i]
      BY <1>1, <2>3 DEF IsNull, IsUnchangedToast
    <3> QED
      BY <1>1, <1>4, <2>1, <2>3, <3>1 DEF Changed, Differs
  <2> QED
    BY <2>2, <2>3
<1> QED
  BY <1>2, <1>3, <1>4

(* and of an update.                                                       *)
LEMMA UpdateIs ==
  ASSUME NEW r \in Relations, NEW c, NEW d, Understood(d, r, c), Logged(c), HasRows(r, c),
         c.action = "U"
  PROVE  out_put_tuple_to_sql(d) = StatementOf(r, c)
<1> DEFINE old == d.oldtuple
           new == d.newtuple
           was == c.old
           row == c.new
           live == Live(r)
           keys == KeyColumns(r)
           full == {i \in live : Differs(was, row, i)}
<1>1. /\ SameHead(d, r, "U") /\ (d.has_key_or_old <=> was # <<>>) /\ SaysTuple(old, r, was)
      /\ SaysRow(new, r, row) /\ new.natt = r.natt
  BY DEF Understood, Logged, SaysTuple, SaysRow
<1>2. /\ was # <<>> => RowLike(r, was) /\ \A i \in live : was[i] # External
      /\ RowLike(r, row)
  BY DEF HasRows, Logged
<1>3. HeadIs(d, r, "U")
  BY <1>1, HeadColumns
<1>4. d.type = "U" /\ d.relname = [mixed |-> r.mixed] /\ d.natt = r.natt
  BY <1>3 DEF HeadIs
<1>5. r.natt \in Nat /\ r.natt # 0
  OBVIOUS
<1>6. Named(d, new) = live
  BY <1>1, TupleColumns
<1>7. /\ WhereColumns(d, new) = WhereOf(r) /\ WhereOf(r) \subseteq live
      /\ r.key # <<>> => {i \in live : d.k_natt > 0 => ~is_key_column(d, i)} = live \ keys
      /\ d.k_natt \in Nat /\ (d.k_natt > 0 <=> r.key # <<>>)
  BY <1>1, <1>6, WhereColumnsAre
<1>8. ASSUME NEW cols \in SUBSET live PROVE append_values(d, new, cols) = Equations(r, row, cols)
  BY <1>1, <1>2, ValuesAppended
<1>9. d.k_natt = 0 <=> r.key = <<>>
  BY <1>7
<1>s. StatementOf(r, c) =
        IF r.key = <<>>
        THEN IF was = <<>> THEN Nothing
             ELSE UpdateOf(r, Equations(r, row, full), Equations(r, was, live))
        ELSE IF was = <<>>
             THEN UpdateOf(r, Equations(r, row, live \ keys), Equations(r, row, keys))
             ELSE UpdateOf(r, Equations(r, row, live), Equations(r, was, keys))
  BY Zenon DEF StatementOf
<1>10. out_put_tuple_to_sql(d) = append_update_statement(d)
  <2>1. checktuple(d)
    BY <1>1, <1>4, <1>5 DEF checktuple
  <2> QED
    BY <1>4, <2>1 DEF out_put_tuple_to_sql
<1>u. ASSUME NEW set, NEW where
      PROVE  Update(d, set, where) = UpdateOf(r, set, where)
  BY <1>4 DEF Update, UpdateOf
<1>11. CASE was = <<>>
  <2>1. old.natt = 0 /\ ~d.has_key_or_old
    BY <1>1, <1>11 DEF SaysTuple
  <2>2. CASE r.key = <<>>
    <3>1. append_update_statement(d) = Nothing
      BY <1>9, <2>1, <2>2 DEF append_update_statement
    <3> QED
      BY <1>s, <1>10, <1>11, <2>2, <3>1
  <2>3. CASE r.key # <<>>
    <3>1. append_update_statement(d) = append_update_statement_key_not_change(d)
      BY <1>7, <1>9, <2>1, <2>3 DEF append_update_statement
    <3>2. WhereOf(r) = keys /\ keys \subseteq live
      BY <1>7, <2>3 DEF WhereOf
    <3>3. append_update_statement_key_not_change(d)
            = Update(d, append_values(d, new, live \ keys), append_values(d, new, keys))
      BY <1>6, <1>7, <2>3, <3>2 DEF append_update_statement_key_not_change
    <3>4. /\ append_values(d, new, live \ keys) = Equations(r, row, live \ keys)
          /\ append_values(d, new, keys) = Equations(r, row, keys)
      BY <1>8, <3>2
    <3> QED
      BY <1>s, <1>u, <1>10, <1>11, <2>3, <3>1, <3>3, <3>4
  <2> QED
    BY <2>2, <2>3
<1>12. CASE was # <<>>
  <2>1. SaysRow(old, r, was) /\ old.natt = r.natt /\ d.has_key_or_old
    BY <1>1, <1>12 DEF SaysTuple, SaysRow
  <2>2. RowLike(r, was) /\ \A i \in live : was[i] # External
    BY <1>2, <1>12
  <2>3. Named(d, old) = live
    BY <1>1, <2>1, TupleColumns
  <2>4. WhereColumns(d, old) = WhereOf(r)
    BY <1>1, <2>1, WhereColumnsAre
  <2>5. ASSUME NEW cols \in SUBSET live PROVE append_values(d, old, cols) = Equations(r, was, cols)
    BY <1>1, <2>1, <2>2, ValuesAppended
  <2>6. CASE r.key = <<>>
    <3>1. append_update_statement(d) = append_update_statement_full_row(d)
      BY <1>1, <1>4, <1>5, <1>9, <2>1, <2>6 DEF append_update_statement
    <3>2. {i \in live : Changed(new, old, i)} = full
      <4>1. \A i \in live : Changed(new, old, i) <=> Differs(was, row, i)
        BY <1>1, <2>1, <2>2, ChangedIs
      <4> QED
        BY <4>1
    <3>3. append_update_statement_full_row(d)
            = Update(d, append_values(d, new, full), append_values(d, old, live))
      BY <2>3, <3>2 DEF append_update_statement_full_row
    <3>4. append_values(d, new, full) = Equations(r, row, full)
      BY <1>8
    <3>5. append_values(d, old, live) = Equations(r, was, live)
      BY <2>5
    <3> QED
      BY <1>s, <1>u, <1>10, <1>12, <2>6, <3>1, <3>3, <3>4, <3>5
  <2>7. CASE r.key # <<>>
    <3>1. append_update_statement(d) = append_update_statement_key_change(d)
      BY <1>5, <1>7, <1>9, <2>1, <2>7 DEF append_update_statement
    <3>2. WhereOf(r) = keys /\ keys \subseteq live
      BY <1>7, <2>7 DEF WhereOf
    <3>3. append_update_statement_key_change(d)
            = Update(d, append_values(d, new, live), append_values(d, old, keys))
      BY <1>6, <2>4, <3>2 DEF append_update_statement_key_change
    <3>4. append_values(d, new, live) = Equations(r, row, live)
      BY <1>8
    <3>5. append_values(d, old, keys) = Equations(r, was, keys)
      BY <2>5, <3>2
    <3> QED
      BY <1>s, <1>u, <1>10, <1>12, <2>7, <3>1, <3>3, <3>4, <3>5
  <2> QED
    BY <2>6, <2>7
<1> QED
  BY <1>11, <1>12

(* The statement of any change.                                            *)
LEMMA StatementIs ==
  ASSUME NEW r \in Relations, NEW c, NEW d, Understood(d, r, c), Logged(c), HasRows(r, c)
  PROVE  out_put_tuple_to_sql(d) = StatementOf(r, c)
BY InsertIs, DeleteIs, UpdateIs DEF Logged, RowActions

-----------------------------------------------------------------------------
(* Part 6: what the equations of a row do at the target.  They are         *)
(* sound if the target reads each of their literals, and none of them is   *)
(* the null pointer.                                                       *)
Sound(row, cols) ==
  \A i \in cols :
    /\ LiteralOf(rel, row, i) # NullPtr
    /\ LiteralOf(rel, row, i) # Null => IsLiteral(LiteralOf(rel, row, i))

Kept(v) == IF v = External THEN Null ELSE v

(* The target has another name for every column.                           *)
LEMMA ColumnsDiffer ==
  ASSUME NEW i, NEW j, Column(i) = Column(j)
  PROVE  i = j
<1>1. Column(i).att = i /\ Column(j).att = j
  BY DEF Column, QuotedName
<1> QED
  BY <1>1

(* It reads of the literal of a column what the row has there.             *)
LEMMA ReadsBack ==
  ASSUME rel \in Relations, NEW row, RowLike(rel, row), NEW i \in Live(rel),
         NEW l, l = LiteralOf(rel, row, i), l # NullPtr, l # Null => IsLiteral(l)
  PROVE  /\ l = Null <=> row[i] \in {Null, External}
         /\ Read(l) = Kept(row[i])
<1>1. CASE row[i] = Null
  BY <1>1 DEF LiteralOf, Read, Kept
<1>2. CASE row[i] = External
  BY <1>2 DEF LiteralOf, Read, Kept
<1>3. CASE row[i] \notin {Null, External}
  <2> DEFINE text == row[i]
             type == rel.type[i]
  <2>1. text \in Texts /\ (type \in Raw \union Dated => Quote \notin ToSet(text))
    BY <1>3, ColumnKinds
  <2>2. l = quote_literal_local(text, type)
    BY <1>3 DEF LiteralOf
  <2> HIDE DEF text, type
  <2>3. l \in Texts /\ (IsLiteral(l) => TextOf(l) = text)
    BY <2>1, <2>2, LiteralIsRead
  <2>4. l # Null
    BY <2>3, ValuesAssumption
  <2> QED
    BY <1>3, <2>3, <2>4 DEF Read, Kept, text
<1> QED
  BY <1>1, <1>2, <1>3

(* A value other than an unchanged one can be written, in a column of      *)
(* numbers if it is one.                                                   *)
LEMMA ValueIsSound ==
  ASSUME rel \in Relations, NEW row, RowLike(rel, row), NEW i \in Live(rel),
         row[i] # External, rel.type[i] \in Raw /\ row[i] # Null => IsNumber(row[i]),
         NEW l, l = LiteralOf(rel, row, i)
  PROVE  l # NullPtr /\ (l # Null => IsLiteral(l))
<1>1. CASE row[i] = Null
  BY <1>1, ValuesAssumption DEF LiteralOf
<1>2. CASE row[i] # Null
  <2> DEFINE text == row[i]
             type == rel.type[i]
  <2>1. text \in Texts /\ (type \in Raw \union Dated => Quote \notin ToSet(text))
    BY <1>2, ColumnKinds
  <2>2. l = quote_literal_local(text, type) /\ (type \in Raw => IsNumber(text))
    BY <1>2 DEF LiteralOf
  <2> HIDE DEF text, type
  <2>3. l \in Texts /\ (type \notin Raw \/ IsNumber(text) => IsLiteral(l))
    BY <2>1, <2>2, LiteralIsRead
  <2> QED
    BY <2>2, <2>3, ValuesAssumption
<1> QED
  BY <1>1, <1>2

(* A WHERE finds the rows that have the same values, none of them null.    *)
LEMMA WhereFinds ==
  ASSUME rel \in Relations, NEW row, RowLike(rel, row), NEW cols \in SUBSET Live(rel),
         Sound(row, cols), NEW t
  PROVE  Matches(t, Equations(rel, row, cols)) <=>
           \A i \in cols :
             row[i] \notin {Null, External} /\ t[i] = row[i] /\ ~Rounded(i, row[i])
<1> DEFINE l(i) == LiteralOf(rel, row, i)
           W == Equations(rel, row, cols)
<1>1. ASSUME NEW i \in cols
      PROVE  (l(i) = Null <=> row[i] \in {Null, External}) /\ Read(l(i)) = Kept(row[i])
  BY ReadsBack DEF Sound
<1>2. W = {<<Column(i), l(i)>> : i \in cols}
  BY DEF Equations, Column
<1> HIDE DEF l
<1>3. Matches(t, W) <=>
        \A i \in cols : l(i) # Null /\ \E j \in Live(rel) : Column(j) = Column(i) /\ IsAs(t, j, l(i))
  <2> HIDE DEF W
  <2>1. ASSUME NEW i \in cols PROVE <<Column(i), l(i)>> \in W
    BY <1>2
  <2>2. ASSUME NEW e \in W PROVE \E i \in cols : e[1] = Column(i) /\ e[2] = l(i)
    BY <1>2
  <2>3. ASSUME Matches(t, W), NEW i \in cols
        PROVE  l(i) # Null /\ \E j \in Live(rel) : Column(j) = Column(i) /\ IsAs(t, j, l(i))
    <3> DEFINE e == <<Column(i), l(i)>>
    <3>1. e \in W /\ e[1] = Column(i) /\ e[2] = l(i)
      BY <2>1
    <3> HIDE DEF e
    <3> QED
      BY <2>3, <3>1 DEF Matches
  <2>4. ASSUME \A i \in cols : l(i) # Null /\ \E j \in Live(rel) : Column(j) = Column(i) /\ IsAs(t, j, l(i))
        PROVE  Matches(t, W)
    <3>1. ASSUME NEW e \in W
          PROVE  e[2] # Null /\ \E j \in Live(rel) : Column(j) = e[1] /\ IsAs(t, j, e[2])
      <4>1. PICK i \in cols : e[1] = Column(i) /\ e[2] = l(i)
        BY <2>2
      <4> QED
        BY <2>4, <4>1
    <3> QED
      BY <3>1 DEF Matches
  <2> QED
    BY <2>3, <2>4
<1> HIDE DEF W
<1>4. ASSUME NEW i \in cols
      PROVE  (\E j \in Live(rel) : Column(j) = Column(i) /\ IsAs(t, j, l(i)))
               <=> t[i] = Kept(row[i]) /\ ~Rounded(i, t[i])
  <2>1. i \in Live(rel)
    OBVIOUS
  <2>2. ASSUME NEW j \in Live(rel), Column(j) = Column(i) PROVE j = i
    BY <2>2, ColumnsDiffer
  <2> QED
    BY <1>1, <2>1, <2>2 DEF IsAs
<1>5. ASSUME NEW i \in cols
      PROVE  /\ l(i) # Null
             /\ \E j \in Live(rel) : Column(j) = Column(i) /\ IsAs(t, j, l(i))
             <=> row[i] \notin {Null, External} /\ t[i] = row[i] /\ ~Rounded(i, row[i])
  <2>1. CASE l(i) = Null
    BY <1>1, <2>1
  <2>2. CASE l(i) # Null
    <3>1. row[i] \notin {Null, External} /\ Kept(row[i]) = row[i]
      BY <1>1, <2>2 DEF Kept
    <3> QED
      BY <1>4, <2>2, <3>1
  <2> QED
    BY <2>1, <2>2
<1> QED
  BY <1>3, <1>5 DEF W

(* A row after its columns were set.                                       *)
Assigned(t, row, cols) ==
  [i \in 1 .. rel.natt |-> IF i \in cols THEN Kept(row[i]) ELSE t[i]]

(* SET and VALUES set the columns they name.                               *)
LEMMA SetAssigns ==
  ASSUME rel \in Relations, NEW row, RowLike(rel, row), NEW cols \in SUBSET Live(rel),
         Sound(row, cols), NEW t
  PROVE  Assign(t, Equations(rel, row, cols)) = Assigned(t, row, cols)
<1> DEFINE l(i) == LiteralOf(rel, row, i)
           W == Equations(rel, row, cols)
           OfColumn(i) == CHOOSE e \in W : e[1] = Column(i)
<1>1. ASSUME NEW i \in cols
      PROVE  Read(l(i)) = Kept(row[i])
  BY ReadsBack DEF Sound
<1>2. W = {<<Column(i), l(i)>> : i \in cols}
  BY DEF Equations, Column
<1> HIDE DEF l, W
<1>3. ASSUME NEW i PROVE (\E e \in W : e[1] = Column(i)) <=> i \in cols
  <2>1. ASSUME NEW e \in W, e[1] = Column(i) PROVE i \in cols
    <3>1. PICK j \in cols : e = <<Column(j), l(j)>>
      BY <1>2
    <3>2. Column(i) = Column(j)
      BY <2>1, <3>1
    <3> QED
      BY <3>2, ColumnsDiffer
  <2>2. ASSUME i \in cols PROVE \E e \in W : e[1] = Column(i)
    <3> DEFINE e == <<Column(i), l(i)>>
    <3>1. e \in W /\ e[1] = Column(i)
      BY <1>2, <2>2
    <3> HIDE DEF e
    <3> QED
      BY <3>1
  <2> QED
    BY <2>1, <2>2
<1>4. ASSUME NEW i \in cols PROVE OfColumn(i)[2] = l(i)
  <2>1. OfColumn(i) \in W /\ OfColumn(i)[1] = Column(i)
    BY <1>3
  <2> HIDE DEF OfColumn
  <2>2. PICK j \in cols : OfColumn(i) = <<Column(j), l(j)>>
    BY <1>2, <2>1
  <2>3. Column(i) = Column(j)
    BY <2>1, <2>2
  <2>4. i = j
    BY <2>3, ColumnsDiffer
  <2> QED
    BY <2>2, <2>4
<1>5. Assign(t, W) = [i \in 1 .. rel.natt |-> IF \E e \in W : e[1] = Column(i)
                                              THEN Read(OfColumn(i)[2]) ELSE t[i]]
  BY DEF Assign
<1> HIDE DEF OfColumn
<1>6. ASSUME NEW i \in 1 .. rel.natt
      PROVE  (IF \E e \in W : e[1] = Column(i) THEN Read(OfColumn(i)[2]) ELSE t[i])
               = IF i \in cols THEN Kept(row[i]) ELSE t[i]
  <2>1. CASE i \in cols
    BY <1>1, <1>3, <1>4, <2>1
  <2>2. CASE i \notin cols
    BY <1>3, <2>2
  <2> QED
    BY <2>1, <2>2
<1> QED
  BY <1>5, <1>6 DEF Assigned, W

(* The literals of a statement are those of its equations.                 *)
LEMMA LiteralsAre ==
  ASSUME NEW s, NEW row, NEW cols, NEW row2, NEW cols2,
         s.set = Equations(rel, row, cols), s.where = Equations(rel, row2, cols2)
  PROVE  /\ ~UsesNullPtr(s) /\ (\A l \in LiteralsOf(s) : l # Null => IsLiteral(l))
              <=> Sound(row, cols) /\ Sound(row2, cols2)
         /\ s.set = {} <=> cols = {}
         /\ s.where = {} <=> cols2 = {}
<1> DEFINE L == {LiteralOf(rel, row, i) : i \in cols}
           L2 == {LiteralOf(rel, row2, i) : i \in cols2}
<1>1. ASSUME NEW f, NEW S
      PROVE  {e[2] : e \in Equations(rel, f, S)} = {LiteralOf(rel, f, i) : i \in S}
  <2> DEFINE E == Equations(rel, f, S)
             l(i) == LiteralOf(rel, f, i)
             n(i) == QuotedName(rel, i)
  <2>1. E = {<<n(i), l(i)>> : i \in S}
    BY DEF Equations
  <2> HIDE DEF E, l, n
  <2>2. ASSUME NEW e \in E PROVE e[2] \in {l(i) : i \in S}
    BY <2>1
  <2>3. ASSUME NEW i \in S PROVE l(i) \in {e[2] : e \in E}
    <3> DEFINE e == <<n(i), l(i)>>
    <3>1. e \in E /\ e[2] = l(i)
      BY <2>1
    <3> HIDE DEF e
    <3> QED
      BY <3>1
  <2>4. {e[2] : e \in E} = {l(i) : i \in S}
    BY <2>2, <2>3
  <2> QED
    BY <2>4 DEF E, l
<1>2. LiteralsOf(s) = L \union L2
  <2>1. LiteralsOf(s) = {e[2] : e \in s.set} \union {e[2] : e \in s.where}
    BY DEF LiteralsOf
  <2> QED
    BY <1>1, <2>1
<1>3. NullPtr \notin L /\ (\A l \in L : l # Null => IsLiteral(l)) <=> Sound(row, cols)
  BY DEF Sound
<1>4. NullPtr \notin L2 /\ (\A l \in L2 : l # Null => IsLiteral(l)) <=> Sound(row2, cols2)
  BY DEF Sound
<1> HIDE DEF L, L2
<1>5. /\ s.set = {} <=> cols = {}
      /\ s.where = {} <=> cols2 = {}
  <2>1. ASSUME NEW f, NEW S PROVE Equations(rel, f, S) = {} <=> S = {}
    <3> DEFINE E == Equations(rel, f, S)
               e(i) == <<QuotedName(rel, i), LiteralOf(rel, f, i)>>
    <3>1. E = {e(i) : i \in S}
      BY DEF Equations
    <3> HIDE DEF E, e
    <3>2. E = {} <=> S = {}
      BY <3>1
    <3> QED
      BY <3>2 DEF E
  <2> QED
    BY <2>1
<1> QED
  BY <1>2, <1>3, <1>4, <1>5 DEF UsesNullPtr

-----------------------------------------------------------------------------
(* Part 7: rows and tables.  What a row has in a column.                   *)
LEMMA RowHas ==
  ASSUME rel \in Relations, NEW f \in Row
  PROVE  /\ DOMAIN f = 1 .. rel.natt /\ f = [i \in 1 .. rel.natt |-> f[i]]
         /\ \A i \in 1 .. rel.natt : f[i] \in Content(i)
         /\ \A i \in 1 .. rel.natt : i \notin Live(rel) => f[i] = Null
         /\ \A i \in Live(rel) : i \in Range(rel.key) => f[i] # Null
         /\ \A i \in Live(rel) : f[i] # External
         /\ RowLike(rel, f)
<1>1. DOMAIN f = 1 .. rel.natt /\ f = [i \in 1 .. rel.natt |-> f[i]]
  BY DEF Row
<1>2. \A i \in 1 .. rel.natt : f[i] \in Content(i)
  BY DEF Row
<1>3. \A i \in 1 .. rel.natt : i \notin Live(rel) => f[i] = Null
  BY <1>2 DEF Content, Live
<1>4. ASSUME NEW i \in Live(rel)
      PROVE  /\ f[i] \in Values[rel.type[i]] \union {Null} /\ f[i] # External
             /\ i \in Range(rel.key) => f[i] # Null
  <2>1. i \in 1 .. rel.natt /\ i \notin rel.dropped
    BY DEF Live
  <2>2. f[i] \in Content(i) /\ rel.type[i] \in DOMAIN Values
    BY <1>2, <2>1
  <2>3. Values[rel.type[i]] \subseteq Texts /\ Null \notin Texts /\ External \notin Texts
    BY <2>2, ValuesAssumption
  <2> QED
    BY <2>1, <2>2, <2>3 DEF Content
<1> QED
  BY <1>1, <1>2, <1>3, <1>4 DEF RowLike

(* A function that has a row's values is one.                              *)
LEMMA RowIs ==
  ASSUME NEW f, f = [i \in 1 .. rel.natt |-> f[i]],
         \A i \in 1 .. rel.natt : f[i] \in Content(i)
  PROVE  f \in Row
<1>1. f \in [1 .. rel.natt -> UNION {Content(i) : i \in 1 .. rel.natt}]
  <2> DEFINE U == UNION {Content(i) : i \in 1 .. rel.natt}
  <2>1. \A i \in 1 .. rel.natt : f[i] \in U
    OBVIOUS
  <2> HIDE DEF U
  <2> QED
    BY <2>1
<1> QED
  BY <1>1 DEF Row

(* Rows with the same live columns are the same.                           *)
LEMMA SameRow ==
  ASSUME rel \in Relations, NEW f \in Row, NEW g \in Row, \A i \in Live(rel) : f[i] = g[i]
  PROVE  f = g
<1>1. /\ f = [i \in 1 .. rel.natt |-> f[i]] /\ g = [i \in 1 .. rel.natt |-> g[i]]
      /\ \A i \in 1 .. rel.natt : i \notin Live(rel) => f[i] = Null /\ g[i] = Null
  BY RowHas
<1>2. \A i \in 1 .. rel.natt : f[i] = g[i]
  BY <1>1
<1> QED
  BY <1>1, <1>2

(* No row looks like a free slot.                                          *)
LEMMA RowIsThere ==
  ASSUME rel \in Relations, NEW f \in Row
  PROVE  f # Absent
<1> DEFINE U == {Null} \union (UNION {Values[type] : type \in DOMAIN Values})
           n == rel.natt
<1>0. Null \in U /\ \A type \in DOMAIN Values : Values[type] \subseteq U
  <2>1. ASSUME NEW type \in DOMAIN Values, NEW text \in Values[type] PROVE text \in U
    OBVIOUS
  <2>2. Null \in U
    OBVIOUS
  <2> HIDE DEF U
  <2> QED
    BY <2>1, <2>2
<1> HIDE DEF U
<1>1. ASSUME NEW i \in 1 .. n PROVE f[i] \in U
  <2>1. CASE i \in Live(rel)
    <3>1. f[i] \in Values[rel.type[i]] \union {Null} /\ rel.type[i] \in DOMAIN Values
      BY <2>1, RowHas DEF RowLike
    <3> QED
      BY <1>0, <3>1
  <2>2. CASE i \notin Live(rel)
    BY <1>0, <2>2, RowHas
  <2> QED
    BY <2>1, <2>2
<1>2. n \in 1 .. MaxAtt /\ f = [i \in 1 .. n |-> f[i]]
  BY RowHas
<1>3. Absent \notin [1 .. n -> U]
  BY <1>2, AbsentAssumption DEF U
<1> HIDE DEF n
<1> QED
  BY <1>1, <1>2, <1>3

(* A key is that of a row if the row has its columns.                      *)
LEMMA KeyHas ==
  ASSUME rel \in Relations
  PROVE  /\ Range(rel.key) \subseteq Live(rel)
         /\ Range(rel.key) = {} <=> rel.key = <<>>
         /\ \A f, g : KeyOf(f) = KeyOf(g) <=> \A i \in Range(rel.key) : f[i] = g[i]
<1>1. rel.key \in Seq(Live(rel)) /\ Len(rel.key) \in Nat /\ DOMAIN rel.key = 1 .. Len(rel.key)
  BY LenProperties
<1>2. Range(rel.key) \subseteq Live(rel)
  BY <1>1 DEF Range
<1>3. Range(rel.key) = {} <=> rel.key = <<>>
  <2>1. CASE rel.key = <<>>
    BY <2>1 DEF Range
  <2>2. CASE rel.key # <<>>
    <3>1. 1 \in DOMAIN rel.key
      BY <1>1, <2>2, EmptySeq
    <3> QED
      BY <2>2, <3>1 DEF Range
  <2> QED
    BY <2>1, <2>2
<1>4. ASSUME NEW f, NEW g
      PROVE  KeyOf(f) = KeyOf(g) <=> \A i \in Range(rel.key) : f[i] = g[i]
  <2> DEFINE k == rel.key
  <2>1. KeyOf(f) = KeyOf(g) <=> \A j \in DOMAIN k : f[k[j]] = g[k[j]]
    <3>1. KeyOf(f) = [j \in DOMAIN k |-> f[k[j]]] /\ KeyOf(g) = [j \in DOMAIN k |-> g[k[j]]]
      BY DEF KeyOf
    <3> HIDE DEF k
    <3>2. ASSUME KeyOf(f) = KeyOf(g), NEW j \in DOMAIN k PROVE f[k[j]] = g[k[j]]
      <4>1. KeyOf(f)[j] = f[k[j]] /\ KeyOf(g)[j] = g[k[j]]
        BY <3>1
      <4> QED
        BY <3>2, <4>1
    <3>3. ASSUME \A j \in DOMAIN k : f[k[j]] = g[k[j]] PROVE KeyOf(f) = KeyOf(g)
      BY <3>1, <3>3
    <3> QED
      BY <3>2, <3>3
  <2>2. Range(k) = {k[j] : j \in DOMAIN k}
    BY DEF Range
  <2> HIDE DEF k
  <2>3. (\A i \in Range(k) : f[i] = g[i]) <=> \A j \in DOMAIN k : f[k[j]] = g[k[j]]
    BY <2>2
  <2> QED
    BY <2>1, <2>3 DEF k
<1> QED
  BY <1>2, <1>3, <1>4

-----------------------------------------------------------------------------
(* Part 8: the statement of what the source has executed.  The             *)
(* tables differ by the row that was changed, and the WAL has what it logs *)
(* of it.                                                                  *)
Executed ==
  /\ rel \in Relations /\ source \in Table /\ target \in Table
  /\ IsRowChange /\ change.slot \in Slot /\ change.was = target[change.slot]
  /\ source = [target EXCEPT ![change.slot] = change.row]
  /\ change.action = "I" =>
       change.was = Absent /\ change.row \in Row /\ change.old = <<>> /\ change.new = change.row
  /\ change.action = "U" =>
       /\ change.was \in Row /\ change.row \in Row
       /\ change.old = LoggedOld(change.was, change.row)
       /\ change.new = LoggedNew(change.was, change.row)
  /\ change.action = "D" =>
       /\ change.was \in Row /\ change.row = Absent
       /\ change.old = LoggedOld(change.was, Absent) /\ change.new = <<>>

(* What the WAL has of the old row,                                        *)
OldIs(old, was, stays) ==
  /\ rel.full => old = was
  /\ ~rel.full /\ (rel.key = <<>> \/ stays) => old = <<>>
  /\ ~rel.full /\ rel.key # <<>> /\ ~stays =>
       old # <<>> /\ \A i \in Range(rel.key) : old[i] = was[i]
  /\ old # <<>> => RowLike(rel, old) /\ \A i \in Live(rel) : old[i] # External

(* is what LoggedOld makes;                                                *)
LEMMA OldHas ==
  ASSUME rel \in Relations, NEW was \in Row, NEW row
  PROVE  OldIs(LoggedOld(was, row), was, row # Absent /\ KeyOf(was) = KeyOf(row))
<1> DEFINE old == LoggedOld(was, row)
           stays == row # Absent /\ KeyOf(was) = KeyOf(row)
           part == [i \in 1 .. rel.natt |-> IF i \in Range(rel.key) THEN was[i] ELSE Null]
<1>1. /\ RowLike(rel, was) /\ \A i \in Live(rel) : was[i] # External
  BY RowHas
<1>2. old = IF rel.full THEN was ELSE IF rel.key = <<>> \/ stays THEN <<>> ELSE part
  BY DEF LoggedOld
<1>3. part # <<>>
  <2>1. DOMAIN part = 1 .. rel.natt /\ rel.natt \in Nat \ {0}
    OBVIOUS
  <2> HIDE DEF part
  <2> QED
    BY <2>1, RowIsNoEmpty
<1>4. Live(rel) \subseteq 1 .. rel.natt /\ Range(rel.key) \subseteq Live(rel)
  BY KeyHas DEF Live
<1>5. \A i \in Live(rel) : part[i] = IF i \in Range(rel.key) THEN was[i] ELSE Null
  BY <1>4
<1> HIDE DEF part, old, stays
<1>6. RowLike(rel, part) /\ \A i \in Live(rel) : part[i] # External
  BY <1>1, <1>5 DEF RowLike
<1>7. \A i \in Range(rel.key) : part[i] = was[i]
  BY <1>4, <1>5
<1>8. rel.full => rel.key = <<>>
  OBVIOUS
<1>9. OldIs(old, was, stays)
  BY <1>1, <1>2, <1>3, <1>6, <1>7, <1>8 DEF OldIs
<1> QED
  BY <1>9 DEF old, stays

(* and of the new one.                                                     *)
NewIs(new, was, row) ==
  /\ new # <<>> /\ RowLike(rel, new)
  /\ \A i \in Live(rel) : new[i] # External => new[i] = row[i]
  /\ \A i \in Live(rel) : new[i] = External => i \in rel.toasted /\ row[i] = was[i]
  /\ \A i \in Range(rel.key) : new[i] = row[i]

(* is what LoggedNew makes.                                                *)
LEMMA NewHas ==
  ASSUME rel \in Relations, NEW was \in Row, NEW row \in Row
  PROVE  NewIs(LoggedNew(was, row), was, row)
<1> DEFINE new == LoggedNew(was, row)
<1>1. RowLike(rel, row) /\ \A i \in Live(rel) : row[i] # External
  BY RowHas
<1>2. DOMAIN new = 1 .. rel.natt /\ rel.natt \in Nat \ {0}
  BY DEF LoggedNew
<1>3. ASSUME NEW i \in Live(rel)
      PROVE  new[i] = IF i \in rel.toasted /\ row[i] # Null /\ was[i] = row[i]
                      THEN External ELSE row[i]
  <2>1. i \in 1 .. rel.natt
    BY DEF Live
  <2> QED
    BY <2>1 DEF LoggedNew
<1> HIDE DEF new
<1>4. new # <<>>
  BY <1>2, RowIsNoEmpty
<1>5. RowLike(rel, new)
  BY <1>1, <1>3 DEF RowLike
<1>6. \A i \in Live(rel) : new[i] # External => new[i] = row[i]
  BY <1>3
<1>7. \A i \in Live(rel) : new[i] = External => i \in rel.toasted /\ row[i] = was[i]
  BY <1>1, <1>3
<1>8. \A i \in Range(rel.key) : new[i] = row[i]
  <2>1. Range(rel.key) \subseteq Live(rel) /\ rel.toasted \subseteq Live(rel) \ Range(rel.key)
    BY KeyHas
  <2> QED
    BY <1>3, <2>1
<1>9. NewIs(new, was, row)
  BY <1>4, <1>5, <1>6, <1>7, <1>8 DEF NewIs
<1> QED
  BY <1>9 DEF new

(* Equations are the same if the rows are, where they look.                *)
LEMMA SameEquations ==
  ASSUME NEW f, NEW g, NEW cols, \A i \in cols : f[i] = g[i]
  PROVE  Equations(rel, f, cols) = Equations(rel, g, cols)
<1> DEFINE n(i) == QuotedName(rel, i)
           l(i) == LiteralOf(rel, f, i)
           k(i) == LiteralOf(rel, g, i)
<1>1. ASSUME NEW i \in cols PROVE l(i) = k(i)
  BY DEF LiteralOf
<1>2. /\ Equations(rel, f, cols) = {<<n(i), l(i)>> : i \in cols}
      /\ Equations(rel, g, cols) = {<<n(i), k(i)>> : i \in cols}
  BY DEF Equations
<1> HIDE DEF n, l, k
<1>3. {<<n(i), l(i)>> : i \in cols} = {<<n(i), k(i)>> : i \in cols}
  BY <1>1
<1> QED
  BY <1>2, <1>3

(* The columns that the statement sets, and those it looks at.             *)
SetColumns ==
  CASE change.action = "I" -> Live(rel)
    [] change.action = "D" -> {}
    [] change.action = "U" ->
         IF rel.key = <<>> THEN {i \in Live(rel) : Differs(change.was, change.new, i)}
         ELSE IF KeyStays THEN Live(rel) \ KeyColumns(rel)
         ELSE Live(rel)

SoughtColumns == IF change.action = "I" THEN {} ELSE WhereOf(rel)

(* Whatever the kind of change and of identity, it is one that sets these  *)
(* columns to what is logged where those are as they were, or none.        *)
StatementSays(s) ==
  IF change.action # "I" /\ ~Subscribable THEN s.verb = ""
  ELSE /\ s.verb = CASE change.action = "I" -> "INSERT" [] change.action = "U" -> "UPDATE"
                     [] change.action = "D" -> "DELETE"
       /\ s.table = [mixed |-> rel.mixed]
       /\ s.set = Equations(rel, change.new, SetColumns)
       /\ s.where = Equations(rel, change.was, SoughtColumns)
       /\ change.action = "I" => s.commas = Cardinality(Live(rel) \ {rel.natt})

(* No columns have no equations.                                           *)
LEMMA NoEquations ==
  ASSUME NEW f
  PROVE  Equations(rel, f, {}) = {}
BY DEF Equations

(* StatementOf is such a statement of what was executed.                   *)
LEMMA StatementHas ==
  ASSUME Executed
  PROVE  StatementSays(StatementOf(rel, change))
<1> DEFINE s == StatementOf(rel, change)
           was == change.was
           row == change.row
           old == change.old
           new == change.new
<1>0. rel \in Relations /\ change.action \in {"I", "U", "D"}
  BY DEF Executed, IsRowChange, RowActions
<1>1. CASE change.action = "I"
  <2>1. s = [verb |-> "INSERT", table |-> [mixed |-> rel.mixed],
             set |-> Equations(rel, new, Live(rel)), where |-> {},
             commas |-> Cardinality(Live(rel) \ {rel.natt})]
    BY <1>1 DEF StatementOf
  <2>2. SetColumns = Live(rel) /\ SoughtColumns = {}
    BY <1>1 DEF SetColumns, SoughtColumns
  <2> HIDE DEF s
  <2>3. Equations(rel, was, SoughtColumns) = {}
    BY <2>2, NoEquations
  <2>4. StatementSays(s)
    BY <1>1, <2>1, <2>2, <2>3 DEF StatementSays
  <2> QED
    BY <2>4 DEF s
<1>2. ASSUME change.action \in {"U", "D"}
      PROVE  /\ was \in Row /\ OldIs(old, was, change.action = "U" /\ KeyStays)
             /\ RowLike(rel, was) /\ was # <<>>
  <2>1. was \in Row /\ old = LoggedOld(was, row) /\ (row # Absent <=> change.action = "U")
    BY <1>2, <1>0, RowIsThere DEF Executed
  <2>2. OldIs(old, was, row # Absent /\ KeyOf(was) = KeyOf(row))
    BY <1>0, <2>1, OldHas
  <2>3. (row # Absent /\ KeyOf(was) = KeyOf(row)) <=> (change.action = "U" /\ KeyStays)
    BY <2>1 DEF KeyStays
  <2>4. DOMAIN was = 1 .. rel.natt /\ RowLike(rel, was)
    BY <1>0, <2>1, RowHas
  <2>5. rel.natt \in Nat \ {0}
    BY <1>0
  <2>6. was # <<>>
    BY <2>4, <2>5, RowIsNoEmpty
  <2> QED
    BY <2>1, <2>2, <2>3, <2>4, <2>6 DEF OldIs
<1>3. KeyColumns(rel) \subseteq Range(rel.key) /\ (rel.full => rel.key = <<>>)
  BY <1>0 DEF KeyColumns
<1> HIDE DEF was, row, old, new
<1>4. CASE change.action = "D"
  <2>1. s = IF old = <<>> THEN Nothing
            ELSE [verb |-> "DELETE", table |-> [mixed |-> rel.mixed], set |-> {}, commas |-> 0,
                  where |-> Equations(rel, old, WhereOf(rel))]
    BY <1>4 DEF StatementOf, old
  <2>2. SetColumns = {} /\ SoughtColumns = WhereOf(rel)
    BY <1>4 DEF SetColumns, SoughtColumns
  <2> HIDE DEF s
  <2>3. CASE ~Subscribable
    <3>1. old = <<>>
      BY <1>2, <1>4, <2>3 DEF OldIs, Subscribable
    <3>2. s.verb = ""
      BY <2>1, <3>1 DEF Nothing
    <3> QED
      BY <1>4, <2>3, <3>2 DEF StatementSays, s
  <2>4. CASE Subscribable
    <3>1. old # <<>> /\ \A i \in WhereOf(rel) : old[i] = was[i]
      BY <1>2, <1>3, <1>4, <2>4 DEF OldIs, Subscribable, WhereOf
    <3>2. Equations(rel, old, WhereOf(rel)) = Equations(rel, was, WhereOf(rel))
      BY <3>1, SameEquations
    <3>3. Equations(rel, new, SetColumns) = {}
      BY <2>2, NoEquations
    <3>4. StatementSays(s)
      BY <1>4, <2>1, <2>2, <2>4, <3>1, <3>2, <3>3 DEF StatementSays, was, new
    <3> QED
      BY <3>4 DEF s
  <2> QED
    BY <2>3, <2>4
<1>5. CASE change.action = "U"
  <2>0. NewIs(new, was, row)
    BY <1>0, <1>5, NewHas DEF Executed, was, row, new
  <2>1. s = IF rel.key = <<>>
            THEN IF old = <<>> THEN Nothing
                 ELSE UpdateOf(rel, Equations(rel, new, {i \in Live(rel) : Differs(old, new, i)}),
                               Equations(rel, old, Live(rel)))
            ELSE IF old = <<>>
                 THEN UpdateOf(rel, Equations(rel, new, Live(rel) \ KeyColumns(rel)),
                               Equations(rel, new, KeyColumns(rel)))
                 ELSE UpdateOf(rel, Equations(rel, new, Live(rel)),
                               Equations(rel, old, KeyColumns(rel)))
    BY <1>5 DEF StatementOf, old, new
  <2>2. /\ SetColumns = IF rel.key = <<>> THEN {i \in Live(rel) : Differs(was, new, i)}
                        ELSE IF KeyStays THEN Live(rel) \ KeyColumns(rel) ELSE Live(rel)
        /\ SoughtColumns = WhereOf(rel)
    BY <1>5 DEF SetColumns, SoughtColumns, was, new
  <2> HIDE DEF s
  <2>3. CASE ~Subscribable
    <3>1. old = <<>> /\ rel.key = <<>>
      BY <1>2, <1>5, <2>3 DEF OldIs, Subscribable
    <3>2. s.verb = ""
      BY <2>1, <3>1 DEF Nothing
    <3> QED
      BY <1>5, <2>3, <3>2 DEF StatementSays, s
  <2>4. CASE Subscribable
    <3>1. s = UpdateOf(rel, Equations(rel, new, SetColumns), Equations(rel, was, WhereOf(rel)))
      <4>1. CASE rel.full
        <5>1. old = was /\ was # <<>> /\ rel.key = <<>>
          BY <1>2, <1>3, <1>5, <4>1 DEF OldIs
        <5> QED
          BY <2>1, <2>2, <5>1 DEF WhereOf
      <4>2. CASE ~rel.full /\ KeyStays
        <5>1. rel.key # <<>> /\ old = <<>>
          BY <1>2, <1>5, <2>4, <4>2 DEF OldIs, Subscribable
        <5>2. \A i \in KeyColumns(rel) : new[i] = was[i]
          <6>1. \A i \in Range(rel.key) : was[i] = row[i]
            BY <1>0, <4>2, KeyHas DEF KeyStays, was, row
          <6> QED
            BY <1>3, <2>0, <6>1 DEF NewIs
        <5>3. Equations(rel, new, KeyColumns(rel)) = Equations(rel, was, KeyColumns(rel))
          BY <5>2, SameEquations
        <5> QED
          BY <2>1, <2>2, <4>2, <5>1, <5>3 DEF WhereOf
      <4>3. CASE ~rel.full /\ ~KeyStays
        <5>1. rel.key # <<>> /\ old # <<>> /\ \A i \in Range(rel.key) : old[i] = was[i]
          BY <1>2, <1>5, <2>4, <4>3 DEF OldIs, Subscribable
        <5>2. Equations(rel, old, KeyColumns(rel)) = Equations(rel, was, KeyColumns(rel))
          BY <1>3, <5>1, SameEquations
        <5> QED
          BY <2>1, <2>2, <4>3, <5>1, <5>2 DEF WhereOf
      <4> QED
        BY <4>1, <4>2, <4>3
    <3>2. StatementSays(s)
      BY <1>5, <2>2, <2>4, <3>1 DEF StatementSays, UpdateOf, was, new
    <3> QED
      BY <3>2 DEF s
  <2> QED
    BY <2>3, <2>4
<1> QED
  BY <1>0, <1>1, <1>4, <1>5

-----------------------------------------------------------------------------
(* Part 9: what the statement does at the target.                          *)
Spoken(s) == StatementSays(s) /\ ~UsesNullPtr(s) /\ WellFormed(s)

(* One that the target executes has equations it can read, and looks for   *)
(* something.                                                              *)
LEMMA SpokenIs ==
  ASSUME Executed, NEW s, Spoken(s)
  PROVE  /\ change.action = "I" \/ Subscribable
         /\ Sound(change.new, SetColumns) /\ Sound(change.was, SoughtColumns)
         /\ change.action # "I" => SoughtColumns # {}
<1> DEFINE new == change.new
           was == change.was
           set == SetColumns
           sought == SoughtColumns
<1>1. change.action \in {"I", "U", "D"}
  BY DEF Executed, IsRowChange, RowActions
<1>2. change.action = "I" \/ Subscribable
  BY DEF Spoken, StatementSays, WellFormed
<1>3. /\ s.verb = CASE change.action = "I" -> "INSERT" [] change.action = "U" -> "UPDATE"
                    [] change.action = "D" -> "DELETE"
      /\ s.set = Equations(rel, new, set) /\ s.where = Equations(rel, was, sought)
  BY <1>2 DEF Spoken, StatementSays
<1>4. ~UsesNullPtr(s) /\ (\A l \in LiteralsOf(s) : l # Null => IsLiteral(l))
  BY DEF Spoken, WellFormed
<1> HIDE DEF new, was, set, sought
<1>5. Sound(new, set) /\ Sound(was, sought)
  BY <1>3, <1>4, LiteralsAre
<1>6. s.where = {} <=> sought = {}
  BY ZenonT(60), <1>3, LiteralsAre
<1>7. change.action # "I" => s.where # {}
  BY <1>1, <1>3 DEF Spoken, WellFormed
<1> QED
  BY <1>2, <1>5, <1>6, <1>7 DEF new, was, set, sought

(* The rows it looks at, and what the change has of them.                  *)
LEMMA ColumnsAre ==
  ASSUME Executed
  PROVE  /\ SetColumns \subseteq Live(rel) /\ SoughtColumns \subseteq Live(rel)
         /\ change.action # "D" => RowLike(rel, change.new)
         /\ change.action # "I" => RowLike(rel, change.was) /\ change.was \in Row
<1>1. rel \in Relations /\ change.action \in {"I", "U", "D"}
  BY DEF Executed, IsRowChange, RowActions
<1>2. SetColumns \subseteq Live(rel)
  BY <1>1 DEF SetColumns
<1>3. SoughtColumns \subseteq Live(rel)
  <2>1. KeyColumns(rel) \subseteq Live(rel)
    BY <1>1, KeyHas DEF KeyColumns
  <2> QED
    BY <2>1 DEF SoughtColumns, WhereOf
<1>4. change.action # "I" => change.was \in Row
  BY <1>1 DEF Executed
<1>5. change.action # "I" => RowLike(rel, change.was)
  BY <1>1, <1>4, RowHas
<1>6. CASE change.action = "I"
  <2>1. change.new \in Row
    BY <1>6 DEF Executed
  <2>2. RowLike(rel, change.new)
    BY <1>1, <2>1, RowHas
  <2> QED
    BY <1>2, <1>3, <1>4, <1>5, <2>2
<1>7. CASE change.action = "U"
  <2>1. /\ change.was \in Row /\ change.row \in Row
        /\ change.new = LoggedNew(change.was, change.row)
    BY <1>7 DEF Executed
  <2>2. NewIs(change.new, change.was, change.row)
    BY <1>1, <2>1, NewHas
  <2> QED
    BY <1>2, <1>3, <1>4, <1>5, <2>2 DEF NewIs
<1>8. CASE change.action = "D"
  BY <1>2, <1>3, <1>4, <1>5, <1>8
<1> QED
  BY <1>1, <1>6, <1>7, <1>8

(* The rows it finds.                                                      *)
FoundRows ==
  {x \in Used(target) :
     \A i \in SoughtColumns :
       /\ change.was[i] # Null /\ target[x][i] = change.was[i]
       /\ ~Rounded(i, change.was[i])}

(* They are those that match the WHERE.                                    *)
LEMMA FoundAre ==
  ASSUME Executed, change.action # "I", Sound(change.was, SoughtColumns)
  PROVE  {x \in Used(target) :
            Matches(target[x], Equations(rel, change.was, SoughtColumns))} = FoundRows
<1> DEFINE was == change.was
           sought == SoughtColumns
<1>1. rel \in Relations /\ RowLike(rel, was) /\ sought \in SUBSET Live(rel) /\ was \in Row
  BY ColumnsAre DEF Executed
<1>2. \A i \in Live(rel) : was[i] # External
  BY <1>1, RowHas
<1>3. Sound(was, sought)
  OBVIOUS
<1> HIDE DEF was, sought
<1>4. ASSUME NEW t
      PROVE  Matches(t, Equations(rel, was, sought)) <=>
               \A i \in sought : was[i] # Null /\ t[i] = was[i] /\ ~Rounded(i, was[i])
  BY <1>1, <1>2, <1>3, WhereFinds
<1>5. ASSUME NEW x \in Used(target)
      PROVE  Matches(target[x], Equations(rel, was, sought)) <=>
               \A i \in sought : was[i] # Null /\ target[x][i] = was[i] /\ ~Rounded(i, was[i])
  BY <1>4
<1> QED
  BY <1>5 DEF FoundRows, was, sought

(* Its effect.                                                             *)
EffectOn(x) ==
  IF change.action = "I"
  THEN IF x = change.slot THEN change.row ELSE target[x]
  ELSE IF x \in FoundRows
       THEN IF change.action = "D" THEN Absent
            ELSE Assigned(target[x], change.new, SetColumns)
       ELSE target[x]

(* It is that of the statement.                                            *)
LEMMA EffectIs ==
  ASSUME Executed, NEW s, Spoken(s)
  PROVE  Effect(s) = [x \in Slot |-> EffectOn(x)]
<1> DEFINE new == change.new
           was == change.was
           set == SetColumns
           sought == SoughtColumns
<1>1. rel \in Relations /\ change.action \in {"I", "U", "D"} /\ target = [x \in Slot |-> target[x]]
  BY DEF Executed, IsRowChange, RowActions, Table
<1>2. /\ change.action = "I" \/ Subscribable
      /\ Sound(new, set) /\ Sound(was, sought)
  BY SpokenIs
<1>3. /\ s.verb = CASE change.action = "I" -> "INSERT" [] change.action = "U" -> "UPDATE"
                    [] change.action = "D" -> "DELETE"
      /\ s.set = Equations(rel, new, set) /\ s.where = Equations(rel, was, sought)
  BY <1>2 DEF Spoken, StatementSays
<1>4. set \in SUBSET Live(rel) /\ (change.action # "D" => RowLike(rel, new))
  BY ColumnsAre
<1>5. ASSUME NEW t, change.action # "D" PROVE Assign(t, s.set) = Assigned(t, new, set)
  <2> HIDE DEF new, set
  <2> QED
    BY <1>1, <1>2, <1>3, <1>4, <1>5, SetAssigns
<1>6. CASE change.action = "I"
  <2> DEFINE empty == [i \in 1 .. rel.natt |-> Null]
             row == change.row
  <2>1. Effect(s) = [target EXCEPT ![change.slot] = Assign(empty, s.set)]
    BY <1>3, <1>6 DEF Effect
  <2>2. new = row /\ row \in Row /\ set = Live(rel)
    BY <1>6 DEF Executed, SetColumns
  <2>3. Assign(empty, s.set) = Assigned(empty, row, Live(rel))
    BY <1>5, <1>6, <2>2
  <2>4. Assigned(empty, row, Live(rel)) = row
    <3>1. /\ row = [i \in 1 .. rel.natt |-> row[i]]
          /\ \A i \in 1 .. rel.natt : i \notin Live(rel) => row[i] = Null
          /\ \A i \in Live(rel) : row[i] # External
      BY <1>1, <2>2, RowHas
    <3> HIDE DEF row
    <3>2. ASSUME NEW i \in 1 .. rel.natt
          PROVE  (IF i \in Live(rel) THEN Kept(row[i]) ELSE empty[i]) = row[i]
      BY <3>1 DEF Kept
    <3> QED
      BY <3>1, <3>2 DEF Assigned
  <2> HIDE DEF empty
  <2>5. Effect(s) = [target EXCEPT ![change.slot] = row]
    BY <2>1, <2>3, <2>4
  <2> QED
    BY <1>1, <1>6, <2>5 DEF EffectOn
<1>7. CASE change.action # "I"
  <2> DEFINE found == {x \in Used(target) : Matches(target[x], s.where)}
  <2>1. found = FoundRows
    BY <1>2, <1>3, <1>7, FoundAre
  <2>2. CASE change.action = "U"
    <3>1. Effect(s) = [x \in Slot |-> IF x \in found THEN Assign(target[x], s.set) ELSE target[x]]
      BY <1>3, <2>2 DEF Effect
    <3> HIDE DEF found
    <3>2. ASSUME NEW x \in Slot
          PROVE  (IF x \in found THEN Assign(target[x], s.set) ELSE target[x]) = EffectOn(x)
      BY <1>5, <2>1, <2>2 DEF EffectOn
    <3> QED
      BY <3>1, <3>2
  <2>3. CASE change.action = "D"
    <3>1. Effect(s) = [x \in Slot |-> IF x \in found THEN Absent ELSE target[x]]
      BY <1>3, <2>3 DEF Effect
    <3> HIDE DEF found
    <3>2. ASSUME NEW x \in Slot
          PROVE  (IF x \in found THEN Absent ELSE target[x]) = EffectOn(x)
      BY <2>1, <2>3 DEF EffectOn
    <3> QED
      BY <3>1, <3>2
  <2> QED
    BY <1>1, <1>7, <2>2, <2>3
<1> QED
  BY <1>6, <1>7

(* Setting what is logged of the new row turns the old one into it, if it  *)
(* leaves no unchanged value out.                                          *)
LEMMA AssignedIsRow ==
  ASSUME Executed, change.action = "U", \A i \in SetColumns : change.new[i] # External
  PROVE  Assigned(change.was, change.new, SetColumns) = change.row
<1> DEFINE new == change.new
           was == change.was
           row == change.row
           set == SetColumns
<1>1. rel \in Relations /\ was \in Row /\ row \in Row /\ new = LoggedNew(was, row)
  BY DEF Executed
<1>2. NewIs(new, was, row)
  BY <1>1, NewHas
<1>3. /\ row = [i \in 1 .. rel.natt |-> row[i]]
      /\ \A i \in 1 .. rel.natt : i \notin Live(rel) => row[i] = Null /\ was[i] = Null
  BY <1>1, RowHas
<1>4. set = IF rel.key = <<>> THEN {i \in Live(rel) : Differs(was, new, i)}
            ELSE IF KeyStays THEN Live(rel) \ KeyColumns(rel) ELSE Live(rel)
  BY DEF SetColumns
<1>5. KeyStays => \A i \in KeyColumns(rel) : was[i] = row[i]
  BY <1>1, KeyHas DEF KeyStays, KeyColumns
<1>6. \A i \in set : new[i] # External
  OBVIOUS
<1> HIDE DEF new, was, row, set
<1>7. ASSUME NEW i \in 1 .. rel.natt
      PROVE  (IF i \in set THEN Kept(new[i]) ELSE was[i]) = row[i]
  <2>1. CASE i \in set
    <3>1. i \in Live(rel)
      BY <1>4, <2>1
    <3> QED
      BY <1>2, <1>6, <2>1, <3>1 DEF NewIs, Kept
  <2>2. CASE i \notin Live(rel)
    BY <1>3, <1>4, <2>2
  <2>3. CASE i \in Live(rel) /\ i \notin set
    <3>1. CASE rel.key = <<>>
      <4>1. new[i] = External \/ new[i] = was[i]
        BY <1>4, <2>3, <3>1 DEF Differs
      <4> QED
        BY <1>2, <2>3, <4>1 DEF NewIs
    <3>2. CASE rel.key # <<>>
      BY <1>4, <1>5, <2>3, <3>2
    <3> QED
      BY <3>1, <3>2
  <2> QED
    BY <2>1, <2>2, <2>3
<1>8. Assigned(was, new, set) = row
  BY <1>3, <1>7 DEF Assigned
<1> QED
  BY <1>8 DEF new, was, row, set

(* The effect is the change, if it is at its row alone.                    *)
LEMMA EffectIsSource ==
  ASSUME Executed, NEW s, Spoken(s), change.action # "I" => FoundRows = {change.slot},
         change.action = "U" => \A i \in SetColumns : change.new[i] # External
  PROVE  Effect(s) = source
<1>1. Effect(s) = [x \in Slot |-> EffectOn(x)]
  BY EffectIs
<1>2. /\ change.action \in {"I", "U", "D"} /\ change.slot \in Slot
      /\ target = [x \in Slot |-> target[x]] /\ change.was = target[change.slot]
      /\ source = [target EXCEPT ![change.slot] = change.row]
      /\ change.action = "D" => change.row = Absent
  BY DEF Executed, IsRowChange, RowActions, Table
<1>3. change.action = "U" => Assigned(change.was, change.new, SetColumns) = change.row
  BY AssignedIsRow
<1>4. ASSUME NEW x \in Slot
      PROVE  EffectOn(x) = IF x = change.slot THEN change.row ELSE target[x]
  BY <1>2, <1>3 DEF EffectOn
<1> QED
  BY <1>1, <1>2, <1>4

-----------------------------------------------------------------------------
(* The rows of a table.                                                    *)
LEMMA TableHas ==
  ASSUME NEW t \in Table
  PROVE  /\ UniqueKeys(t) /\ t = [x \in Slot |-> t[x]]
         /\ \A x \in Slot : t[x] \in Row \union {Absent}
         /\ \A x \in Used(t) : x \in Slot /\ t[x] \in Row
BY DEF Table, Used

(* A key finds no other row than that of the change, unless it has names   *)
(* that are quoted beside names that are not; a whole row no other than    *)
(* its equals.                                                             *)
LEMMA FoundOnly ==
  ASSUME Executed, NEW s, Spoken(s), change.action # "I",
         ~MixedKey, ~(rel.full /\ Duplicate(change.was))
  PROVE  FoundRows \subseteq {change.slot}
<1> DEFINE was == change.was
<1>1. /\ rel \in Relations /\ target \in Table /\ change.slot \in Slot
      /\ was = target[change.slot] /\ was \in Row /\ (rel.full => rel.key = <<>>)
      /\ source = [target EXCEPT ![change.slot] = change.row]
  BY ColumnsAre DEF Executed
<1>2. Subscribable /\ SoughtColumns # {} /\ SoughtColumns = WhereOf(rel)
  BY SpokenIs DEF SoughtColumns
<1>3. change.slot \in Used(target)
  BY <1>1, RowIsThere DEF Used
<1> HIDE DEF was
<1>4. ASSUME NEW x \in FoundRows
      PROVE  x \in Used(target) /\ x \in Slot /\ target[x] \in Row
             /\ \A i \in WhereOf(rel) : target[x][i] = was[i]
  BY <1>1, <1>2, TableHas DEF FoundRows, was
<1>5. CASE rel.key # <<>>
  <2>1. WhereOf(rel) = KeyColumns(rel) /\ KeyColumns(rel) # {}
    BY <1>2, <1>5 DEF WhereOf
  <2>2. PlainKey
    BY <2>1 DEF MixedKey, KeyColumns
  <2>3. KeyColumns(rel) = Range(rel.key)
    BY <2>2 DEF PlainKey, KeyColumns
  <2>4. ASSUME NEW x \in FoundRows PROVE x = change.slot
    <3>1. KeyOf(target[x]) = KeyOf(was)
      BY <1>1, <1>4, <2>1, <2>3, KeyHas
    <3>2. UniqueKeys(target)
      BY <1>1, TableHas
    <3> QED
      BY <1>1, <1>3, <1>4, <1>5, <3>1, <3>2 DEF UniqueKeys
  <2> QED
    BY <2>4
<1>6. CASE rel.key = <<>>
  <2>1. rel.full /\ WhereOf(rel) = Live(rel)
    BY <1>2, <1>6 DEF Subscribable, WhereOf
  <2>2. ASSUME NEW x \in FoundRows, x # change.slot PROVE FALSE
    <3>1. target[x] = was
      BY <1>1, <1>4, <2>1, SameRow
    <3>2. source[x] = target[x]
      BY <1>1, <1>4, <2>2, TableHas
    <3>3. Duplicate(change.was)
      BY <1>4, <2>2, <3>1, <3>2 DEF Duplicate, was
    <3> QED
      BY <2>1, <3>3
  <2> QED
    BY <2>2
<1> QED
  BY <1>5, <1>6

(* What is found where it was is the row of the change.                    *)
LEMMA FoundItself ==
  ASSUME Executed, change.action # "I",
         \A i \in SoughtColumns : change.was[i] # Null /\ ~Rounded(i, change.was[i])
  PROVE  change.slot \in FoundRows
<1>1. /\ rel \in Relations /\ target \in Table /\ change.slot \in Slot
      /\ change.was = target[change.slot] /\ change.was \in Row
  BY ColumnsAre DEF Executed
<1>2. change.slot \in Used(target)
  BY <1>1, RowIsThere DEF Used
<1> QED
  BY <1>1, <1>2 DEF FoundRows

(* With a key, whatever the target executes is the change, but for the     *)
(* three exceptions.                                                       *)
LEMMA KeyedEffect ==
  ASSUME Executed, NEW s, Spoken(s), rel.key # <<>>, ~(MixedKey \/ RawToast \/ RealKey)
  PROVE  Effect(s) = source
<1>1. /\ rel \in Relations /\ ~rel.full
  BY DEF Executed
<1>2. CASE change.action = "I"
  BY <1>2, EffectIsSource
<1>3. CASE change.action # "I"
  <2>1. FoundRows \subseteq {change.slot}
    BY <1>1, <1>3, FoundOnly
  <2>2. SoughtColumns \subseteq Range(rel.key)
    BY <1>3 DEF SoughtColumns, WhereOf, KeyColumns
  <2>3. /\ change.was \in Row /\ Range(rel.key) \subseteq Live(rel)
        /\ \A i \in Live(rel) : i \in Range(rel.key) => change.was[i] # Null
    BY <1>1, <1>3, ColumnsAre, RowHas, KeyHas
  <2>4. \A i \in SoughtColumns : change.was[i] # Null /\ ~Rounded(i, change.was[i])
    BY <2>2, <2>3 DEF RealKey, Rounded
  <2>5. FoundRows = {change.slot}
    BY <1>3, <2>1, <2>4, FoundItself
  <2>6. ASSUME change.action = "U", NEW i \in SetColumns, change.new[i] = External PROVE FALSE
    <3>1. change.was \in Row /\ change.row \in Row /\ change.new = LoggedNew(change.was, change.row)
      BY <2>6 DEF Executed
    <3>2. i \in rel.toasted
      BY <1>1, <2>6, <3>1, NewHas, ColumnsAre DEF NewIs
    <3>3. rel.type[i] \notin Raw
      BY <3>2 DEF RawToast
    <3>4. LiteralOf(rel, change.new, i) = NullPtr
      BY <2>6, <3>3, NullsAssumption DEF LiteralOf
    <3> QED
      BY <2>6, <3>4, SpokenIs DEF Sound
  <2> QED
    BY <2>5, <2>6, EffectIsSource
<1> QED
  BY <1>2, <1>3

(* The columns that a row is set to, or found by, can be written.          *)
LEMMA PrintableIsSound ==
  ASSUME rel \in Relations, NEW f, RowLike(rel, f), NEW cols \in SUBSET Live(rel),
         NEW g, Printable(g, cols), \A i \in cols : f[i] = g[i] /\ f[i] # External
  PROVE  Sound(f, cols)
<1>1. ASSUME NEW i \in cols
      PROVE  /\ LiteralOf(rel, f, i) # NullPtr
             /\ LiteralOf(rel, f, i) # Null => IsLiteral(LiteralOf(rel, f, i))
  <2>1. i \in Live(rel) /\ f[i] # External /\ (rel.type[i] \in Raw /\ f[i] # Null => IsNumber(f[i]))
    BY DEF Printable
  <2> QED
    BY <2>1, ValueIsSound
<1> QED
  BY <1>1 DEF Sound

(* A comma stands between two columns each if the last attribute is live.  *)
LEMMA CommasAre ==
  ASSUME rel \in Relations, rel.natt \in Live(rel), NEW f
  PROVE  Cardinality(Live(rel) \ {rel.natt}) = Cardinality(Equations(rel, f, Live(rel))) - 1
<1> DEFINE L == Live(rel)
           e(i) == <<QuotedName(rel, i), LiteralOf(rel, f, i)>>
           g == [i \in L |-> e(i)]
           E == {e(i) : i \in L}
<1>1. IsFiniteSet(L)
  <2>1. IsFiniteSet(1 .. rel.natt)
    BY FS_Interval
  <2> QED
    BY <2>1, FS_Subset DEF Live
<1>2. ASSUME NEW i \in L, NEW j \in L, e(i) = e(j) PROVE i = j
  <2>1. Column(i) = Column(j)
    BY <1>2 DEF Column
  <2> QED
    BY <2>1, ColumnsDiffer
<1>3. Equations(rel, f, L) = E
  BY DEF Equations
<1> HIDE DEF e
<1>4. g \in Bijection(L, E)
  <2>1. g \in [L -> E]
    OBVIOUS
  <2>2. \A i, j \in L : g[i] = g[j] => i = j
    BY <1>2
  <2>3. \A v \in E : \E i \in L : g[i] = v
    OBVIOUS
  <2> HIDE DEF g, E
  <2> QED
    BY <2>1, <2>2, <2>3, Fun_IsBij
<1> HIDE DEF g, E
<1>5. Cardinality(L) = Cardinality(E)
  BY <1>1, <1>4, FS_Bijection DEF ExistsBijection
<1>6. Cardinality(L \ {rel.natt}) = Cardinality(L) - 1
  BY <1>1, FS_RemoveElement
<1> QED
  BY <1>3, <1>5, <1>6

-----------------------------------------------------------------------------
(* Part 10: the three claims, for one statement.  It leaves rows           *)
(* where there were rows,                                                  *)
LEMMA EffectTyped ==
  ASSUME Executed, NEW s, Spoken(s)
  PROVE  Effect(s) \in [Slot -> Row \union {Absent}]
<1>1. Effect(s) = [x \in Slot |-> EffectOn(x)]
  BY EffectIs
<1>2. /\ rel \in Relations /\ target \in Table /\ change.action \in {"I", "U", "D"}
      /\ \A x \in Slot : target[x] \in Row \union {Absent}
  BY TableHas DEF Executed, IsRowChange, RowActions
<1>3. ASSUME NEW x \in FoundRows, change.action = "U"
      PROVE  Assigned(target[x], change.new, SetColumns) \in Row
  <2> DEFINE new == change.new
             was == change.was
             row == change.row
             set == SetColumns
             t == target[x]
  <2>1. was \in Row /\ row \in Row /\ new = LoggedNew(was, row) /\ set \subseteq Live(rel)
    BY <1>3, ColumnsAre DEF Executed
  <2>2. t \in Row
    BY <1>2, TableHas DEF FoundRows
  <2>3. NewIs(new, was, row)
    BY <1>2, <2>1, NewHas
  <2>4. /\ \A i \in 1 .. rel.natt : row[i] \in Content(i)
        /\ \A i \in 1 .. rel.natt : t[i] \in Content(i)
    BY <1>2, <2>1, <2>2, RowHas
  <2>5. rel.toasted \subseteq Live(rel) \ Range(rel.key)
    BY <1>2
  <2> HIDE DEF new, was, row, set, t
  <2> DEFINE g == Assigned(t, new, set)
  <2>6. g = [i \in 1 .. rel.natt |-> IF i \in set THEN Kept(new[i]) ELSE t[i]]
    BY DEF Assigned
  <2>7. ASSUME NEW i \in 1 .. rel.natt PROVE g[i] \in Content(i)
    <3>1. CASE i \in set
      <4>1. i \in Live(rel) /\ g[i] = Kept(new[i])
        BY <2>1, <2>6, <3>1
      <4>2. CASE new[i] = External
        <5>1. i \in Live(rel) \ Range(rel.key)
          BY <2>3, <2>5, <4>1, <4>2 DEF NewIs
        <5> QED
          BY <4>1, <4>2, <5>1 DEF Kept, Content, Live
      <4>3. CASE new[i] # External
        BY <2>3, <2>4, <4>1, <4>3 DEF Kept, NewIs
      <4> QED
        BY <4>2, <4>3
    <3>2. CASE i \notin set
      BY <2>4, <2>6, <3>2
    <3> QED
      BY <3>1, <3>2
  <2>8. g = [i \in 1 .. rel.natt |-> g[i]]
    BY <2>6
  <2> HIDE DEF g
  <2>9. g \in Row
    BY <2>7, <2>8, RowIs
  <2> QED
    BY <2>9 DEF g, t, new, set
<1>4. ASSUME NEW x \in Slot PROVE EffectOn(x) \in Row \union {Absent}
  <2>1. CASE change.action = "I"
    <3>1. change.row \in Row
      BY <2>1 DEF Executed
    <3> QED
      BY <1>2, <2>1, <3>1 DEF EffectOn
  <2>2. CASE change.action = "D"
    BY <1>2, <2>2 DEF EffectOn
  <2>3. CASE change.action = "U"
    BY <1>2, <1>3, <2>3 DEF EffectOn
  <2> QED
    BY <1>2, <2>1, <2>2, <2>3
<1> QED
  BY <1>1, <1>4

(* touches no other row,                                                   *)
LEMMA EffectOnlyItsRow ==
  ASSUME Executed, NEW s, Spoken(s), ~MixedKey, ~(rel.full /\ Duplicate(change.was)),
         NEW x \in Slot, Effect(s)[x] # target[x]
  PROVE  x = change.slot
<1>1. Effect(s)[x] = EffectOn(x)
  BY EffectIs
<1>2. CASE change.action = "I"
  BY <1>1, <1>2 DEF EffectOn
<1>3. CASE change.action # "I"
  <2>1. FoundRows \subseteq {change.slot}
    BY <1>3, FoundOnly
  <2> QED
    BY <1>1, <1>3, <2>1 DEF EffectOn
<1> QED
  BY <1>2, <1>3

(* and, if it is of those that can be expressed, is executed and does what *)
(* its change did.                                                         *)
LEMMA HandledInsert ==
  ASSUME Executed, Handled, NEW s, StatementSays(s), change.action = "I"
  PROVE  Spoken(s)
<1> DEFINE row == change.row
<1>1. /\ rel \in Relations /\ row \in Row /\ change.new = row
      /\ ~rel.mixed /\ Printable(row, Live(rel)) /\ rel.natt \in Live(rel)
  BY DEF Executed, Handled
<1>2. /\ s.verb = "INSERT" /\ s.table = [mixed |-> rel.mixed]
      /\ s.set = Equations(rel, row, Live(rel)) /\ s.where = Equations(rel, change.was, {})
      /\ s.commas = Cardinality(Live(rel) \ {rel.natt})
  BY <1>1 DEF StatementSays, SetColumns, SoughtColumns
<1> HIDE DEF row
<1>3. RowLike(rel, row) /\ \A i \in Live(rel) : row[i] # External
  BY <1>1, RowHas
<1>4. Sound(row, Live(rel))
  BY <1>1, <1>3, PrintableIsSound
<1>5. Sound(change.was, {})
  BY DEF Sound
<1>6. ~UsesNullPtr(s) /\ (\A l \in LiteralsOf(s) : l # Null => IsLiteral(l))
  BY <1>2, <1>4, <1>5, LiteralsAre
<1>7. s.commas = Cardinality(s.set) - 1
  BY <1>1, <1>2, CommasAre
<1>8. WellFormed(s)
  BY <1>1, <1>2, <1>6, <1>7 DEF WellFormed
<1> QED
  BY <1>6, <1>8 DEF Spoken

(* A row that can be found is found, and it alone.                         *)
LEMMA HandledFinds ==
  ASSUME Executed, change.action # "I", FindableRow
  PROVE  /\ Subscribable /\ SoughtColumns # {} /\ Sound(change.was, SoughtColumns)
         /\ change.slot \in FoundRows /\ ~MixedKey /\ ~(rel.full /\ Duplicate(change.was))
<1> DEFINE was == change.was
<1>1. /\ rel \in Relations /\ was \in Row /\ RowLike(rel, was) /\ SoughtColumns \subseteq Live(rel)
      /\ rel.full => rel.key = <<>>
  BY ColumnsAre DEF Executed
<1>2. \A i \in Live(rel) : was[i] # External
  BY <1>1, RowHas
<1>3. /\ Subscribable /\ SoughtColumns # {} /\ Findable(was, SoughtColumns)
      /\ ~MixedKey /\ ~(rel.full /\ Duplicate(was))
  <2>1. CASE rel.full
    <3>1. SoughtColumns = Live(rel) /\ Live(rel) # {}
      BY <1>1, <2>1 DEF SoughtColumns, WhereOf
    <3>2. Range(rel.key) = {}
      BY <1>1, <2>1, KeyHas
    <3> QED
      BY <2>1, <3>1, <3>2 DEF FindableRow, Subscribable, MixedKey
  <2>2. CASE ~rel.full
    <3>1. PlainKey /\ Findable(was, Range(rel.key))
      BY <2>2 DEF FindableRow
    <3>2. SoughtColumns = Range(rel.key) /\ rel.key # <<>>
      BY <3>1 DEF SoughtColumns, WhereOf, KeyColumns, PlainKey
    <3>3. Range(rel.key) # {}
      BY <1>1, <3>2, KeyHas
    <3> QED
      BY <2>2, <3>1, <3>2, <3>3 DEF Subscribable, MixedKey
  <2> QED
    BY <2>1, <2>2
<1>4. Sound(was, SoughtColumns)
  BY <1>1, <1>2, <1>3, PrintableIsSound DEF Findable
<1>5. change.slot \in FoundRows
  BY <1>3, FoundItself DEF Findable
<1> QED
  BY <1>3, <1>4, <1>5

(* An update that can be expressed sets something, to values that can be   *)
(* written.                                                                *)
LEMMA HandledSets ==
  ASSUME Executed, Handled, change.action = "U"
  PROVE  /\ SetColumns # {} /\ Sound(change.new, SetColumns)
         /\ \A i \in SetColumns : change.new[i] # External
<1> DEFINE new == change.new
           was == change.was
           row == change.row
           set == SetColumns
<1>1. /\ rel \in Relations /\ was \in Row /\ row \in Row /\ new = LoggedNew(was, row)
      /\ set \in SUBSET Live(rel)
  BY ColumnsAre DEF Executed
<1>2. /\ Printable(row, Live(rel)) /\ FindableRow /\ \A i \in Live(rel) : new[i] # External
      /\ rel.full => was # row
      /\ ~rel.full /\ KeyStays => Live(rel) # Range(rel.key)
  BY DEF Handled
<1>3. NewIs(new, was, row)
  BY <1>1, NewHas
<1>4. \A i \in Live(rel) : new[i] = row[i]
  BY <1>2, <1>3 DEF NewIs
<1>5. set # {}
  <2>1. CASE rel.full
    <3>1. PICK i \in Live(rel) : was[i] # row[i]
      BY <1>1, <1>2, <2>1, SameRow
    <3>2. set = {j \in Live(rel) : Differs(was, new, j)}
      BY <1>1, <2>1 DEF SetColumns
    <3>3. Differs(was, new, i)
      BY <1>2, <1>4, <3>1 DEF Differs
    <3> QED
      BY <3>2, <3>3
  <2>2. CASE ~rel.full
    <3>1. PlainKey
      BY <1>2, <2>2 DEF FindableRow
    <3>2. set = IF KeyStays THEN Live(rel) \ KeyColumns(rel) ELSE Live(rel)
      BY <3>1 DEF SetColumns, PlainKey
    <3>3. KeyColumns(rel) \subseteq Range(rel.key) /\ Range(rel.key) \subseteq Live(rel)
      BY <1>1, KeyHas DEF KeyColumns
    <3>4. Live(rel) # {}
      BY <1>1
    <3> QED
      BY <1>2, <2>2, <3>2, <3>3, <3>4
  <2> QED
    BY <2>1, <2>2
<1> HIDE DEF new, was, row, set
<1>6. Printable(row, set)
  BY <1>1, <1>2 DEF Printable
<1>7. Sound(new, set)
  BY <1>1, <1>2, <1>3, <1>4, <1>6, PrintableIsSound DEF NewIs
<1> QED
  BY <1>1, <1>2, <1>5, <1>7 DEF new, set

(* So a change that can be expressed is executed, with its own effect.     *)
LEMMA HandledSpeaks ==
  ASSUME Executed, Handled, NEW s, StatementSays(s)
  PROVE  Spoken(s) /\ Effect(s) = source
<1>1. change.action \in {"I", "U", "D"} /\ ~rel.mixed
  BY DEF Executed, IsRowChange, RowActions, Handled
<1>2. CASE change.action = "I"
  BY <1>2, HandledInsert, EffectIsSource
<1>3. CASE change.action # "I"
  <2> DEFINE new == change.new
             was == change.was
             set == SetColumns
             sought == SoughtColumns
  <2>1. FindableRow
    BY <1>1, <1>3 DEF Handled
  <2>2. /\ Subscribable /\ sought # {} /\ Sound(was, sought)
        /\ change.slot \in FoundRows /\ ~MixedKey /\ ~(rel.full /\ Duplicate(was))
    BY <1>3, <2>1, HandledFinds
  <2>3. /\ Sound(new, set)
        /\ change.action = "U" => set # {} /\ \A i \in set : new[i] # External
    <3>1. CASE change.action = "U"
      BY <3>1, HandledSets
    <3>2. CASE change.action = "D"
      BY <3>2 DEF Sound, SetColumns
    <3> QED
      BY <1>1, <1>3, <3>1, <3>2
  <2>4. /\ s.verb = CASE change.action = "I" -> "INSERT" [] change.action = "U" -> "UPDATE"
                      [] change.action = "D" -> "DELETE"
        /\ s.table = [mixed |-> rel.mixed]
        /\ s.set = Equations(rel, new, set) /\ s.where = Equations(rel, was, sought)
    BY <2>2 DEF StatementSays
  <2> HIDE DEF new, was, set, sought
  <2>5. /\ ~UsesNullPtr(s) /\ (\A l \in LiteralsOf(s) : l # Null => IsLiteral(l))
        /\ s.set = {} <=> set = {}
        /\ s.where = {} <=> sought = {}
    BY <2>2, <2>3, <2>4, LiteralsAre
  <2>6. WellFormed(s)
    <3>1. s.verb # "" /\ ~s.table.mixed
      <4>1. s.verb \in {"UPDATE", "DELETE"}
        BY <1>1, <1>3, <2>4
      <4>2. s.table.mixed = rel.mixed
        BY <2>4
      <4> QED
        BY <1>1, <4>1, <4>2
    <3>2. (CASE s.verb = "INSERT" -> s.commas = Cardinality(s.set) - 1
             [] s.verb = "UPDATE" -> s.set # {} /\ s.where # {}
             [] s.verb = "DELETE" -> s.where # {})
      <4>1. CASE change.action = "U"
        <5>1. s.verb = "UPDATE" /\ s.set # {} /\ s.where # {}
          BY <2>2, <2>3, <2>4, <2>5, <4>1
        <5> QED
          BY <5>1
      <4>2. CASE change.action = "D"
        <5>1. s.verb = "DELETE" /\ s.where # {}
          BY <2>2, <2>4, <2>5, <4>2
        <5> QED
          BY <5>1
      <4> QED
        BY <1>1, <1>3, <4>1, <4>2
    <3> QED
      BY <2>5, <3>1, <3>2 DEF WellFormed
  <2>7. Spoken(s)
    BY <2>5, <2>6 DEF Spoken
  <2>8. FoundRows = {change.slot}
    BY <1>3, <2>2, <2>7, FoundOnly DEF was
  <2>9. Effect(s) = source
    BY <2>3, <2>7, <2>8, EffectIsSource DEF new, set
  <2> QED
    BY <2>7, <2>9
<1> QED
  BY <1>2, <1>3

-----------------------------------------------------------------------------
(* Part 11: the inductive invariant.  What depends on the                  *)
(* relation alone stays as it is,                                          *)
LEMMA RelationStays ==
  ASSUME rel' = rel
  PROVE  /\ Row' = Row /\ Table' = Table
         /\ \A t : UniqueKeys(t)' <=> UniqueKeys(t)
         /\ \A f : KeyOf(f)' = KeyOf(f)
         /\ \A f, g : LoggedOld(f, g)' = LoggedOld(f, g)
         /\ \A f, g : LoggedNew(f, g)' = LoggedNew(f, g)
         /\ MixedKey' <=> MixedKey
<1>1. \A i : Content(i)' = Content(i)
  BY DEF Content
<1>2. Row' = Row
  <2>1. Row' = {r \in [1 .. rel.natt -> UNION {Content(i)' : i \in 1 .. rel.natt}] :
                 \A i \in 1 .. rel.natt : r[i] \in Content(i)'}
    BY Zenon DEF Row
  <2>2. Row = {r \in [1 .. rel.natt -> UNION {Content(i) : i \in 1 .. rel.natt}] :
                 \A i \in 1 .. rel.natt : r[i] \in Content(i)}
    BY Zenon DEF Row
  <2> QED
    BY <1>1, <2>1, <2>2
<1>3. \A f : KeyOf(f)' = KeyOf(f)
  BY DEF KeyOf
<1>4. \A t : UniqueKeys(t)' <=> UniqueKeys(t)
  BY <1>3 DEF UniqueKeys, Used
<1>5. Table' = Table
  BY <1>2, <1>4 DEF Table
<1>6. \A f, g : LoggedOld(f, g)' = LoggedOld(f, g)
  BY <1>3 DEF LoggedOld
<1>7. \A f, g : LoggedNew(f, g)' = LoggedNew(f, g)
  BY DEF LoggedNew
<1>8. MixedKey' <=> MixedKey
  BY DEF MixedKey, PlainKey
<1> QED
  BY <1>2, <1>3, <1>4, <1>5, <1>6, <1>7, <1>8

(* and what depends on the change does, while it is under way.             *)
LEMMA ChangeStays ==
  ASSUME rel' = rel, source' = source, change' = change
  PROVE  /\ target' = target => (Executed' <=> Executed)
         /\ IsRowChange' <=> IsRowChange
         /\ Handled' <=> Handled
         /\ MixedKey' <=> MixedKey
         /\ RawToast' <=> RawToast
         /\ RealKey' <=> RealKey
<1>1. IsRowChange' <=> IsRowChange
  BY DEF IsRowChange
<1>2. target' = target => (Executed' <=> Executed)
  BY <1>1, RelationStays DEF Executed
<1>3. KeyStays' <=> KeyStays
  BY RelationStays DEF KeyStays
<1>4. PlainKey' <=> PlainKey
  BY DEF PlainKey
<1>5. \A f, S : Printable(f, S)' <=> Printable(f, S)
  BY DEF Printable
<1>6. \A f, S : Findable(f, S)' <=> Findable(f, S)
  BY <1>5 DEF Findable, Rounded
<1>7. \A f : Duplicate(f)' <=> Duplicate(f)
  BY DEF Duplicate
<1>8. FindableRow' <=> FindableRow
  BY <1>4, <1>6, <1>7 DEF FindableRow
<1>9. Handled' <=> Handled
  BY <1>3, <1>5, <1>8 DEF Handled
<1>10. RawToast' <=> RawToast
  BY DEF RawToast
<1>11. RealKey' <=> RealKey
  BY DEF RealKey
<1> QED
  BY <1>1, <1>2, <1>9, <1>10, <1>11, RelationStays

(* A change under way is one that was executed at the source; the message  *)
(* of one that was decoded says what it does, and the statement of one     *)
(* that is staged is the one that this message makes.                      *)
UnderWay == pc \in {"sent", "decoded", "staged"}
ChangeIsExecuted ==
  UnderWay =>
  IF IsRowChange THEN Executed ELSE source = target /\ change.action \in {"B", "C"}
DecodedIsUnderstood == pc = "decoded" /\ IsRowChange => Understood(msg, rel, change)
StagedIsStatement ==
  pc = "staged" =>
  IF IsRowChange THEN sql = StatementOf(rel, change) /\ ~UsesNullPtr(sql)
  ELSE sql.verb \in {"begin", "commit"}

ReplicaInv ==
  /\ IInv /\ TypeOK /\ ChangeIsExecuted /\ DecodedIsUnderstood /\ StagedIsStatement
  /\ ReplicaFollows /\ StopsRatherThanDiverges

(* The source executes a change of its rows.                               *)
LEMMA SourceStep ==
  ASSUME ReplicaInv, SourceInsert \/ SourceUpdate \/ SourceDelete
  PROVE  Executed' /\ change'.action \in RowActions /\ Table' = Table /\ source' \in Table
<1>1. /\ rel \in Relations /\ rel' = rel /\ target' = target /\ source = target
      /\ source \in Table /\ target \in Table
  BY DEF ReplicaInv, TypeOK, SourceInsert, SourceUpdate, SourceDelete, SourceExecutes
<1>2. /\ Row' = Row /\ Table' = Table
      /\ \A f, g : LoggedOld(f, g)' = LoggedOld(f, g)
      /\ \A f, g : LoggedNew(f, g)' = LoggedNew(f, g)
  BY <1>1, RelationStays
<1>3. ASSUME NEW action \in RowActions, NEW x \in Slot, NEW was, NEW row \in Row \union {Absent},
             NEW old, NEW new, SourceExecutes(action, x, was, row, old, new), was = source[x]
      PROVE  /\ source' \in Table /\ change'.action = action /\ change'.slot = x
             /\ change'.was = was /\ change'.row = row /\ change'.old = old /\ change'.new = new
             /\ source' = [target EXCEPT ![x] = row] /\ was = target[x]
  <2>1. /\ change' = [action |-> action, slot |-> x, was |-> was, row |-> row,
                      old |-> old, new |-> new, first |-> change.action = "B"]
        /\ source' = [source EXCEPT ![x] = row] /\ UniqueKeys(source')
    BY <1>3 DEF SourceExecutes
  <2>2. source' \in [Slot -> Row \union {Absent}]
    BY <1>1, <2>1 DEF Table
  <2>3. source' \in Table
    BY <2>1, <2>2 DEF Table
  <2> QED
    BY <1>1, <1>3, <2>1, <2>3
<1>4. CASE SourceInsert
  <2>1. PICK x \in Slot \ Used(source) : \E r \in Row : SourceExecutes("I", x, Absent, r, <<>>, r)
    BY <1>4 DEF SourceInsert
  <2>2. PICK r \in Row : SourceExecutes("I", x, Absent, r, <<>>, r)
    BY <2>1
  <2>3. x \in Slot /\ source[x] = Absent /\ r \in Row \union {Absent} /\ "I" \in RowActions
    BY DEF Used, RowActions
  <2>4. /\ source' \in Table /\ change'.action = "I" /\ change'.slot = x
        /\ change'.was = Absent /\ change'.row = r /\ change'.old = <<>> /\ change'.new = r
        /\ source' = [target EXCEPT ![x] = r] /\ Absent = target[x]
    BY ZenonT(60), <1>3, <2>2, <2>3
  <2>5. Executed'
    BY <1>1, <1>2, <2>3, <2>4 DEF Executed, IsRowChange, RowActions
  <2> QED
    BY <1>2, <2>4, <2>5 DEF RowActions
<1>5. CASE SourceUpdate
  <2>1. PICK x \in Used(source) : \E r \in Row :
          SourceExecutes("U", x, source[x], r, LoggedOld(source[x], r), LoggedNew(source[x], r))
    BY <1>5 DEF SourceUpdate
  <2>2. PICK r \in Row :
          SourceExecutes("U", x, source[x], r, LoggedOld(source[x], r), LoggedNew(source[x], r))
    BY <2>1
  <2> DEFINE was == source[x]
             old == LoggedOld(was, r)
             new == LoggedNew(was, r)
  <2>3. x \in Slot /\ was \in Row /\ r \in Row \union {Absent} /\ "U" \in RowActions
    BY <1>1, TableHas DEF RowActions
  <2>4. /\ source' \in Table /\ change'.action = "U" /\ change'.slot = x
        /\ change'.was = was /\ change'.row = r /\ change'.old = old /\ change'.new = new
        /\ source' = [target EXCEPT ![x] = r] /\ was = target[x]
    BY <1>3, <2>2, <2>3
  <2>5. old = LoggedOld(target[x], r)' /\ new = LoggedNew(target[x], r)'
    BY <1>1, <1>2
  <2>6. Executed'
    BY <1>1, <1>2, <2>3, <2>4, <2>5 DEF Executed, IsRowChange, RowActions
  <2> QED
    BY <1>2, <2>4, <2>6 DEF RowActions
<1>6. CASE SourceDelete
  <2>1. PICK x \in Used(source) :
          SourceExecutes("D", x, source[x], Absent, LoggedOld(source[x], Absent), <<>>)
    BY <1>6 DEF SourceDelete
  <2> DEFINE was == source[x]
             old == LoggedOld(was, Absent)
  <2>3. x \in Slot /\ was \in Row /\ Absent \in Row \union {Absent} /\ "D" \in RowActions
    BY <1>1, TableHas DEF RowActions
  <2>4. /\ source' \in Table /\ change'.action = "D" /\ change'.slot = x
        /\ change'.was = was /\ change'.row = Absent /\ change'.old = old /\ change'.new = <<>>
        /\ source' = [target EXCEPT ![x] = Absent] /\ was = target[x]
    BY <1>3, <2>1, <2>3
  <2>6. Executed'
    BY <1>1, <1>2, <2>3, <2>4 DEF Executed, IsRowChange, RowActions
  <2> QED
    BY <1>2, <2>4, <2>6 DEF RowActions
<1> QED
  BY <1>4, <1>5, <1>6

(* A change that was executed is one that can be logged, of rows.          *)
LEMMA ExecutedHas ==
  ASSUME Executed
  PROVE  Logged(change) /\ HasRows(rel, change)
<1> DEFINE new == change.new
           old == change.old
           was == change.was
           row == change.row
<1>1. /\ rel \in Relations /\ change.action \in {"I", "U", "D"}
      /\ change.action = "I" => row \in Row /\ old = <<>> /\ new = row
      /\ change.action = "U" =>
           /\ was \in Row /\ row \in Row /\ old = LoggedOld(was, row) /\ new = LoggedNew(was, row)
      /\ change.action = "D" => was \in Row /\ old = LoggedOld(was, Absent) /\ new = <<>>
  BY DEF Executed, IsRowChange, RowActions
<1>2. /\ (change.action = "I" => new # <<>>)
      /\ new # <<>> => RowLike(rel, new)
      /\ change.action = "U" => new # <<>>
      /\ change.action = "I" => \A i \in Live(rel) : new[i] # External
  <2>1. CASE change.action = "I"
    <3>1. RowLike(rel, new) /\ DOMAIN new = 1 .. rel.natt /\ \A i \in Live(rel) : new[i] # External
      BY <1>1, <2>1, RowHas
    <3>2. rel.natt \in Nat \ {0}
      BY <1>1
    <3> QED
      BY <2>1, <3>1, <3>2, RowIsNoEmpty
  <2>2. CASE change.action = "U"
    <3>1. NewIs(new, was, row)
      BY <1>1, <2>2, NewHas
    <3> QED
      BY <2>2, <3>1 DEF NewIs
  <2>3. CASE change.action = "D"
    BY <1>1, <2>3
  <2> QED
    BY <1>1, <2>1, <2>2, <2>3
<1>3. old # <<>> => RowLike(rel, old) /\ \A i \in Live(rel) : old[i] # External
  <2>1. CASE change.action = "I"
    BY <1>1, <2>1
  <2>2. CASE change.action # "I"
    <3>1. PICK r : was \in Row /\ old = LoggedOld(was, r)
      BY <1>1, <2>2
    <3>2. OldIs(old, was, r # Absent /\ KeyOf(was) = KeyOf(r))
      BY <1>1, <3>1, OldHas
    <3> QED
      BY <3>2 DEF OldIs
  <2> QED
    BY <2>1, <2>2
<1> QED
  BY <1>1, <1>2, <1>3 DEF Logged, HasRows, RowActions

(* Generate makes the statement of the change.                             *)
LEMMA GeneratedIs ==
  ASSUME ReplicaInv, pc = "decoded", IsRowChange
  PROVE  Executed /\ out_put_tuple_to_sql(msg) = StatementOf(rel, change)
<1>1. Executed /\ Understood(msg, rel, change) /\ rel \in Relations
  BY DEF ReplicaInv, ChangeIsExecuted, UnderWay, DecodedIsUnderstood, TypeOK
<1>2. Logged(change) /\ HasRows(rel, change)
  BY <1>1, ExecutedHas
<1> QED
  BY <1>1, <1>2, StatementIs

(* What begins or ends a transaction has its word for a statement.         *)
LEMMA ControlMessage ==
  /\ TransactionMessage.type = change.action
  /\ TransactionMessage.natt = 0 /\ TransactionMessage.k_natt = 0
<1> DEFINE timed == [ZeroMessage EXCEPT !.type = change.action, !.lsn = Txn.final_lsn,
                                        !.tm = Txn.commit_time]
<1>1. /\ timed.type = change.action /\ timed.natt = 0 /\ timed.k_natt = 0
  BY DEF ZeroMessage
<1>2. \/ TransactionMessage = [timed EXCEPT !.xid = Txn.xid]
      \/ TransactionMessage = [timed EXCEPT !.end_lsn = Txn.end_lsn]
  BY DEF TransactionMessage
<1> QED
  BY <1>1, <1>2 DEF ZeroMessage

(* Generate writes begin or commit of it.                                  *)
LEMMA ControlGenerated ==
  ASSUME ReplicaInv, pc = "decoded", ~IsRowChange
  PROVE  /\ out_put_tuple_to_sql(msg).verb \in {"begin", "commit"}
         /\ ~UsesNullPtr(out_put_tuple_to_sql(msg))
<1>1. msg.type = change.action
  BY ControlMessage DEF ReplicaInv, IInv, MessageIsChange
<1>2. change.action \in {"B", "C"}
  BY DEF ReplicaInv, ChangeIsExecuted, UnderWay
<1>3. checktuple(msg)
  BY <1>1, <1>2 DEF checktuple
<1>4. \/ out_put_tuple_to_sql(msg) = [Nothing EXCEPT !.verb = "begin"]
      \/ out_put_tuple_to_sql(msg) = [Nothing EXCEPT !.verb = "commit"]
  BY <1>1, <1>2, <1>3 DEF out_put_tuple_to_sql
<1> DEFINE s == out_put_tuple_to_sql(msg)
<1>5. s.verb \in {"begin", "commit"} /\ s.set = {} /\ s.where = {}
  BY <1>4 DEF Nothing
<1> HIDE DEF s
<1>6. ~UsesNullPtr(s)
  BY <1>5 DEF UsesNullPtr, LiteralsOf
<1> QED
  BY <1>5, <1>6 DEF s

(* What is staged for a change of rows is none of these, and does what it  *)
(* says.                                                                   *)
LEMMA StagedHas ==
  ASSUME ReplicaInv, pc = "staged", IsRowChange
  PROVE  /\ Executed /\ StatementSays(sql) /\ ~UsesNullPtr(sql)
         /\ sql.verb \in {"", "INSERT", "UPDATE", "DELETE"}
<1>1. Executed /\ sql = StatementOf(rel, change) /\ ~UsesNullPtr(sql)
  BY DEF ReplicaInv, ChangeIsExecuted, UnderWay, StagedIsStatement
<1>2. StatementSays(sql)
  BY <1>1, StatementHas
<1>3. change.action \in {"I", "U", "D"}
  BY DEF IsRowChange, RowActions
<1>4. sql.verb \in {"", "INSERT", "UPDATE", "DELETE"}
  BY <1>2, <1>3 DEF StatementSays
<1> QED
  BY <1>1, <1>2, <1>4

(* The verb of any statement is one of these.                              *)
LEMMA GeneratedVerb ==
  ASSUME ReplicaInv, pc = "decoded"
  PROVE  out_put_tuple_to_sql(msg).verb
           \in {"", "begin", "commit", "INSERT", "UPDATE", "DELETE"}
<1>1. CASE IsRowChange
  <2>1. Executed /\ out_put_tuple_to_sql(msg) = StatementOf(rel, change)
    BY <1>1, GeneratedIs
  <2>2. StatementSays(StatementOf(rel, change))
    BY <2>1, StatementHas
  <2>3. change.action \in {"I", "U", "D"}
    BY <1>1 DEF IsRowChange, RowActions
  <2> DEFINE s == StatementOf(rel, change)
  <2> HIDE DEF s
  <2>4. StatementSays(s)
    BY <2>2 DEF s
  <2>5. s.verb \in {"", "INSERT", "UPDATE", "DELETE"}
    BY <2>3, <2>4 DEF StatementSays
  <2> QED
    BY <2>1, <2>5 DEF s
<1>2. CASE ~IsRowChange
  BY <1>2, ControlGenerated
<1> QED
  BY <1>1, <1>2

(* The parts of the invariant that say what a state is, and those that say *)
(* what has become of a change.                                            *)
Known == TypeOK /\ ChangeIsExecuted /\ DecodedIsUnderstood /\ StagedIsStatement
Claims == ReplicaFollows /\ StopsRatherThanDiverges

(* A transaction begins or ends, or the source executes something.         *)
LEMMA SourceKeeps ==
  ASSUME ReplicaInv, SourceBegin \/ SourceCommit \/ SourceInsert \/ SourceUpdate \/ SourceDelete
  PROVE  Known' /\ Claims'
<1>1. /\ rel' = rel /\ target' = target /\ msg' = msg /\ sql' = sql /\ pc' = "sent"
      /\ source = target
  BY DEF SourceBegin, SourceCommit, SourceInsert, SourceUpdate, SourceDelete, SourceExecutes
<1>2. Table' = Table
  BY <1>1, RelationStays
<1>3. /\ source' \in Table /\ change'.action \in RowActions \union {"B", "C"}
      /\ IF IsRowChange' THEN Executed' ELSE source' = target' /\ change'.action \in {"B", "C"}
  <2>1. CASE SourceInsert \/ SourceUpdate \/ SourceDelete
    <3>1. Executed' /\ change'.action \in RowActions /\ source' \in Table
      BY <2>1, SourceStep
    <3> QED
      BY <3>1 DEF IsRowChange
  <2>2. CASE SourceBegin
    BY <1>1, <2>2 DEF SourceBegin, ReplicaInv, TypeOK, IsRowChange, RowActions
  <2>3. CASE SourceCommit
    BY <1>1, <2>3 DEF SourceCommit, ReplicaInv, TypeOK, IsRowChange, RowActions
  <2> QED
    BY <2>1, <2>2, <2>3
<1>4. TypeOK'
  BY <1>1, <1>2, <1>3 DEF ReplicaInv, TypeOK
<1>5. ChangeIsExecuted' /\ DecodedIsUnderstood' /\ StagedIsStatement'
  BY <1>1, <1>3 DEF ChangeIsExecuted, DecodedIsUnderstood, StagedIsStatement
<1>6. Claims'
  BY <1>1 DEF Claims, ReplicaFollows, StopsRatherThanDiverges, AtRest
<1> QED
  BY <1>4, <1>5, <1>6 DEF Known

(* The message is decoded.                                                 *)
LEMMA DecodeKeeps ==
  ASSUME ReplicaInv, DecodeMessage
  PROVE  Known' /\ Claims'
<1>1. /\ rel' = rel /\ source' = source /\ target' = target /\ change' = change /\ sql' = sql
      /\ pc = "sent" /\ pc' = "decoded" /\ msg' = Decode(Encode(rel, change), msg)
      /\ rel \in Relations
  BY DEF DecodeMessage, ReplicaInv, TypeOK
<1>2. Table' = Table /\ (Executed' <=> Executed) /\ (IsRowChange' <=> IsRowChange)
  BY <1>1, RelationStays, ChangeStays
<1>3. IF IsRowChange THEN Executed ELSE source = target /\ change.action \in {"B", "C"}
  BY <1>1 DEF ReplicaInv, ChangeIsExecuted, UnderWay
<1>4. CASE IsRowChange
  <2>1. Logged(change) /\ change.action \in RowActions
    BY <1>3, <1>4, ExecutedHas DEF IsRowChange
  <2>2. Understood(msg', rel, change)
    BY <1>1, <2>1, ChangeRead
  <2>3. HeadIs(msg', rel, change.action)
    BY <1>1, <2>2, HeadColumns DEF Understood
  <2>4. msg'.type = change.action /\ msg'.natt = rel.natt /\ msg'.k_natt \in {0, Len(rel.key)}
    BY <2>3 DEF HeadIs, KeyLen
  <2>5. TypeOK'
    BY <1>1, <1>2, <2>1, <2>4 DEF ReplicaInv, TypeOK
  <2>6. ChangeIsExecuted' /\ DecodedIsUnderstood' /\ StagedIsStatement'
    BY <1>1, <1>2, <1>3, <1>4, <2>2 DEF ChangeIsExecuted, DecodedIsUnderstood, StagedIsStatement
  <2> QED
    BY <1>1, <2>5, <2>6 DEF Known, Claims, ReplicaFollows, StopsRatherThanDiverges, AtRest
<1>5. CASE ~IsRowChange
  <2>1. MessageIsChange'
    BY DecodedIsChange DEF ReplicaInv
  <2>2. msg' = TransactionMessage'
    BY <1>1, <1>2, <1>5, <2>1 DEF MessageIsChange
  <2>3. TransactionMessage' = TransactionMessage
    BY <1>1 DEF TransactionMessage
  <2>4. msg'.type = change.action /\ msg'.natt = 0 /\ msg'.k_natt = 0
    BY <2>2, <2>3, ControlMessage
  <2>5. TypeOK'
    BY <1>1, <1>2, <1>3, <1>5, <2>4 DEF ReplicaInv, TypeOK
  <2>6. ChangeIsExecuted' /\ DecodedIsUnderstood' /\ StagedIsStatement'
    BY <1>1, <1>2, <1>3, <1>5 DEF ChangeIsExecuted, DecodedIsUnderstood, StagedIsStatement
  <2> QED
    BY <1>1, <2>5, <2>6 DEF Known, Claims, ReplicaFollows, StopsRatherThanDiverges, AtRest
<1> QED
  BY <1>4, <1>5

(* Its statement is made.                                                  *)
LEMMA GenerateKeeps ==
  ASSUME ReplicaInv, Generate
  PROVE  Known' /\ Claims'
<1> DEFINE s == out_put_tuple_to_sql(msg)
<1>1. /\ rel' = rel /\ source' = source /\ target' = target /\ change' = change /\ msg' = msg
      /\ pc = "decoded" /\ rel \in Relations
      /\ IF UsesNullPtr(s) THEN sql' = Nothing /\ pc' = "dead" ELSE sql' = s /\ pc' = "staged"
  BY DEF Generate, ReplicaInv, TypeOK
<1>2. /\ Table' = Table /\ (Executed' <=> Executed) /\ (IsRowChange' <=> IsRowChange)
      /\ Handled' <=> Handled
  BY <1>1, RelationStays, ChangeStays
<1>3. IF IsRowChange THEN Executed ELSE source = target /\ change.action \in {"B", "C"}
  BY <1>1 DEF ReplicaInv, ChangeIsExecuted, UnderWay
<1>4. s.verb \in {"", "begin", "commit", "INSERT", "UPDATE", "DELETE"}
  BY <1>1, GeneratedVerb
<1>5. IsRowChange => Executed /\ s = StatementOf(rel, change)
  BY <1>1, GeneratedIs
<1>6. ~IsRowChange => s.verb \in {"begin", "commit"} /\ ~UsesNullPtr(s)
  BY <1>1, ControlGenerated
<1> HIDE DEF s
<1>7. Nothing.verb = ""
  BY DEF Nothing
<1>8. TypeOK'
  BY <1>1, <1>2, <1>4, <1>7 DEF ReplicaInv, TypeOK
<1>9. ChangeIsExecuted' /\ DecodedIsUnderstood'
  BY <1>1, <1>2, <1>3 DEF ChangeIsExecuted, DecodedIsUnderstood, UnderWay
<1>10. CASE ~UsesNullPtr(s)
  <2>1. StagedIsStatement'
    BY <1>1, <1>2, <1>5, <1>6, <1>10 DEF StagedIsStatement
  <2>2. Claims'
    BY <1>1, <1>10 DEF Claims, ReplicaFollows, StopsRatherThanDiverges, AtRest
  <2> QED
    BY <1>8, <1>9, <2>1, <2>2 DEF Known
<1>11. CASE UsesNullPtr(s)
  <2>1. IsRowChange /\ pc' = "dead"
    BY <1>1, <1>6, <1>11
  <2>2. Executed /\ StatementSays(s)
    BY <1>5, <2>1, StatementHas
  <2>3. ~Handled
    BY <1>11, <2>2, HandledSpeaks DEF Spoken
  <2>4. StagedIsStatement'
    BY <2>1 DEF StagedIsStatement
  <2>5. Claims'
    BY <1>2, <2>1, <2>3 DEF Claims, ReplicaFollows, StopsRatherThanDiverges
  <2> QED
    BY <1>8, <1>9, <2>4, <2>5 DEF Known
<1> QED
  BY <1>10, <1>11

(* The apply thread executes it, or fails to.                              *)
LEMMA ExecuteKeeps ==
  ASSUME ReplicaInv, ExecuteControl \/ Execute \/ ExecuteDuplicate \/ ExecuteFails
  PROVE  Known' /\ Claims'
<1>1. /\ rel' = rel /\ source' = source /\ change' = change /\ msg' = msg /\ sql' = sql
      /\ pc = "staged" /\ pc' \in {"idle", "dead"} /\ rel \in Relations
      /\ source \in Table /\ target \in Table
  BY DEF ExecuteControl, Execute, ExecuteDuplicate, ExecuteFails, ReplicaInv, TypeOK
<1>2. /\ Table' = Table /\ (IsRowChange' <=> IsRowChange) /\ (Handled' <=> Handled)
      /\ MixedKey' <=> MixedKey
      /\ RawToast' <=> RawToast
      /\ RealKey' <=> RealKey
  BY <1>1, RelationStays, ChangeStays
<1>3. ChangeIsExecuted' /\ DecodedIsUnderstood' /\ StagedIsStatement'
  BY <1>1 DEF ChangeIsExecuted, DecodedIsUnderstood, StagedIsStatement, UnderWay
<1>4. CASE ~IsRowChange
  <2>1. sql.verb \in {"begin", "commit"}
    BY <1>1, <1>4 DEF ReplicaInv, StagedIsStatement
  <2>2. target' = target
    BY <2>1 DEF ExecuteControl, Execute, ExecuteDuplicate, ExecuteFails
  <2>3. TypeOK'
    BY <1>1, <1>2, <2>2 DEF ReplicaInv, TypeOK
  <2>4. Claims'
    BY <1>2, <1>4 DEF Claims, ReplicaFollows, StopsRatherThanDiverges, AtRest
  <2> QED
    BY <1>3, <2>3, <2>4 DEF Known
<1>5. CASE IsRowChange
  <2>1. /\ Executed /\ StatementSays(sql) /\ ~UsesNullPtr(sql)
        /\ sql.verb \in {"", "INSERT", "UPDATE", "DELETE"}
    BY <1>1, <1>5, StagedHas
  <2>2. UniqueKeys(source)
    BY <1>1, TableHas
  <2>3. CASE WellFormed(sql) /\ UniqueKeys(Effect(sql))
    <3>1. target' = Effect(sql) /\ Spoken(sql)
      BY <2>1, <2>3 DEF ExecuteControl, Execute, ExecuteDuplicate, ExecuteFails, Spoken
    <3>2. Effect(sql) \in Table
      BY <2>1, <2>3, <3>1, EffectTyped DEF Table
    <3>3. TypeOK'
      BY <1>1, <1>2, <3>1, <3>2 DEF ReplicaInv, TypeOK
    <3>4. Handled => target' = source
      BY <2>1, <3>1, HandledSpeaks
    <3>5. rel.key # <<>> /\ ~(MixedKey \/ RawToast \/ RealKey) => target' = source
      BY <2>1, <3>1, KeyedEffect
    <3>6. Claims'
      BY <1>1, <1>2, <3>4, <3>5 DEF Claims, ReplicaFollows, StopsRatherThanDiverges
    <3> QED
      BY <1>3, <3>3, <3>6 DEF Known
  <2>4. CASE WellFormed(sql) /\ ~UniqueKeys(Effect(sql))
    <3>1. target' = target /\ Spoken(sql)
      BY <2>1, <2>4 DEF ExecuteControl, Execute, ExecuteDuplicate, ExecuteFails, Spoken
    <3>2. TypeOK'
      BY <1>1, <1>2, <3>1 DEF ReplicaInv, TypeOK
    <3>3. Effect(sql) # source
      BY <2>2, <2>4
    <3>4. ~Handled
      BY <2>1, <3>1, <3>3, HandledSpeaks
    <3>5. ~(rel.key # <<>> /\ ~(MixedKey \/ RawToast \/ RealKey))
      BY <2>1, <3>1, <3>3, KeyedEffect
    <3>6. Claims'
      BY <1>1, <1>2, <3>4, <3>5 DEF Claims, ReplicaFollows, StopsRatherThanDiverges
    <3> QED
      BY <1>3, <3>2, <3>6 DEF Known
  <2>5. CASE ~WellFormed(sql)
    <3>1. target' = target /\ pc' = "dead"
      BY <2>1, <2>5 DEF ExecuteControl, Execute, ExecuteDuplicate, ExecuteFails
    <3>2. TypeOK'
      BY <1>1, <1>2, <3>1 DEF ReplicaInv, TypeOK
    <3>3. ~Handled
      BY <2>1, <2>5, HandledSpeaks DEF Spoken
    <3>4. Claims'
      BY <1>1, <1>2, <3>1, <3>3 DEF Claims, ReplicaFollows, StopsRatherThanDiverges
    <3> QED
      BY <1>3, <3>2, <3>4 DEF Known
  <2> QED
    BY <2>3, <2>4, <2>5
<1> QED
  BY <1>4, <1>5

(* Nothing happens.                                                        *)
LEMMA StutterKeeps ==
  ASSUME ReplicaInv, UNCHANGED vars
  PROVE  Known' /\ Claims'
<1>1. /\ rel' = rel /\ source' = source /\ target' = target /\ change' = change /\ msg' = msg
      /\ sql' = sql /\ pc' = pc
  BY DEF vars
<1>2. /\ Table' = Table /\ (Executed' <=> Executed) /\ (IsRowChange' <=> IsRowChange)
      /\ (Handled' <=> Handled) /\ (MixedKey' <=> MixedKey)
      /\ RawToast' <=> RawToast
      /\ RealKey' <=> RealKey
  BY <1>1, RelationStays, ChangeStays
<1>3. TypeOK'
  BY ZenonT(60), <1>1, <1>2 DEF ReplicaInv, TypeOK
<1>4. ChangeIsExecuted' /\ DecodedIsUnderstood' /\ StagedIsStatement'
  BY <1>1, <1>2 DEF ReplicaInv, ChangeIsExecuted, DecodedIsUnderstood, StagedIsStatement, UnderWay
<1>5. Claims'
  BY <1>1, <1>2 DEF ReplicaInv, Claims, ReplicaFollows, StopsRatherThanDiverges, AtRest
<1> QED
  BY <1>3, <1>4, <1>5 DEF Known

(* No message is under way at the start, and every step keeps what is      *)
(* known of one.                                                           *)
LEMMA MessageStarts == Init => IInv
BY DEF Init, IInv, SentIsLogged, MessageIsChange

(* Every step keeps it: SourceLogged and DecodedIsChange are the two that  *)
(* have to be looked at.                                                   *)
LEMMA MessageStays ==
  ASSUME IInv, [Next]_vars
  PROVE  IInv'
<1>1. CASE SourceInsert \/ SourceUpdate \/ SourceDelete
  <2>1. IsRowChange' /\ Logged(change')
    BY <1>1, SourceLogged DEF IInv
  <2>2. rel' = rel /\ pc' = "sent"
    BY <1>1 DEF SourceInsert, SourceUpdate, SourceDelete, SourceExecutes
  <2> QED
    BY <2>1, <2>2 DEF IInv, SentIsLogged, MessageIsChange
<1>2. CASE SourceBegin \/ SourceCommit
  BY <1>2 DEF SourceBegin, SourceCommit, IInv, SentIsLogged, MessageIsChange
<1>3. CASE DecodeMessage
  <2>1. MessageIsChange'
    BY <1>3, DecodedIsChange
  <2> QED
    BY <1>3, <2>1 DEF DecodeMessage, IInv, SentIsLogged
<1>4. CASE Generate
  BY <1>4 DEF Generate, IInv, SentIsLogged, MessageIsChange
<1>5. CASE ExecuteControl \/ Execute \/ ExecuteDuplicate \/ ExecuteFails
  <2>1. rel' = rel /\ pc' \in {"idle", "dead"}
    BY <1>5 DEF ExecuteControl, Execute, ExecuteDuplicate, ExecuteFails
  <2> QED
    BY <2>1 DEF IInv, SentIsLogged, MessageIsChange
<1>6. CASE UNCHANGED vars \/ Lost
  <2>1. UNCHANGED vars
    BY <1>6 DEF Lost
  <2>2. SentIsLogged'
    BY <2>1 DEF IInv, SentIsLogged, vars, IsRowChange
  <2>3. MessageIsChange'
    BY <2>1 DEF IInv, MessageIsChange, vars, IsRowChange, TransactionMessage, TupleIs
  <2> QED
    BY <2>1, <2>2, <2>3 DEF IInv, vars
<1> QED
  BY <1>1, <1>2, <1>3, <1>4, <1>5, <1>6 DEF Next

(* The invariant holds at the start,                                       *)
LEMMA ChangesStart == Init => ReplicaInv
<1> SUFFICES ASSUME Init PROVE ReplicaInv
  OBVIOUS
<1>1. /\ rel \in Relations /\ source \in Table /\ target = source /\ change = NoChange
      /\ msg = ZeroMessage /\ sql = Nothing /\ pc = "idle"
  BY DEF Init
<1>2. change.action = "none" /\ ~IsRowChange
  BY <1>1 DEF NoChange, IsRowChange, RowActions
<1>3. msg.type = "0" /\ msg.natt = 0 /\ msg.k_natt = 0 /\ sql.verb = ""
  BY <1>1 DEF ZeroMessage, Nothing
<1>4. TypeOK
  BY <1>1, <1>2, <1>3 DEF TypeOK
<1> QED
  BY <1>1, <1>2, <1>4, MessageStarts
     DEF ReplicaInv, ChangeIsExecuted, DecodedIsUnderstood, StagedIsStatement, UnderWay,
         ReplicaFollows, StopsRatherThanDiverges, AtRest

(* and every step keeps it.                                                *)
LEMMA ChangesStay ==
  ASSUME ReplicaInv, [Next]_vars
  PROVE  ReplicaInv'
<1>1. IInv'
  BY MessageStays DEF ReplicaInv
<1>2. Known' /\ Claims'
  <2>1. CASE SourceBegin \/ SourceCommit \/ SourceInsert \/ SourceUpdate \/ SourceDelete
    BY <2>1, SourceKeeps
  <2>2. CASE DecodeMessage
    BY <2>2, DecodeKeeps
  <2>3. CASE Generate
    BY <2>3, GenerateKeeps
  <2>4. CASE ExecuteControl \/ Execute \/ ExecuteDuplicate \/ ExecuteFails
    BY <2>4, ExecuteKeeps
  <2>5. CASE UNCHANGED vars \/ Lost
    BY <2>5, StutterKeeps DEF Lost
  <2> QED
    BY <2>1, <2>2, <2>3, <2>4, <2>5 DEF Next
<1> QED
  BY <1>1, <1>2 DEF ReplicaInv, Known, Claims

(* The invariant always holds.                                             *)
THEOREM ChangesKept == Safety => []ReplicaInv
<1>1. Init => ReplicaInv
  BY ChangesStart
<1>2. ReplicaInv /\ [Next]_vars => ReplicaInv'
  BY ChangesStay
<1> QED
  BY <1>1, <1>2, PTL DEF Safety

(* The client has understood what the plugin said, whatever the relation,  *)
(* its types, its dropped and out-of-line columns and its key.             *)
THEOREM MessageUnderstood == Safety => []MessageIsChange
<1>1. ReplicaInv => MessageIsChange
  BY DEF ReplicaInv, IInv
<1> QED
  BY <1>1, ChangesKept, PTL

(* Every variable has its type; no statement breaks the key of the target. *)
THEOREM Typing == Safety => []TypeOK
<1>1. ReplicaInv => TypeOK
  BY DEF ReplicaInv
<1> QED
  BY <1>1, ChangesKept, PTL

(* What the statements can express is done at the target as it was at the  *)
(* source.                                                                 *)
THEOREM HandledFollows == Safety => []ReplicaFollows
<1>1. ReplicaInv => ReplicaFollows
  BY DEF ReplicaInv
<1> QED
  BY <1>1, ChangesKept, PTL

(* With a key, a change that cannot be expressed stops the apply thread.   *)
THEOREM KeyedStops == Safety => []StopsRatherThanDiverges
<1>1. ReplicaInv => StopsRatherThanDiverges
  BY DEF ReplicaInv
<1> QED
  BY <1>1, ChangesKept, PTL

(* No statement touches another row than that of its change.               *)
THEOREM NoOtherRow == Safety => OnlyItsRow
<1> DEFINE Apart == ~MixedKey /\ ~(rel.full /\ IsRowChange /\ Duplicate(change.was))
           Only == \A x \in Slot : target'[x] # target[x] => x = change.slot
<1>1. ASSUME ReplicaInv, [Next]_vars PROVE [Apart => Only]_vars
  <2> SUFFICES ASSUME Apart, ~UNCHANGED vars PROVE Only
    OBVIOUS
  <2>1. CASE target' = target
    BY <2>1
  <2>2. CASE target' # target
    <3>1. Execute
      BY <1>1, <2>2 DEF Next, SourceBegin, SourceCommit, SourceInsert, SourceUpdate,
           SourceDelete, SourceExecutes, DecodeMessage, Generate, ExecuteControl,
           ExecuteDuplicate, ExecuteFails, Lost, vars
    <3>2. /\ pc = "staged" /\ sql.verb \notin {"begin", "commit"}
          /\ WellFormed(sql) /\ target' = Effect(sql)
      BY <3>1 DEF Execute
    <3>3. IsRowChange
      BY <1>1, <3>2 DEF ReplicaInv, StagedIsStatement
    <3>4. Executed /\ Spoken(sql)
      BY <1>1, <3>2, <3>3, StagedHas DEF Spoken
    <3> QED
      BY <3>2, <3>3, <3>4, EffectOnlyItsRow
  <2> QED
    BY <2>1, <2>2
<1>2. ReplicaInv /\ [Next]_vars => [Apart => Only]_vars
  BY <1>1
<1> QED
  BY <1>2, ChangesKept, PTL DEF Safety, OnlyItsRow
=============================================================================
