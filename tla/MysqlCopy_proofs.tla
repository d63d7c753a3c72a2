--------------------------- MODULE MysqlCopy_proofs ---------------------------
(***************************************************************************)
(* Proofs about MysqlCopy, for any threads, any tables, rows and values.   *)
(*                                                                         *)
(* The first half is about a table as text: what the thread writes with    *)
(* quote_literal_local_withoid and the separators, the csv reader of the   *)
(* target reads back as it was meant.                                      *)
(***************************************************************************)
EXTENDS MysqlCopy, Induction, SequenceTheorems, TLAPS

Value == {Null} \union Chars

-----------------------------------------------------------------------------
(* The csv reader.  Its state, and what it is after a text.                *)
Acc(rows, row, field, quoted, inside, held) ==
  [rows |-> rows, row |-> row, field |-> field,
   quoted |-> quoted, inside |-> inside, held |-> held]

CsvState ==
  [rows : Seq(Seq(Value)), row : Seq(Value), field : Chars,
   quoted : BOOLEAN, inside : BOOLEAN, held : BOOLEAN]

After(acc, text) ==
  LET after[n \in 0 .. Len(text)] ==
        IF n = 0 THEN acc ELSE CsvStep(after[n - 1], text[n], Null)
  IN  after[Len(text)]

LEMMA EndFieldType ==
  ASSUME NEW acc \in CsvState
  PROVE  /\ EndField(acc, Null) \in CsvState
         /\ EndField(acc, Null).rows = acc.rows
         /\ EndField(acc, Null).row \in Seq(Value)
<1> DEFINE v == IF acc.field = <<>> /\ ~acc.quoted THEN Null ELSE acc.field
           r == Append(acc.row, v)
<1>1. v \in Value
  BY DEF CsvState, Value
<1>2. acc.row \in Seq(Value)
  BY DEF CsvState
<1> HIDE DEF v
<1>3. r \in Seq(Value)
  BY <1>1, <1>2, AppendProperties
<1>4. EndField(acc, Null) = [acc EXCEPT !.row = r, !.field = <<>>, !.quoted = FALSE]
  BY DEF EndField, r, v, CsvState
<1>5. <<>> \in Chars
  BY EmptySeq DEF Chars
<1> HIDE DEF r
<1> QED
  BY <1>3, <1>4, <1>5 DEF CsvState

LEMMA CsvStepType ==
  ASSUME NEW acc \in CsvState, NEW c \in Char
  PROVE  CsvStep(acc, c, Null) \in CsvState
<1>1. ASSUME NEW a \in CsvState PROVE [a EXCEPT !.field = Append(@, c)] \in CsvState
  <2> DEFINE f == Append(a.field, c)
  <2>1. f \in Chars
    BY AppendProperties DEF CsvState, Chars
  <2> HIDE DEF f
  <2>2. [a EXCEPT !.field = f] \in CsvState
    BY <2>1 DEF CsvState
  <2> QED
    BY <2>2 DEF f
<1>2. ASSUME NEW a \in CsvState PROVE ReadOutside(a, c, Null) \in CsvState
  <2> DEFINE e == EndField(a, Null)
             rs == Append(e.rows, e.row)
  <2>1. e \in CsvState
    BY EndFieldType
  <2> HIDE DEF e
  <2>2. rs \in Seq(Seq(Value)) /\ <<>> \in Seq(Value)
    BY <2>1, AppendProperties, EmptySeq DEF CsvState
  <2> HIDE DEF rs
  <2>3. [e EXCEPT !.rows = rs, !.row = <<>>] \in CsvState
    BY <2>1, <2>2 DEF CsvState
  <2>4. [a EXCEPT !.inside = TRUE, !.quoted = TRUE] \in CsvState
    BY DEF CsvState
  <2> QED
    BY <1>1, <2>1, <2>3, <2>4 DEF ReadOutside, e, rs
<1>3. /\ [acc EXCEPT !.held = FALSE] \in CsvState
      /\ [acc EXCEPT !.held = TRUE] \in CsvState
      /\ [acc EXCEPT !.held = FALSE, !.inside = FALSE] \in CsvState
  BY DEF CsvState
<1>4. [acc EXCEPT !.held = FALSE, !.field = Append(@, c)] \in CsvState
  <2> DEFINE f == Append(acc.field, c)
  <2>1. f \in Chars
    BY AppendProperties DEF CsvState, Chars
  <2> HIDE DEF f
  <2>2. [acc EXCEPT !.held = FALSE, !.field = f] \in CsvState
    BY <2>1 DEF CsvState
  <2> QED
    BY <2>2 DEF f
<1> QED
  BY <1>1, <1>2, <1>3, <1>4 DEF CsvStep

(* The reader goes through f when it reads text from acc.                  *)
Reads(f, acc, text) ==
  /\ f \in [0 .. Len(text) -> CsvState]
  /\ f[0] = acc
  /\ \A i \in 1 .. Len(text) : f[i] = CsvStep(f[i - 1], text[i], Null)

LEMMA ReadsExists ==
  ASSUME NEW acc \in CsvState, NEW text \in Chars
  PROVE  \E f : Reads(f, acc, text)
<1> DEFINE n == Len(text)
           F == [p \in (1 .. n) \X CsvState |-> CsvStep(p[2], text[p[1]], Null)]
<1>0. n \in Nat /\ \A i \in 1 .. n : text[i] \in Char
  BY LenProperties, ElementOfSeq DEF Chars
<1>1. F \in [(1 .. n) \X CsvState -> CsvState]
  BY <1>0, CsvStepType
<1>2. \A i \in 1 .. n : \A a \in CsvState : F[<<i, a>>] = CsvStep(a, text[i], Null)
  OBVIOUS
<1> HIDE DEF F
<1>3. PICK f : IsRun(f, acc, F, n, CsvState)
  BY <1>0, <1>1, RunExists
<1>4. f \in [0 .. n -> CsvState] /\ f[0] = acc
  BY <1>3 DEF IsRun
<1>5. ASSUME NEW i \in 1 .. n PROVE f[i] = CsvStep(f[i - 1], text[i], Null)
  <2>1. f[i - 1] \in CsvState
    BY <1>0, <1>4
  <2> QED
    BY <1>2, <1>3, <2>1 DEF IsRun
<1> QED
  BY <1>4, <1>5 DEF Reads

LEMMA AfterIsEnd ==
  ASSUME NEW acc \in CsvState, NEW text \in Chars, NEW f, Reads(f, acc, text)
  PROVE  After(acc, text) = f[Len(text)]
<1> DEFINE n == Len(text)
           P(h) == h = [i \in 0 .. n |->
                          IF i = 0 THEN acc ELSE CsvStep(h[i - 1], text[i], Null)]
           c == CHOOSE h : P(h)
<1>0. n \in Nat
  BY LenProperties DEF Chars
<1>1. After(acc, text) = c[n]
  BY DEF After
<1>2. P(f)
  <2> DEFINE h == [i \in 0 .. n |->
                     IF i = 0 THEN acc ELSE CsvStep(f[i - 1], text[i], Null)]
  <2>1. \A i \in 0 .. n : h[i] = f[i]
    BY <1>0 DEF Reads
  <2>2. h = f
    BY <2>1 DEF Reads
  <2> QED
    BY <2>2
<1>3. P(c)
  BY <1>2
<1>4. c[0] = acc /\ \A i \in 1 .. n : c[i] = CsvStep(c[i - 1], text[i], Null)
  <2> HIDE DEF c
  <2>1. 0 \in 0 .. n /\ c[0] = acc
    BY <1>0, <1>3
  <2>2. ASSUME NEW i \in 1 .. n PROVE c[i] = CsvStep(c[i - 1], text[i], Null)
    BY <1>3
  <2> QED
    BY <2>1, <2>2
<1> HIDE DEF P, c
<1> DEFINE T == {i \in 0 .. n : c[i] = f[i]}
<1>5. 0 \in T
  BY <1>0, <1>4 DEF Reads
<1>6. ASSUME NEW i \in 1 .. n, i - 1 \in T PROVE i \in T
  <2>1. c[i - 1] = f[i - 1]
    BY <1>6
  <2> QED
    BY <1>4, <2>1 DEF Reads
<1> HIDE DEF T
<1>7. \A i \in 0 .. n : i \in T
  BY <1>0, <1>5, <1>6, UpTo
<1>8. c[n] = f[n]
  BY <1>0, <1>7 DEF T
<1> QED
  BY <1>1, <1>8, LenProperties

LEMMA AfterType ==
  ASSUME NEW acc \in CsvState, NEW text \in Chars
  PROVE  After(acc, text) \in CsvState
<1>1. PICK f : Reads(f, acc, text)
  BY ReadsExists
<1>2. Len(text) \in 0 .. Len(text)
  BY LenProperties DEF Chars
<1> QED
  BY <1>1, <1>2, AfterIsEnd DEF Reads

LEMMA AfterEmpty ==
  ASSUME NEW acc \in CsvState
  PROVE  After(acc, <<>>) = acc
<1>1. <<>> \in Chars /\ Len(<<>>) = 0
  BY EmptySeq DEF Chars
<1>2. PICK f : Reads(f, acc, <<>>)
  BY <1>1, ReadsExists
<1> QED
  BY <1>1, <1>2, AfterIsEnd DEF Reads

(* A text is read part by part.                                            *)
LEMMA AfterConcat ==
  ASSUME NEW acc \in CsvState, NEW s \in Chars, NEW t \in Chars
  PROVE  After(acc, s \o t) = After(After(acc, s), t)
<1> DEFINE m == Len(s)
           n == Len(t)
           st == s \o t
<1>1. /\ st \in Chars /\ Len(st) = m + n
      /\ \A i \in 1 .. m : st[i] = s[i]
      /\ \A i \in 1 .. n : st[m + i] = t[i]
  BY ConcatRows DEF Chars
<1>2. m \in Nat /\ n \in Nat
  BY LenProperties DEF Chars
<1> HIDE DEF m, n, st
<1>3. PICK f : Reads(f, acc, st)
  BY <1>1, ReadsExists
<1> DEFINE g == [i \in 0 .. m |-> f[i]]
           h == [i \in 0 .. n |-> f[m + i]]
<1>4. /\ f \in [0 .. m + n -> CsvState] /\ f[0] = acc
      /\ \A i \in 1 .. m + n : f[i] = CsvStep(f[i - 1], st[i], Null)
  BY <1>1, <1>3 DEF Reads
<1>5. Reads(g, acc, s)
  <2>1. g \in [0 .. m -> CsvState] /\ g[0] = acc
    BY <1>2, <1>4
  <2>2. ASSUME NEW i \in 1 .. m PROVE g[i] = CsvStep(g[i - 1], s[i], Null)
    <3>1. i \in 1 .. m + n /\ g[i] = f[i] /\ g[i - 1] = f[i - 1]
      BY <1>2
    <3> QED
      BY <1>1, <1>4, <3>1
  <2> HIDE DEF g
  <2> QED
    BY <2>1, <2>2 DEF Reads, m
<1>6. After(acc, s) = f[m] /\ f[m] \in CsvState
  <2>1. g[m] = f[m] /\ f[m] \in CsvState
    BY <1>2, <1>4
  <2> HIDE DEF g
  <2> QED
    BY <1>5, <2>1, AfterIsEnd DEF m
<1>7. Reads(h, f[m], t)
  <2>1. h \in [0 .. n -> CsvState] /\ h[0] = f[m]
    BY <1>2, <1>4
  <2>2. ASSUME NEW i \in 1 .. n PROVE h[i] = CsvStep(h[i - 1], t[i], Null)
    <3> DEFINE k == m + i
    <3>1. k \in 1 .. m + n /\ h[i] = f[k] /\ h[i - 1] = f[k - 1]
      BY <1>2
    <3>2. st[k] = t[i]
      BY <1>1
    <3> HIDE DEF k, h
    <3>3. f[k] = CsvStep(f[k - 1], st[k], Null)
      BY <1>4, <3>1
    <3> QED
      BY <3>1, <3>2, <3>3
  <2> HIDE DEF h
  <2> QED
    BY <2>1, <2>2 DEF Reads, n
<1>8. After(f[m], t) = f[m + n]
  <2>1. h[n] = f[m + n]
    BY <1>2
  <2> HIDE DEF h
  <2> QED
    BY <1>6, <1>7, <2>1, AfterIsEnd DEF n
<1>9. After(acc, st) = f[m + n]
  BY <1>1, <1>3, AfterIsEnd
<1> QED
  BY <1>6, <1>8, <1>9 DEF st

LEMMA AfterOne ==
  ASSUME NEW acc \in CsvState, NEW c \in Char
  PROVE  After(acc, <<c>>) = CsvStep(acc, c, Null)
<1>1. <<c>> \in Chars /\ Len(<<c>>) = 1 /\ <<c>>[1] = c
  <2>1. <<c>> \in Seq(Char)
    BY OneElement
  <2> QED
    BY <2>1 DEF Chars
<1>2. PICK f : Reads(f, acc, <<c>>)
  BY <1>1, ReadsExists
<1>3. f[0] = acc /\ f[1] = CsvStep(f[0], c, Null)
  <2>1. 1 \in 1 .. 1 /\ 1 - 1 = 0
    OBVIOUS
  <2> HIDE DEF Reads
  <2> QED
    BY <1>1, <1>2, <2>1 DEF Reads
<1> QED
  BY <1>1, <1>2, <1>3, AfterIsEnd

-----------------------------------------------------------------------------
(* The steps of the reader that are needed.                                *)

LEMMA ReadsPlain ==
  ASSUME NEW R, NEW r, NEW f, NEW c, c \notin {"|", "\n", Quote}
  PROVE  CsvStep(Acc(R, r, f, FALSE, FALSE, FALSE), c, Null)
           = Acc(R, r, Append(f, c), FALSE, FALSE, FALSE)
BY DEF CsvStep, ReadOutside, Acc

LEMMA ReadsOpening ==
  ASSUME NEW R, NEW r, NEW f
  PROVE  CsvStep(Acc(R, r, f, FALSE, FALSE, FALSE), Quote, Null)
           = Acc(R, r, f, TRUE, TRUE, FALSE)
BY DEF CsvStep, ReadOutside, Acc, Quote

LEMMA ReadsInside ==
  ASSUME NEW R, NEW r, NEW f, NEW c, c # Quote
  PROVE  CsvStep(Acc(R, r, f, TRUE, TRUE, FALSE), c, Null)
           = Acc(R, r, Append(f, c), TRUE, TRUE, FALSE)
BY DEF CsvStep, Acc

LEMMA ReadsQuote ==
  ASSUME NEW R, NEW r, NEW f
  PROVE  /\ CsvStep(Acc(R, r, f, TRUE, TRUE, FALSE), Quote, Null)
              = Acc(R, r, f, TRUE, TRUE, TRUE)
         /\ CsvStep(Acc(R, r, f, TRUE, TRUE, TRUE), Quote, Null)
              = Acc(R, r, Append(f, Quote), TRUE, TRUE, FALSE)
BY DEF CsvStep, Acc

(* A separator ends the field, after a quote or not.                       *)
LEMMA QuotedEnds ==
  ASSUME NEW R, NEW r, NEW f
  PROVE  /\ CsvStep(Acc(R, r, f, TRUE, TRUE, TRUE), "|", Null)
              = Acc(R, Append(r, f), <<>>, FALSE, FALSE, FALSE)
         /\ CsvStep(Acc(R, r, f, TRUE, TRUE, TRUE), "\n", Null)
              = Acc(Append(R, Append(r, f)), <<>>, <<>>, FALSE, FALSE, FALSE)
BY DEF CsvStep, ReadOutside, EndField, Acc, Quote

LEMMA EmptyEnds ==
  ASSUME NEW R, NEW r
  PROVE  /\ CsvStep(Acc(R, r, <<>>, FALSE, FALSE, FALSE), "|", Null)
              = Acc(R, Append(r, Null), <<>>, FALSE, FALSE, FALSE)
         /\ CsvStep(Acc(R, r, <<>>, FALSE, FALSE, FALSE), "\n", Null)
              = Acc(Append(R, Append(r, Null)), <<>>, <<>>, FALSE, FALSE, FALSE)
BY DEF CsvStep, ReadOutside, EndField, Acc, Quote

LEMMA AccType ==
  ASSUME NEW R \in Seq(Seq(Value)), NEW r \in Seq(Value), NEW f \in Chars,
         NEW q \in BOOLEAN, NEW b \in BOOLEAN, NEW h \in BOOLEAN
  PROVE  Acc(R, r, f, q, b, h) \in CsvState
BY DEF Acc, CsvState

-----------------------------------------------------------------------------
(* A quoted value.  What is written for a character between the quotes.    *)
Written(c) == IF SQL_STR_DOUBLE(c) THEN <<c, c>> ELSE <<c>>

LEMMA OneChar == \A c \in Char : <<c>> \in Chars
BY OneElement DEF Chars

LEMMA WrittenType ==
  ASSUME NEW c \in Char
  PROVE  /\ Written(c) \in Chars
         /\ Written(c) = IF c \in {Quote, Backslash} THEN <<c>> \o <<c>> ELSE <<c>>
<1>1. <<c>> \in Chars
  BY OneChar
<1>2. <<c>> \o <<c>> \in Chars
  BY <1>1, ConcatProperties DEF Chars
<1>3. <<c, c>> = <<c>> \o <<c>>
  BY TwoElements
<1> QED
  BY <1>1, <1>2, <1>3 DEF Written, SQL_STR_DOUBLE

(* Doubled goes character by character.                                    *)
LEMMA DoubledSteps ==
  ASSUME NEW src \in Chars
  PROVE  \E d \in [0 .. Len(src) -> Chars] :
           /\ d[0] = <<>>
           /\ \A i \in 1 .. Len(src) : d[i] = d[i - 1] \o Written(src[i])
           /\ Doubled(src) = d[Len(src)]
<1> DEFINE n == Len(src)
           F == [p \in (1 .. n) \X Chars |-> p[2] \o Written(src[p[1]])]
           P(h) == h = [i \in 0 .. n |->
                          IF i = 0 THEN <<>>
                          ELSE h[i - 1] \o (IF SQL_STR_DOUBLE(src[i])
                                            THEN <<src[i], src[i]>> ELSE <<src[i]>>)]
           c == CHOOSE h : P(h)
<1>0. n \in Nat /\ (\A i \in 1 .. n : src[i] \in Char) /\ <<>> \in Chars
  BY LenProperties, ElementOfSeq, EmptySeq DEF Chars
<1>1. F \in [(1 .. n) \X Chars -> Chars]
  BY <1>0, WrittenType, ConcatProperties DEF Chars
<1>2. \A i \in 1 .. n : \A a \in Chars : F[<<i, a>>] = a \o Written(src[i])
  OBVIOUS
<1> HIDE DEF F
<1>3. PICK f : IsRun(f, <<>>, F, n, Chars)
  BY <1>0, <1>1, RunExists
<1>4. f \in [0 .. n -> Chars] /\ f[0] = <<>>
  BY <1>3 DEF IsRun
<1>5. ASSUME NEW i \in 1 .. n PROVE f[i] = f[i - 1] \o Written(src[i])
  <2>1. f[i - 1] \in Chars
    BY <1>0, <1>4
  <2> QED
    BY <1>2, <1>3, <2>1 DEF IsRun
<1>6. P(f)
  <2> DEFINE h == [i \in 0 .. n |->
                     IF i = 0 THEN <<>>
                     ELSE f[i - 1] \o (IF SQL_STR_DOUBLE(src[i])
                                       THEN <<src[i], src[i]>> ELSE <<src[i]>>)]
  <2>1. ASSUME NEW i \in 0 .. n PROVE h[i] = f[i]
    <3>1. CASE i = 0
      BY <1>4, <3>1
    <3>2. CASE i # 0
      <4>1. i \in 1 .. n
        BY <1>0, <3>2
      <4> QED
        BY <1>5, <3>2, <4>1 DEF Written
    <3> QED
      BY <3>1, <3>2
  <2>2. h = f
    BY <1>4, <2>1
  <2> QED
    BY <2>2
<1>7. P(c)
  BY <1>6
<1>8. Doubled(src) = c[n]
  BY DEF Doubled
<1>9. c[0] = <<>> /\ \A i \in 1 .. n : c[i] = c[i - 1] \o Written(src[i])
  <2> HIDE DEF c
  <2>0. c = [i \in 0 .. n |-> IF i = 0 THEN <<>> ELSE c[i - 1] \o Written(src[i])]
    BY <1>7 DEF Written
  <2> HIDE DEF P
  <2>1. 0 \in 0 .. n /\ c[0] = <<>>
    BY <1>0, <2>0
  <2>2. ASSUME NEW i \in 1 .. n PROVE c[i] = c[i - 1] \o Written(src[i])
    BY SMTT(60), <2>0
  <2> QED
    BY <2>1, <2>2
<1> HIDE DEF P, c
<1> DEFINE T == {i \in 0 .. n : c[i] = f[i]}
<1>10. 0 \in T
  BY <1>0, <1>4, <1>9
<1>11. ASSUME NEW i \in 1 .. n, i - 1 \in T PROVE i \in T
  <2>1. c[i - 1] = f[i - 1]
    BY <1>11
  <2>2. c[i] = f[i - 1] \o Written(src[i])
    BY <1>9, <2>1
  <2>3. c[i] = f[i]
    BY <1>5, <2>2
  <2> QED
    BY <2>3
<1> HIDE DEF T
<1>12. \A i \in 0 .. n : i \in T
  BY <1>0, <1>10, <1>11, UpTo
<1>13. c[n] = f[n]
  BY <1>0, <1>12 DEF T
<1> QED
  BY <1>4, <1>5, <1>8, <1>13

(* What the reader makes of one written character.                         *)
LEMMA WrittenReads ==
  ASSUME NEW R \in Seq(Seq(Value)), NEW r \in Seq(Value), NEW f \in Chars, NEW c \in Char
  PROVE  \E g \in Chars :
           /\ After(Acc(R, r, f, TRUE, TRUE, FALSE), Written(c)) = Acc(R, r, g, TRUE, TRUE, FALSE)
           /\ c # Backslash => g = Append(f, c)
<1> DEFINE a == Acc(R, r, f, TRUE, TRUE, FALSE)
           fc == Append(f, c)
           fcc == Append(fc, c)
<1>0. a \in CsvState /\ <<c>> \in Chars
  BY AccType, OneChar
<1>1. fc \in Chars /\ fcc \in Chars
  BY AppendProperties DEF Chars
<1>2. After(a, <<c>>) = CsvStep(a, c, Null)
  BY <1>0, AfterOne
<1>3. After(a, <<c>> \o <<c>>) = After(After(a, <<c>>), <<c>>)
  BY <1>0, AfterConcat
<1> HIDE DEF fc, fcc
<1>4. CASE c = Quote
  <2>1. Written(c) = <<c>> \o <<c>>
    BY <1>4, WrittenType
  <2> DEFINE b == Acc(R, r, f, TRUE, TRUE, TRUE)
  <2>2. After(a, <<c>>) = b /\ b \in CsvState
    BY <1>2, <1>4, ReadsQuote, AccType
  <2>3. After(b, <<c>>) = CsvStep(b, c, Null)
    BY <2>2, AfterOne
  <2>4. CsvStep(b, c, Null) = Acc(R, r, fc, TRUE, TRUE, FALSE)
    BY <1>4, ReadsQuote DEF fc
  <2> QED
    BY <1>1, <1>3, <2>1, <2>2, <2>3, <2>4 DEF fc
<1>5. CASE c = Backslash
  <2>1. Written(c) = <<c>> \o <<c>> /\ c # Quote
    BY <1>5, WrittenType DEF Quote, Backslash
  <2> DEFINE b == Acc(R, r, fc, TRUE, TRUE, FALSE)
  <2>2. After(a, <<c>>) = b /\ b \in CsvState
    BY <1>1, <1>2, <2>1, ReadsInside, AccType DEF fc
  <2>3. After(b, <<c>>) = CsvStep(b, c, Null)
    BY <2>2, AfterOne
  <2>4. CsvStep(b, c, Null) = Acc(R, r, fcc, TRUE, TRUE, FALSE)
    BY ZenonT(60), <2>1, ReadsInside DEF fcc
  <2> QED
    BY <1>1, <1>3, <1>5, <2>1, <2>2, <2>3, <2>4
<1>6. CASE c \notin {Quote, Backslash}
  <2>1. Written(c) = <<c>>
    BY <1>6, WrittenType
  <2>2. After(a, <<c>>) = Acc(R, r, fc, TRUE, TRUE, FALSE)
    BY ZenonT(60), <1>2, <1>6, ReadsInside DEF fc
  <2> QED
    BY <1>1, <2>1, <2>2 DEF fc
<1> QED
  BY <1>4, <1>5, <1>6

(* The prefix of a text, one character longer.                             *)
LEMMA PrefixNext ==
  ASSUME NEW s \in Chars, NEW i \in 1 .. Len(s)
  PROVE  SubSeq(s, 1, i) = Append(SubSeq(s, 1, i - 1), s[i])
<1>1. Len(s) \in Nat /\ 1 \in 1 .. Len(s) /\ s[i] \in Char
  BY LenProperties, ElementOfSeq DEF Chars
<1>2. SubSeq(s, 1, i) = SubSeq(s, 1, i - 1) \o <<s[i]>>
  BY <1>1, SubSeqRecursiveSecond DEF Chars
<1>3. SubSeq(s, 1, i - 1) \in Seq(Char)
  <2>1. 1 \in Int /\ i - 1 \in Int /\ \A j \in 1 .. i - 1 : s[j] \in Char
    BY <1>1, ElementOfSeq DEF Chars
  <2> QED
    BY <2>1, SubSeqProperties
<1> QED
  BY <1>1, <1>2, <1>3, AppendIsConcat

(* The text between the quotes is read as it was, if it has no backslash.  *)
LEMMA DoubledReads ==
  ASSUME NEW R \in Seq(Seq(Value)), NEW r \in Seq(Value), NEW e \in Chars, NEW src \in Chars
  PROVE  /\ Doubled(src) \in Chars
         /\ \E g \in Chars :
              /\ After(Acc(R, r, e, TRUE, TRUE, FALSE), Doubled(src))
                   = Acc(R, r, g, TRUE, TRUE, FALSE)
              /\ e = <<>> /\ Backslash \notin ToSet(src) => g = src
<1> DEFINE n == Len(src)
           a == Acc(R, r, e, TRUE, TRUE, FALSE)
           ok == e = <<>> /\ Backslash \notin ToSet(src)
<1>0. /\ n \in Nat /\ \A i \in 1 .. n : src[i] \in Char
      /\ a \in CsvState
      /\ DOMAIN src = 1 .. n
  BY LenProperties, ElementOfSeq, AccType DEF Chars
<1>1. PICK d \in [0 .. n -> Chars] :
        /\ d[0] = <<>>
        /\ \A i \in 1 .. n : d[i] = d[i - 1] \o Written(src[i])
        /\ Doubled(src) = d[n]
  BY DoubledSteps
<1>2. \A i \in 1 .. n : ok => src[i] # Backslash
  BY <1>0 DEF ToSet
<1>a. SubSeq(src, 1, n) = src
  BY SubSeqFull DEF Chars
<1>b. \A i \in 1 .. n : SubSeq(src, 1, i) = Append(SubSeq(src, 1, i - 1), src[i])
  BY PrefixNext
<1> DEFINE Fine(i) == \E g \in Chars :
                        /\ After(a, d[i]) = Acc(R, r, g, TRUE, TRUE, FALSE)
                        /\ ok => g = SubSeq(src, 1, i)
           T == {i \in 0 .. n : Fine(i)}
<1> HIDE DEF ok, a, n
<1>3. 0 \in T
  <2>1. After(a, d[0]) = Acc(R, r, e, TRUE, TRUE, FALSE)
    BY <1>0, <1>1, AfterEmpty DEF a
  <2>2. ok => e = SubSeq(src, 1, 0)
    BY SubSeqEmpty DEF ok
  <2>3. Fine(0)
    BY <2>1, <2>2
  <2> HIDE DEF Fine
  <2> QED
    BY <1>0, <2>3
<1>4. ASSUME NEW i \in 1 .. n, i - 1 \in T PROVE i \in T
  <2> DEFINE x == src[i]
  <2>1. PICK g \in Chars : /\ After(a, d[i - 1]) = Acc(R, r, g, TRUE, TRUE, FALSE)
                           /\ ok => g = SubSeq(src, 1, i - 1)
    BY <1>4
  <2>2. d[i - 1] \in Chars /\ x \in Char /\ Written(x) \in Chars
    <3>1. i - 1 \in 0 .. n
      BY <1>0
    <3> QED
      BY <1>0, <1>1, <3>1, WrittenType
  <2>3. PICK h \in Chars :
          /\ After(Acc(R, r, g, TRUE, TRUE, FALSE), Written(x)) = Acc(R, r, h, TRUE, TRUE, FALSE)
          /\ x # Backslash => h = Append(g, x)
    BY <2>2, WrittenReads
  <2>4. After(a, d[i - 1] \o Written(x)) = After(After(a, d[i - 1]), Written(x))
    BY <1>0, <2>2, AfterConcat
  <2>5. After(a, d[i]) = Acc(R, r, h, TRUE, TRUE, FALSE)
    BY <1>1, <2>1, <2>3, <2>4
  <2>6. ok => h = SubSeq(src, 1, i)
    BY <1>2, <1>b, <2>1, <2>3
  <2>7. Fine(i)
    BY <2>5, <2>6
  <2> HIDE DEF Fine
  <2> QED
    BY <2>7
<1> HIDE DEF T
<1>5. \A i \in 0 .. n : i \in T
  BY <1>0, <1>3, <1>4, UpTo
<1> HIDE DEF Fine
<1>6. n \in 0 .. n /\ Fine(n)
  BY <1>0, <1>5 DEF T
<1>7. d[n] \in Chars
  BY <1>6
<1> QED
  BY <1>1, <1>6, <1>7, <1>a DEF a, ok, Fine, n

(* What is written with quote_literal_internal ends a quoted field.        *)
LEMMA QuotedReads ==
  ASSUME NEW R \in Seq(Seq(Value)), NEW r \in Seq(Value), NEW src \in Chars
  PROVE  /\ quote_literal_internal(src) \in Chars
         /\ \E g \in Chars :
              /\ After(Acc(R, r, <<>>, FALSE, FALSE, FALSE), quote_literal_internal(src))
                   = Acc(R, r, g, TRUE, TRUE, TRUE)
              /\ Backslash \notin ToSet(src) => g = src
<1> DEFINE e == IF Backslash \in ToSet(src) THEN <<"E">> ELSE <<>>
           q == <<Quote>>
           d == Doubled(src)
           a == Acc(R, r, <<>>, FALSE, FALSE, FALSE)
           b == Acc(R, r, e, FALSE, FALSE, FALSE)
           c == Acc(R, r, e, TRUE, TRUE, FALSE)
<1>1. Quote \in Char /\ "E" \in Char
  BY CharAssumption
<1>2. /\ e \in Chars /\ q \in Chars /\ <<>> \in Chars /\ <<"E">> \in Chars
      /\ Backslash \notin ToSet(src) => e = <<>>
  BY <1>1, OneChar, EmptySeq DEF Chars
<1>3. quote_literal_internal(src) = ((e \o q) \o d) \o q
  BY DEF quote_literal_internal
<1>4. a \in CsvState /\ b \in CsvState /\ c \in CsvState
  BY <1>2, AccType
<1>5. After(a, e) = b
  <2>1. CASE e = <<>>
    BY <1>4, <2>1, AfterEmpty
  <2>2. CASE e = <<"E">>
    <3>1. After(a, <<"E">>) = CsvStep(a, "E", Null)
      BY <1>1, <1>4, AfterOne
    <3>2. "E" \notin {"|", "\n", Quote}
      BY DEF Quote
    <3>3. Append(<<>>, "E") = <<"E">>
      OBVIOUS
    <3>4. CsvStep(a, "E", Null) = Acc(R, r, Append(<<>>, "E"), FALSE, FALSE, FALSE)
      BY ZenonT(60), <3>2, ReadsPlain
    <3> QED
      BY <2>2, <3>1, <3>3, <3>4
  <2> QED
    BY <2>1, <2>2
<1>6. After(b, q) = c
  BY <1>1, <1>2, <1>4, AfterOne, ReadsOpening
<1>7. PICK g \in Chars :
        /\ d \in Chars
        /\ After(c, d) = Acc(R, r, g, TRUE, TRUE, FALSE)
        /\ e = <<>> /\ Backslash \notin ToSet(src) => g = src
  BY ZenonT(60), <1>2, DoubledReads
<1> DEFINE f == Acc(R, r, g, TRUE, TRUE, FALSE)
<1>8. f \in CsvState /\ After(f, q) = Acc(R, r, g, TRUE, TRUE, TRUE)
  BY <1>1, AccType, AfterOne, ReadsQuote
<1> HIDE DEF e, q, d, a, b, c, f
<1>9. e \o q \in Chars /\ (e \o q) \o d \in Chars /\ ((e \o q) \o d) \o q \in Chars
  BY <1>2, <1>7, ConcatProperties DEF Chars
<1>10. After(a, e \o q) = c
  BY <1>2, <1>4, <1>5, <1>6, AfterConcat
<1>11. After(a, (e \o q) \o d) = f
  BY ZenonT(60), <1>4, <1>7, <1>9, <1>10, AfterConcat DEF f
<1>12. After(a, ((e \o q) \o d) \o q) = After(f, q)
  BY <1>2, <1>4, <1>9, <1>11, AfterConcat
<1> QED
  BY <1>2, <1>3, <1>7, <1>8, <1>9, <1>12 DEF a

(* A plain text is read as it is.                                          *)
LEMMA PlainReads ==
  ASSUME NEW R \in Seq(Seq(Value)), NEW r \in Seq(Value), NEW src \in Chars, Plain(src)
  PROVE  After(Acc(R, r, <<>>, FALSE, FALSE, FALSE), src) = Acc(R, r, src, FALSE, FALSE, FALSE)
<1> DEFINE n == Len(src)
           a == Acc(R, r, <<>>, FALSE, FALSE, FALSE)
           p(i) == SubSeq(src, 1, i)
<1>0. /\ n \in Nat /\ \A i \in 1 .. n : src[i] \in Char
      /\ DOMAIN src = 1 .. n
      /\ <<>> \in Chars
  BY LenProperties, ElementOfSeq, EmptySeq DEF Chars
<1>1. \A i \in 1 .. n : src[i] \notin {"|", "\n", Quote}
  BY <1>0 DEF Plain, ToSet
<1>2. a \in CsvState
  BY <1>0, AccType
<1>3. \A i \in 0 .. n : p(i) \in Chars
  <2> SUFFICES ASSUME NEW i \in 0 .. n PROVE p(i) \in Chars
    OBVIOUS
  <2>1. 1 \in Int /\ i \in Int /\ \A j \in 1 .. i : src[j] \in Char
    BY <1>0
  <2> QED
    BY <2>1, SubSeqProperties DEF Chars
<1>4. p(0) = <<>> /\ p(n) = src
  BY SubSeqEmpty, SubSeqFull DEF Chars
<1>5. \A i \in 1 .. n : p(i) = p(i - 1) \o <<src[i]>> /\ p(i) = Append(p(i - 1), src[i])
  <2> SUFFICES ASSUME NEW i \in 1 .. n
               PROVE  p(i) = p(i - 1) \o <<src[i]>> /\ p(i) = Append(p(i - 1), src[i])
    OBVIOUS
  <2>1. p(i) = Append(p(i - 1), src[i])
    BY PrefixNext
  <2>2. p(i - 1) \in Seq(Char) /\ src[i] \in Char
    BY <1>0, <1>3 DEF Chars
  <2> QED
    BY <2>1, <2>2, AppendIsConcat
<1> HIDE DEF p, a, n
<1> DEFINE Fine(i) == After(a, p(i)) = Acc(R, r, p(i), FALSE, FALSE, FALSE)
           T == {i \in 0 .. n : Fine(i)}
<1>6. 0 \in T
  <2>1. After(a, p(0)) = a /\ a = Acc(R, r, p(0), FALSE, FALSE, FALSE)
    BY <1>2, <1>4, AfterEmpty DEF a
  <2>2. Fine(0)
    BY <2>1
  <2> HIDE DEF Fine
  <2> QED
    BY <1>0, <2>2
<1>7. ASSUME NEW i \in 1 .. n, i - 1 \in T PROVE i \in T
  <2> DEFINE x == src[i]
             b == Acc(R, r, p(i - 1), FALSE, FALSE, FALSE)
  <2>1. After(a, p(i - 1)) = b
    BY <1>7
  <2>0. i - 1 \in 0 .. n
    BY <1>0
  <2>2. p(i - 1) \in Chars /\ x \in Char /\ <<x>> \in Chars /\ b \in CsvState
    BY <1>0, <1>3, <2>0, OneChar, AccType
  <2>3. After(a, p(i)) = After(b, <<x>>)
    <3>1. After(a, p(i - 1) \o <<x>>) = After(After(a, p(i - 1)), <<x>>)
      BY <1>2, <2>2, AfterConcat
    <3> QED
      BY <1>5, <2>1, <3>1
  <2>4. After(b, <<x>>) = CsvStep(b, x, Null)
    BY <2>2, AfterOne
  <2>5. CsvStep(b, x, Null) = Acc(R, r, Append(p(i - 1), x), FALSE, FALSE, FALSE)
    BY ZenonT(60), <1>1, ReadsPlain
  <2>6. Fine(i)
    BY <1>5, <2>3, <2>4, <2>5
  <2> HIDE DEF Fine
  <2> QED
    BY <2>6
<1> HIDE DEF T
<1>8. \A i \in 0 .. n : i \in T
  BY <1>0, <1>6, <1>7, UpTo
<1> HIDE DEF Fine
<1>9. Fine(n)
  BY <1>0, <1>8 DEF T
<1> QED
  BY <1>4, <1>9 DEF Fine, a

-----------------------------------------------------------------------------
(* A text up to its first NUL.  There is such a place, or the text ends.   *)
LEMMA StrlenIs ==
  ASSUME NEW v \in Chars
  PROVE  /\ strlen(v) \in 0 .. Len(v)
         /\ \A i \in 1 .. strlen(v) : v[i] # Nul
         /\ strlen(v) < Len(v) => v[strlen(v) + 1] = Nul
<1> DEFINE P(n) == /\ \A i \in 1 .. n : v[i] # Nul
                   /\ n < Len(v) => v[n + 1] = Nul
<1>0. Len(v) \in Nat
  BY LenProperties DEF Chars
<1>1. \E n \in 0 .. Len(v) : P(n)
  <2> SUFFICES ASSUME \A n \in 0 .. Len(v) : ~P(n) PROVE FALSE
    OBVIOUS
  <2> DEFINE T == {n \in 0 .. Len(v) : \A i \in 1 .. n : v[i] # Nul}
  <2>1. 0 \in T
    BY <1>0
  <2>2. ASSUME NEW n \in 1 .. Len(v), n - 1 \in T PROVE n \in T
    <3>1. n - 1 \in 0 .. Len(v) /\ \A i \in 1 .. n - 1 : v[i] # Nul
      BY <2>2
    <3>2. n - 1 < Len(v) /\ (n - 1) + 1 = n
      BY <1>0
    <3>3. v[n] # Nul
      <4> DEFINE m == n - 1
      <4>1. m \in 0 .. Len(v) /\ m + 1 = n /\ \A i \in 1 .. m : v[i] # Nul
        BY <3>1, <3>2
      <4> HIDE DEF m
      <4>2. ~P(m)
        BY <4>1
      <4> QED
        BY <4>1, <4>2
    <3>4. \A i \in 1 .. n : i \in 1 .. n - 1 \/ i = n
      OBVIOUS
    <3> QED
      BY <1>0, <3>1, <3>3, <3>4
  <2> HIDE DEF T
  <2>3. \A n \in 0 .. Len(v) : n \in T
    BY <1>0, <2>1, <2>2, UpTo
  <2>4. Len(v) \in 0 .. Len(v) /\ \A i \in 1 .. Len(v) : v[i] # Nul
    BY <1>0, <2>3 DEF T
  <2> QED
    BY <1>0, <2>4
<1>2. strlen(v) = CHOOSE n \in 0 .. Len(v) : P(n)
  BY DEF strlen
<1> HIDE DEF P
<1>3. strlen(v) \in 0 .. Len(v) /\ P(strlen(v))
  BY <1>1, <1>2
<1> QED
  BY <1>3 DEF P

LEMMA CStringIs ==
  ASSUME NEW v \in Chars
  PROVE  /\ CString(v) \in Chars
         /\ ToSet(CString(v)) \subseteq ToSet(v)
         /\ Nul \notin ToSet(v) => CString(v) = v
<1> DEFINE n == strlen(v)
<1>0. /\ n \in 0 .. Len(v) /\ Len(v) \in Nat /\ v \in Seq(Char)
      /\ n < Len(v) => v[n + 1] = Nul
  BY StrlenIs, LenProperties DEF Chars
<1> HIDE DEF n
<1>1. \A i \in 1 .. n : v[i] \in Char
  BY <1>0, ElementOfSeq
<1>2. /\ SubSeq(v, 1, n) \in Seq(Char) /\ Len(SubSeq(v, 1, n)) = n
      /\ \A i \in 1 .. n : SubSeq(v, 1, n)[i] = v[i]
  <2>1. /\ (IF 1 <= n THEN n - 1 + 1 ELSE 0) = n /\ n \in Int
        /\ \A i \in 1 .. n : i \in 1 .. n - 1 + 1 /\ 1 + i - 1 = i
    BY <1>0
  <2>2. /\ SubSeq(v, 1, n) \in Seq(Char)
        /\ Len(SubSeq(v, 1, n)) = IF 1 <= n THEN n - 1 + 1 ELSE 0
        /\ \A i \in 1 .. n - 1 + 1 : SubSeq(v, 1, n)[i] = v[1 + i - 1]
    BY <1>0, <1>1, <2>1, SubSeqProperties
  <2> QED
    BY <2>1, <2>2
<1>3. CString(v) = SubSeq(v, 1, n)
  BY DEF CString, n
<1>4. DOMAIN v = 1 .. Len(v) /\ DOMAIN CString(v) = 1 .. n
  BY <1>0, <1>2, <1>3, LenProperties
<1>5. ToSet(CString(v)) \subseteq ToSet(v)
  <2> SUFFICES ASSUME NEW i \in 1 .. n PROVE CString(v)[i] \in ToSet(v)
    BY <1>4 DEF ToSet
  <2>1. i \in 1 .. Len(v) /\ CString(v)[i] = v[i]
    BY <1>0, <1>2, <1>3
  <2> QED
    BY <1>4, <2>1 DEF ToSet
<1>6. ASSUME Nul \notin ToSet(v) PROVE CString(v) = v
  <2>1. ~(n < Len(v))
    <3> SUFFICES ASSUME n < Len(v) PROVE FALSE
      OBVIOUS
    <3>1. n + 1 \in DOMAIN v /\ v[n + 1] = Nul
      BY <1>0, <1>4
    <3> QED
      BY <1>6, <3>1 DEF ToSet
  <2>2. n = Len(v)
    BY <1>0, <2>1
  <2>3. SubSeq(v, 1, Len(v)) = v
    BY <1>0, SubSeqFull
  <2> QED
    BY <1>3, <2>2, <2>3
<1> QED
  BY <1>2, <1>3, <1>5, <1>6 DEF Chars

-----------------------------------------------------------------------------
(* A field.  What the program has of a value: it ends at its first NUL.    *)
Cut(v) == IF v = Null THEN Null ELSE CString(v)

(* What a value of a column should be at the target.                       *)
MeantValue(v, type) == IF type = "timestamp" /\ v \in NoDates THEN Null ELSE v

(* A value is as it is in the column.                                      *)
InColumn(v, type) ==
  v \in Value /\ (type \in Raw \union {"timestamp"} /\ v # Null => Plain(v))

Backslashed(v) == v # Null /\ Backslash \in ToSet(v)

Start(R, r) == Acc(R, r, <<>>, FALSE, FALSE, FALSE)

LEMMA StartType ==
  ASSUME NEW R \in Seq(Seq(Value)), NEW r \in Seq(Value)
  PROVE  Start(R, r) \in CsvState
BY AccType, EmptySeq DEF Start, Chars

LEMMA FieldReads ==
  ASSUME NEW R \in Seq(Seq(Value)), NEW r \in Seq(Value), NEW v, NEW type, InColumn(v, type)
  PROVE  /\ Field(v, type) \in Chars
         /\ \E f \in Chars, q \in BOOLEAN, w \in Value :
              /\ After(Start(R, r), Field(v, type)) = Acc(R, r, f, q, q, q)
              /\ w = IF f = <<>> /\ ~q THEN Null ELSE f
              /\ ~Backslashed(v) => w = MeantValue(Cut(v), type)
<1> DEFINE c == CString(v)
<1>0. /\ <<>> \in Chars /\ Null \in Value /\ Chars \subseteq Value
      /\ Start(R, r) = Acc(R, r, <<>>, FALSE, FALSE, FALSE) /\ Start(R, r) \in CsvState
      /\ v \in Value
  BY EmptySeq, StartType DEF Chars, Value, Start, InColumn
<1>1. CASE Field(v, type) = <<>> /\ MeantValue(Cut(v), type) = Null
  <2>1. After(Start(R, r), Field(v, type)) = Acc(R, r, <<>>, FALSE, FALSE, FALSE)
    BY <1>0, <1>1, AfterEmpty
  <2> QED
    BY <1>0, <1>1, <2>1
<1>2. CASE v \in Chars /\ Plain(v) /\ Field(v, type) = v /\ MeantValue(Cut(v), type) = v
  <2>1. After(Start(R, r), Field(v, type)) = Acc(R, r, v, FALSE, FALSE, FALSE)
    BY <1>0, <1>2, PlainReads
  <2>2. v # <<>>
    BY <1>2 DEF Plain
  <2> QED
    BY <1>0, <1>2, <2>1, <2>2
<1>3. CASE /\ v \in Chars /\ v # Null
           /\ Field(v, type) = quote_literal_internal(c) /\ MeantValue(Cut(v), type) = c
  <2>0. c \in Chars /\ ToSet(c) \subseteq ToSet(v)
    BY <1>3, CStringIs
  <2> HIDE DEF c
  <2>1. Field(v, type) \in Chars
    BY <1>3, <2>0, QuotedReads
  <2>2. PICK g \in Chars :
          /\ After(Start(R, r), Field(v, type)) = Acc(R, r, g, TRUE, TRUE, TRUE)
          /\ Backslash \notin ToSet(c) => g = c
    <3>1. \E g \in Chars :
            /\ After(Acc(R, r, <<>>, FALSE, FALSE, FALSE), quote_literal_internal(c))
                 = Acc(R, r, g, TRUE, TRUE, TRUE)
            /\ Backslash \notin ToSet(c) => g = c
      BY <2>0, QuotedReads
    <3> QED
      BY <1>0, <1>3, <3>1
  <2>3. ~Backslashed(v) => g = MeantValue(Cut(v), type)
    BY <1>3, <2>0, <2>2 DEF Backslashed
  <2> QED
    BY <1>0, <2>1, <2>2, <2>3
<1>4. CASE v = Null
  <2>1. Field(v, type) = <<>>
    BY <1>4 DEF Field
  <2>2. Cut(v) = Null /\ MeantValue(Null, type) = Null
    BY <1>4 DEF Cut, MeantValue
  <2> QED
    BY <1>1, <2>1, <2>2
<1>5. CASE v # Null
  <2>1. v \in Chars
    BY <1>0, <1>5 DEF Value
  <2>2. Field(v, type) = quote_literal_local_withoid(v, type, NoDates) /\ Cut(v) = c
    BY <1>5 DEF Field, Cut
  <2>3. CASE type \in Raw \union {"timestamp"}
    <3>1. Plain(v)
      BY <1>5, <2>3 DEF InColumn
    <3>2. c = v
      BY <2>1, <3>1, CStringIs DEF Plain
    <3> HIDE DEF c
    <3>3. CASE type \in Raw
      <4>1. type # "timestamp"
        BY <3>3 DEF Raw
      <4>2. Field(v, type) = v /\ MeantValue(Cut(v), type) = v
        BY <2>2, <3>2, <3>3, <4>1 DEF quote_literal_local_withoid, MeantValue, c
      <4> QED
        BY <1>2, <2>1, <3>1, <4>2
    <3>4. CASE type = "timestamp" /\ v \in NoDates
      <4>1. type \notin Raw
        BY <3>4 DEF Raw
      <4> QED
        BY <1>1, <2>2, <3>2, <3>4, <4>1 DEF quote_literal_local_withoid, MeantValue, c
    <3>5. CASE type = "timestamp" /\ v \notin NoDates
      <4>1. type \notin Raw
        BY <3>5 DEF Raw
      <4>2. Field(v, type) = v /\ MeantValue(Cut(v), type) = v
        BY <2>2, <3>2, <3>5, <4>1 DEF quote_literal_local_withoid, MeantValue, c
      <4> QED
        BY <1>2, <2>1, <3>1, <4>2
    <3> QED
      BY <2>3, <3>3, <3>4, <3>5
  <2>4. CASE type \notin Raw /\ type # "timestamp"
    <3>1. Field(v, type) = quote_literal_internal(c) /\ MeantValue(Cut(v), type) = c
      BY <2>2, <2>4 DEF quote_literal_local_withoid, MeantValue
    <3> QED
      BY <1>3, <1>5, <2>1, <3>1
  <2> QED
    BY <2>3, <2>4
<1> QED
  BY <1>4, <1>5

LEMMA Separators == <<"|">> \in Chars /\ <<"\n">> \in Chars
BY CharAssumption, OneChar

(* A field is followed by a separator.                                     *)
LEMMA FieldEnds ==
  ASSUME NEW R \in Seq(Seq(Value)), NEW r \in Seq(Value), NEW v, NEW type, InColumn(v, type)
  PROVE  \E w \in Value :
           /\ After(Start(R, r), Field(v, type) \o <<"|">>) = Start(R, Append(r, w))
           /\ After(Start(R, r), Field(v, type) \o <<"\n">>)
                = Start(Append(R, Append(r, w)), <<>>)
           /\ ~Backslashed(v) => w = MeantValue(Cut(v), type)
<1>1. PICK f \in Chars, q \in BOOLEAN, w \in Value :
        /\ Field(v, type) \in Chars
        /\ After(Start(R, r), Field(v, type)) = Acc(R, r, f, q, q, q)
        /\ w = IF f = <<>> /\ ~q THEN Null ELSE f
        /\ ~Backslashed(v) => w = MeantValue(Cut(v), type)
  BY FieldReads
<1> DEFINE a == Acc(R, r, f, q, q, q)
<1>2. a \in CsvState /\ Start(R, r) \in CsvState
  BY AccType, StartType
<1>3. "|" \in Char /\ "\n" \in Char
  BY CharAssumption
<1>4. /\ After(a, <<"|">>) = CsvStep(a, "|", Null)
      /\ After(a, <<"\n">>) = CsvStep(a, "\n", Null)
  BY <1>2, <1>3, AfterOne
<1>5. /\ CsvStep(a, "|", Null) = Start(R, Append(r, w))
      /\ CsvStep(a, "\n", Null) = Start(Append(R, Append(r, w)), <<>>)
  <2>1. w = IF f = <<>> /\ ~q THEN Null ELSE f
    BY <1>1
  <2>2. /\ CsvStep(a, "|", Null) = Acc(R, Append(r, w), <<>>, FALSE, FALSE, FALSE)
        /\ CsvStep(a, "\n", Null)
             = Acc(Append(R, Append(r, w)), <<>>, <<>>, FALSE, FALSE, FALSE)
    <3>1. CASE q = TRUE
      <4>1. a = Acc(R, r, f, TRUE, TRUE, TRUE) /\ w = f
        BY <2>1, <3>1
      <4>2. /\ CsvStep(Acc(R, r, f, TRUE, TRUE, TRUE), "|", Null)
                 = Acc(R, Append(r, f), <<>>, FALSE, FALSE, FALSE)
            /\ CsvStep(Acc(R, r, f, TRUE, TRUE, TRUE), "\n", Null)
                 = Acc(Append(R, Append(r, f)), <<>>, <<>>, FALSE, FALSE, FALSE)
        BY QuotedEnds
      <4> QED
        BY <4>1, <4>2
    <3>2. CASE q = FALSE /\ f # <<>>
      <4>1. a = Acc(R, r, f, FALSE, FALSE, FALSE) /\ w = f
        BY <2>1, <3>2
      <4>2. /\ CsvStep(Acc(R, r, f, FALSE, FALSE, FALSE), "|", Null)
                 = Acc(R, Append(r, f), <<>>, FALSE, FALSE, FALSE)
            /\ CsvStep(Acc(R, r, f, FALSE, FALSE, FALSE), "\n", Null)
                 = Acc(Append(R, Append(r, f)), <<>>, <<>>, FALSE, FALSE, FALSE)
        <5>1. f # <<>>
          BY <3>2
        <5> QED
          BY <5>1 DEF CsvStep, ReadOutside, EndField, Acc, Quote
      <4> QED
        BY <4>1, <4>2
    <3>3. CASE q = FALSE /\ f = <<>>
      <4>1. a = Acc(R, r, <<>>, FALSE, FALSE, FALSE) /\ w = Null
        BY <2>1, <3>3
      <4> QED
        BY <4>1, EmptyEnds
    <3> QED
      BY <3>1, <3>2, <3>3
  <2> QED
    BY <2>2 DEF Start
<1> HIDE DEF a
<1>6. /\ After(Start(R, r), Field(v, type) \o <<"|">>) = After(a, <<"|">>)
      /\ After(Start(R, r), Field(v, type) \o <<"\n">>) = After(a, <<"\n">>)
  BY <1>1, <1>2, Separators, AfterConcat DEF a
<1> QED
  BY <1>1, <1>4, <1>5, <1>6

-----------------------------------------------------------------------------
(* A row.                                                                  *)
Separator(i) == IF i = 1 THEN <<>> ELSE <<"|">>

InColumns(row, types) ==
  /\ Len(types) \in Nat \ {0}
  /\ \A i \in 1 .. Len(types) : InColumn(row[i], types[i])

LEMMA RowTextSteps ==
  ASSUME NEW row, NEW types, InColumns(row, types)
  PROVE  \E c \in [0 .. Len(types) -> Chars] :
           /\ c[0] = <<>>
           /\ \A i \in 1 .. Len(types) :
                c[i] = c[i - 1] \o Separator(i) \o Field(row[i], types[i])
           /\ RowText(row, types) = c[Len(types)] \o <<"\n">>
<1> DEFINE n == Len(types)
           F == [p \in (1 .. n) \X Chars |->
                   p[2] \o Separator(p[1]) \o Field(row[p[1]], types[p[1]])]
           P(h) == h = [i \in 0 .. n |->
                          IF i = 0 THEN <<>>
                          ELSE h[i - 1] \o (IF i = 1 THEN <<>> ELSE <<"|">>)
                                 \o Field(row[i], types[i])]
           c == CHOOSE h : P(h)
<1>0. n \in Nat /\ <<>> \in Chars
  BY EmptySeq DEF Chars, InColumns
<1>a. ASSUME NEW i \in 1 .. n PROVE Field(row[i], types[i]) \in Chars /\ Separator(i) \in Chars
  <2>1. InColumn(row[i], types[i])
    BY DEF InColumns
  <2>2. <<>> \in Seq(Seq(Value)) /\ <<>> \in Seq(Value)
    BY EmptySeq
  <2> QED
    BY <1>0, <2>1, <2>2, FieldReads, Separators DEF Separator
<1>b. ASSUME NEW i \in 1 .. n, NEW s \in Chars
      PROVE  s \o Separator(i) \o Field(row[i], types[i]) \in Chars
  BY <1>a, ConcatProperties DEF Chars
<1>1. F \in [(1 .. n) \X Chars -> Chars]
  BY <1>b
<1>2. \A i \in 1 .. n : \A a \in Chars :
        F[<<i, a>>] = a \o Separator(i) \o Field(row[i], types[i])
  OBVIOUS
<1> HIDE DEF F
<1>3. PICK f : IsRun(f, <<>>, F, n, Chars)
  BY <1>0, <1>1, RunExists
<1>4. f \in [0 .. n -> Chars] /\ f[0] = <<>>
  BY <1>3 DEF IsRun
<1>5. ASSUME NEW i \in 1 .. n
      PROVE  f[i] = f[i - 1] \o Separator(i) \o Field(row[i], types[i])
  <2>1. f[i - 1] \in Chars
    BY <1>0, <1>4
  <2> QED
    BY <1>2, <1>3, <2>1 DEF IsRun
<1>6. P(f)
  <2> DEFINE h == [i \in 0 .. n |->
                     IF i = 0 THEN <<>>
                     ELSE f[i - 1] \o (IF i = 1 THEN <<>> ELSE <<"|">>)
                            \o Field(row[i], types[i])]
  <2>1. ASSUME NEW i \in 0 .. n PROVE h[i] = f[i]
    <3>1. CASE i = 0
      BY <1>4, <3>1
    <3>2. CASE i # 0
      <4>1. i \in 1 .. n
        BY <1>0, <3>2
      <4> QED
        BY <1>5, <3>2, <4>1 DEF Separator
    <3> QED
      BY <3>1, <3>2
  <2>2. h = f
    BY <1>4, <2>1
  <2> QED
    BY <2>2
<1>7. P(c)
  BY <1>6
<1>8. RowText(row, types) = c[n] \o <<"\n">>
  BY DEF RowText
<1>9. c[0] = <<>> /\ \A i \in 1 .. n : c[i] = c[i - 1] \o Separator(i) \o Field(row[i], types[i])
  <2> HIDE DEF c
  <2>0. c = [i \in 0 .. n |-> IF i = 0 THEN <<>>
                              ELSE c[i - 1] \o Separator(i) \o Field(row[i], types[i])]
    BY <1>7 DEF Separator
  <2> HIDE DEF P
  <2>1. 0 \in 0 .. n /\ c[0] = <<>>
    BY <1>0, <2>0
  <2>2. ASSUME NEW i \in 1 .. n
        PROVE  c[i] = c[i - 1] \o Separator(i) \o Field(row[i], types[i])
    BY <2>0
  <2> QED
    BY <2>1, <2>2
<1> HIDE DEF P, c
<1> DEFINE T == {i \in 0 .. n : c[i] = f[i]}
<1>10. 0 \in T
  BY <1>0, <1>4, <1>9
<1>11. ASSUME NEW i \in 1 .. n, i - 1 \in T PROVE i \in T
  <2>1. c[i - 1] = f[i - 1]
    BY <1>11
  <2>2. c[i] = f[i - 1] \o Separator(i) \o Field(row[i], types[i])
    BY <1>9, <2>1
  <2>3. c[i] = f[i]
    BY <1>5, <2>2
  <2> QED
    BY <2>3
<1> HIDE DEF T
<1>12. \A i \in 0 .. n : i \in T
  BY <1>0, <1>10, <1>11, UpTo
<1>13. c[n] = f[n]
  BY <1>0, <1>12 DEF T
<1> QED
  BY <1>4, <1>5, <1>8, <1>13

(* The values of a row as far as they were read: those without a backslash *)
(* are what they should be, up to the first NUL.                           *)
Matches(r, row, types, n) ==
  /\ r \in Seq(Value) /\ Len(r) = n
  /\ \A j \in 1 .. n : ~Backslashed(row[j]) => r[j] = MeantValue(Cut(row[j]), types[j])

LEMMA MatchesNext ==
  ASSUME NEW row, NEW types, NEW n \in Nat, NEW r, Matches(r, row, types, n),
         NEW w \in Value, ~Backslashed(row[n + 1]) => w = MeantValue(Cut(row[n + 1]), types[n + 1])
  PROVE  Matches(Append(r, w), row, types, n + 1)
<1>1. /\ Append(r, w) \in Seq(Value) /\ Len(Append(r, w)) = n + 1
      /\ \A j \in 1 .. n : Append(r, w)[j] = r[j]
      /\ Append(r, w)[n + 1] = w
  BY AppendProperties DEF Matches
<1>2. \A j \in 1 .. n + 1 : j \in 1 .. n \/ j = n + 1
  OBVIOUS
<1> QED
  BY <1>1, <1>2 DEF Matches

LEMMA RowReads ==
  ASSUME NEW R \in Seq(Seq(Value)), NEW row, NEW types, InColumns(row, types)
  PROVE  /\ RowText(row, types) \in Chars
         /\ \E r : /\ Matches(r, row, types, Len(types))
                   /\ After(Start(R, <<>>), RowText(row, types)) = Start(Append(R, r), <<>>)
<1> DEFINE n == Len(types)
           F(i) == Field(row[i], types[i])
           s0 == Start(R, <<>>)
<1>0. n \in Nat \ {0} /\ \A i \in 1 .. n : InColumn(row[i], types[i])
  BY DEF InColumns
<1>1. /\ <<>> \in Chars /\ <<>> \in Seq(Value) /\ s0 \in CsvState
      /\ \A i \in Nat : Separator(i) \in Chars
  BY EmptySeq, StartType, Separators DEF Chars, Separator
<1>2. PICK c \in [0 .. n -> Chars] :
        /\ c[0] = <<>>
        /\ \A i \in 1 .. n : c[i] = c[i - 1] \o Separator(i) \o F(i)
        /\ RowText(row, types) = c[n] \o <<"\n">>
  BY RowTextSteps
<1> HIDE DEF n
<1> DEFINE Fine(i) == \E r : /\ Matches(r, row, types, i)
                             /\ After(s0, c[i] \o Separator(i + 1)) = Start(R, r)
<1>3. ASSUME NEW i \in 1 .. n, Fine(i - 1)
      PROVE  /\ c[i] \o <<"|">> \in Chars /\ c[i] \o <<"\n">> \in Chars
             /\ \E r : /\ Matches(r, row, types, i)
                       /\ After(s0, c[i] \o <<"|">>) = Start(R, r)
                       /\ After(s0, c[i] \o <<"\n">>) = Start(Append(R, r), <<>>)
  <2> DEFINE b == c[i - 1] \o Separator(i)
  <2>0. i - 1 \in 0 .. n /\ i - 1 \in Nat /\ (i - 1) + 1 = i /\ i \in Nat
    BY <1>0
  <2>1. PICK r : Matches(r, row, types, i - 1) /\ After(s0, b) = Start(R, r)
    BY <1>3, <2>0
  <2>2. r \in Seq(Value)
    BY <2>1 DEF Matches
  <2>3. c[i - 1] \in Chars /\ Separator(i) \in Chars
    BY <1>1, <2>0
  <2>4. b \in Chars
    BY <2>3, ConcatProperties DEF Chars
  <2>5. InColumn(row[i], types[i])
    BY <1>0
  <2>6. F(i) \in Chars
    BY <2>2, <2>5, FieldReads
  <2>7. PICK w \in Value :
          /\ After(Start(R, r), F(i) \o <<"|">>) = Start(R, Append(r, w))
          /\ After(Start(R, r), F(i) \o <<"\n">>) = Start(Append(R, Append(r, w)), <<>>)
          /\ ~Backslashed(row[i]) => w = MeantValue(Cut(row[i]), types[i])
    BY <2>2, <2>5, FieldEnds
  <2>8. Matches(Append(r, w), row, types, i)
    BY <2>0, <2>1, <2>7, MatchesNext
  <2>9. c[i] = b \o F(i)
    BY <1>2
  <2> HIDE DEF b, F
  <2>10. ASSUME NEW e \in Chars
         PROVE  /\ c[i] \o e \in Chars
                /\ After(s0, c[i] \o e) = After(Start(R, r), F(i) \o e)
    <3>1. F(i) \o e \in Chars /\ (b \o F(i)) \o e = b \o (F(i) \o e)
      BY SMTT(60), <2>4, <2>6, ConcatProperties, ConcatAssociative DEF Chars
    <3>2. b \o (F(i) \o e) \in Chars
      BY <2>4, <3>1, ConcatProperties DEF Chars
    <3>3. After(s0, b \o (F(i) \o e)) = After(After(s0, b), F(i) \o e)
      BY <1>1, <2>4, <3>1, AfterConcat
    <3> QED
      BY <2>1, <2>9, <3>1, <3>2, <3>3
  <2> QED
    BY <2>7, <2>8, <2>10, Separators DEF F
<1>4. Fine(0)
  <2>1. Matches(<<>>, row, types, 0)
    BY <1>1 DEF Matches
  <2>2. c[0] \o Separator(0 + 1) = <<>>
    BY <1>1, <1>2, ConcatEmptySeq DEF Separator, Chars
  <2>3. After(s0, <<>>) = s0
    BY <1>1, AfterEmpty
  <2> QED
    BY <2>1, <2>2, <2>3
<1>5. ASSUME NEW i \in 1 .. n, Fine(i - 1) PROVE Fine(i)
  <2>1. Separator(i + 1) = <<"|">>
    BY DEF Separator
  <2> QED
    BY <1>3, <1>5, <2>1
<1> DEFINE T == {i \in 0 .. n : Fine(i)}
<1> HIDE DEF Fine
<1>6. 0 \in T
  BY <1>0, <1>4
<1>7. ASSUME NEW i \in 1 .. n, i - 1 \in T PROVE i \in T
  <2>1. Fine(i - 1)
    BY <1>7
  <2>2. Fine(i)
    BY <1>5, <2>1
  <2> QED
    BY <1>0, <2>2
<1> HIDE DEF T
<1>8. \A i \in 0 .. n : i \in T
  BY <1>0, <1>6, <1>7, UpTo
<1>9. n \in 1 .. n /\ n - 1 \in 0 .. n
  BY <1>0
<1>10. Fine(n - 1)
  BY <1>8, <1>9 DEF T
<1> QED
  BY <1>2, <1>3, <1>9, <1>10 DEF n

-----------------------------------------------------------------------------
(* A table.                                                                *)
LEMMA Columns ==
  ASSUME NEW t \in Task
  PROVE  /\ Len(Types[t]) \in Nat \ {0} /\ DOMAIN Types[t] = 1 .. Len(Types[t])
         /\ Len(Rows[t]) \in Nat /\ DOMAIN Rows[t] = 1 .. Len(Rows[t])
         /\ Len(fetch_colmum_info(t)) = Len(Types[t])
         /\ \A k \in 1 .. Len(Rows[t]) :
              /\ Rows[t][k] \in [1 .. Len(Types[t]) -> Value]
              /\ InColumns(Rows[t][k], fetch_colmum_info(t))
<1>1. Types[t] \in Seq(STRING) /\ Types[t] # <<>>
  BY RowsAssumption
<1>2. Len(Types[t]) \in Nat \ {0} /\ DOMAIN Types[t] = 1 .. Len(Types[t])
  BY <1>1, LenProperties, EmptySeq
<1> DEFINE n == Len(Types[t])
           Row == [1 .. n -> Value]
<1>3. Rows[t] \in Seq(Row)
  BY <1>2, RowsAssumption DEF Value
<1>4. Len(Rows[t]) \in Nat /\ DOMAIN Rows[t] = 1 .. Len(Rows[t])
  <2> HIDE DEF Row
  <2> QED
    BY <1>3, LenProperties
<1>5. ASSUME NEW k \in 1 .. Len(Rows[t]) PROVE Rows[t][k] \in Row
  <2> HIDE DEF Row
  <2> QED
    BY <1>3, ElementOfSeq
<1>6. Len(fetch_colmum_info(t)) = n
  BY <1>2 DEF fetch_colmum_info
<1>7. ASSUME NEW k \in 1 .. Len(Rows[t]) PROVE InColumns(Rows[t][k], fetch_colmum_info(t))
  <2>1. ASSUME NEW i \in 1 .. n PROVE InColumn(Rows[t][k][i], fetch_colmum_info(t)[i])
    <3>1. Rows[t][k][i] \in Value
      BY <1>5
    <3>2. fetch_colmum_info(t)[i] = ColumnType(Types[t][i])
      BY <1>2 DEF fetch_colmum_info
    <3>3. k \in DOMAIN Rows[t] /\ i \in DOMAIN Types[t]
      BY <1>2, <1>4
    <3> QED
      BY <3>1, <3>2, <3>3, PlainAssumption DEF InColumn
  <2> QED
    BY <1>2, <1>6, <2>1 DEF InColumns
<1> QED
  BY <1>2, <1>4, <1>5, <1>6, <1>7

(* The text of the k-th row.                                               *)
RowOf(t, k) == RowText(Rows[t][k], fetch_colmum_info(t))

LEMMA RowType ==
  ASSUME NEW t \in Task, NEW k \in 1 .. Len(Rows[t])
  PROVE  RowOf(t, k) \in Chars
<1>1. InColumns(Rows[t][k], fetch_colmum_info(t)) /\ <<>> \in Seq(Seq(Value))
  BY Columns, EmptySeq
<1> QED
  BY <1>1, RowReads DEF RowOf

LEMMA CopyTextSteps ==
  ASSUME NEW t \in Task, NEW n \in 0 .. Len(Rows[t])
  PROVE  \E c \in [0 .. n -> Chars] :
           /\ c[0] = <<>>
           /\ \A i \in 1 .. n : c[i] = c[i - 1] \o RowOf(t, i)
           /\ CopyText(t, n) = c[n]
<1> DEFINE F == [p \in (1 .. n) \X Chars |-> p[2] \o RowOf(t, p[1])]
           P(h) == h = [i \in 0 .. n |->
                          IF i = 0 THEN <<>>
                          ELSE h[i - 1] \o RowText(Rows[t][i], fetch_colmum_info(t))]
           c == CHOOSE h : P(h)
<1>0. n \in Nat /\ <<>> \in Chars /\ \A i \in 1 .. n : i \in 1 .. Len(Rows[t])
  BY EmptySeq, Columns DEF Chars
<1>a. ASSUME NEW i \in 1 .. n, NEW s \in Chars PROVE s \o RowOf(t, i) \in Chars
  <2>1. RowOf(t, i) \in Chars
    BY <1>0, RowType
  <2> QED
    BY <2>1, ConcatProperties DEF Chars
<1>1. F \in [(1 .. n) \X Chars -> Chars]
  BY <1>a
<1>2. \A i \in 1 .. n : \A a \in Chars : F[<<i, a>>] = a \o RowOf(t, i)
  OBVIOUS
<1> HIDE DEF F
<1>3. PICK f : IsRun(f, <<>>, F, n, Chars)
  BY <1>0, <1>1, RunExists
<1>4. f \in [0 .. n -> Chars] /\ f[0] = <<>>
  BY <1>3 DEF IsRun
<1>5. ASSUME NEW i \in 1 .. n PROVE f[i] = f[i - 1] \o RowOf(t, i)
  <2>1. f[i - 1] \in Chars
    BY <1>0, <1>4
  <2> QED
    BY <1>2, <1>3, <2>1 DEF IsRun
<1>6. P(f)
  <2> DEFINE h == [i \in 0 .. n |->
                     IF i = 0 THEN <<>>
                     ELSE f[i - 1] \o RowText(Rows[t][i], fetch_colmum_info(t))]
  <2>1. ASSUME NEW i \in 0 .. n PROVE h[i] = f[i]
    <3>1. CASE i = 0
      BY <1>4, <3>1
    <3>2. CASE i # 0
      <4>1. i \in 1 .. n
        BY <1>0, <3>2
      <4> QED
        BY <1>5, <3>2, <4>1 DEF RowOf
    <3> QED
      BY <3>1, <3>2
  <2>2. h = f
    BY <1>4, <2>1
  <2> QED
    BY <2>2
<1>7. P(c)
  BY <1>6
<1>8. CopyText(t, n) = c[n]
  BY DEF CopyText
<1>9. c[0] = <<>> /\ \A i \in 1 .. n : c[i] = c[i - 1] \o RowOf(t, i)
  <2> HIDE DEF c
  <2>0. c = [i \in 0 .. n |-> IF i = 0 THEN <<>> ELSE c[i - 1] \o RowOf(t, i)]
    BY <1>7 DEF RowOf
  <2> HIDE DEF P
  <2>1. 0 \in 0 .. n /\ c[0] = <<>>
    BY <1>0, <2>0
  <2>2. ASSUME NEW i \in 1 .. n PROVE c[i] = c[i - 1] \o RowOf(t, i)
    <3>1. i \in 0 .. n /\ i # 0
      BY <1>0
    <3> QED
      BY <2>0, <3>1, Zenon
  <2> QED
    BY <2>1, <2>2
<1> HIDE DEF P, c
<1> DEFINE T == {i \in 0 .. n : c[i] = f[i]}
<1>10. 0 \in T
  BY <1>0, <1>4, <1>9
<1>11. ASSUME NEW i \in 1 .. n, i - 1 \in T PROVE i \in T
  <2>1. c[i - 1] = f[i - 1]
    BY <1>11
  <2>2. c[i] = f[i - 1] \o RowOf(t, i)
    BY <1>9, <2>1
  <2>3. c[i] = f[i]
    BY <1>5, <2>2
  <2> QED
    BY <2>3
<1> HIDE DEF T
<1>12. \A i \in 0 .. n : i \in T
  BY <1>0, <1>10, <1>11, UpTo
<1>13. c[n] = f[n]
  BY <1>0, <1>12 DEF T
<1> QED
  BY <1>4, <1>5, <1>8, <1>13

(* Rows that were read.                                                    *)
AreRows(R, t, n) ==
  /\ R \in Seq(Seq(Value)) /\ Len(R) = n
  /\ \A k \in 1 .. n : Matches(R[k], Rows[t][k], fetch_colmum_info(t), Len(Types[t]))

LEMMA AreRowsNext ==
  ASSUME NEW t \in Task, NEW n \in Nat, NEW R, AreRows(R, t, n),
         NEW r, Matches(r, Rows[t][n + 1], fetch_colmum_info(t), Len(Types[t]))
  PROVE  AreRows(Append(R, r), t, n + 1)
<1>0. r \in Seq(Value)
  BY DEF Matches
<1>1. /\ Append(R, r) \in Seq(Seq(Value)) /\ Len(Append(R, r)) = n + 1
      /\ \A k \in 1 .. n : Append(R, r)[k] = R[k]
      /\ Append(R, r)[n + 1] = r
  BY <1>0, AppendProperties DEF AreRows
<1>2. \A k \in 1 .. n + 1 : k \in 1 .. n \/ k = n + 1
  OBVIOUS
<1> QED
  BY <1>1, <1>2 DEF AreRows

LEMMA CopyTextReads ==
  ASSUME NEW t \in Task, NEW n \in 0 .. Len(Rows[t])
  PROVE  /\ CopyText(t, n) \in Chars
         /\ \E R : AreRows(R, t, n) /\ After(Start(<<>>, <<>>), CopyText(t, n)) = Start(R, <<>>)
<1> DEFINE s0 == Start(<<>>, <<>>)
<1>0. /\ n \in Nat /\ n \in 0 .. n
      /\ \A i \in 1 .. n : i \in 1 .. Len(Rows[t]) /\ i - 1 \in 0 .. n /\ i - 1 \in Nat
  BY Columns
<1>1. <<>> \in Seq(Seq(Value)) /\ <<>> \in Seq(Value) /\ s0 \in CsvState
  BY EmptySeq, StartType
<1>2. PICK c \in [0 .. n -> Chars] :
        /\ c[0] = <<>>
        /\ \A i \in 1 .. n : c[i] = c[i - 1] \o RowOf(t, i)
        /\ CopyText(t, n) = c[n]
  BY CopyTextSteps
<1> DEFINE Fine(i) == \E R : AreRows(R, t, i) /\ After(s0, c[i]) = Start(R, <<>>)
<1>3. Fine(0)
  <2>1. AreRows(<<>>, t, 0)
    BY <1>1 DEF AreRows
  <2> QED
    BY <1>1, <1>2, <2>1, AfterEmpty
<1>4. ASSUME NEW i \in 1 .. n, Fine(i - 1) PROVE Fine(i)
  <2>1. PICK R : AreRows(R, t, i - 1) /\ After(s0, c[i - 1]) = Start(R, <<>>)
    BY <1>4
  <2>2. R \in Seq(Seq(Value))
    BY <2>1 DEF AreRows
  <2>3. InColumns(Rows[t][i], fetch_colmum_info(t))
    BY <1>0, Columns
  <2>4. Len(fetch_colmum_info(t)) = Len(Types[t])
    BY Columns
  <2>5. PICK r : /\ Matches(r, Rows[t][i], fetch_colmum_info(t), Len(Types[t]))
                 /\ After(Start(R, <<>>), RowOf(t, i)) = Start(Append(R, r), <<>>)
    BY <2>2, <2>3, <2>4, RowReads DEF RowOf
  <2>6. AreRows(Append(R, r), t, i)
    <3>1. i - 1 \in Nat /\ (i - 1) + 1 = i
      BY <1>0
    <3> QED
      BY <2>1, <2>5, <3>1, AreRowsNext
  <2>7. c[i - 1] \in Chars /\ RowOf(t, i) \in Chars
    BY <1>0, RowType
  <2>8. After(s0, c[i]) = After(After(s0, c[i - 1]), RowOf(t, i))
    <3>1. c[i] = c[i - 1] \o RowOf(t, i)
      BY <1>2
    <3> HIDE DEF s0
    <3>2. After(s0, c[i - 1] \o RowOf(t, i)) = After(After(s0, c[i - 1]), RowOf(t, i))
      BY <1>1, <2>7, AfterConcat
    <3> QED
      BY <3>1, <3>2
  <2> QED
    BY <2>1, <2>5, <2>6, <2>8
<1> DEFINE T == {i \in 0 .. n : Fine(i)}
<1> HIDE DEF Fine
<1>5. 0 \in T
  BY <1>0, <1>3
<1>6. ASSUME NEW i \in 1 .. n, i - 1 \in T PROVE i \in T
  <2>1. Fine(i - 1)
    BY <1>6
  <2>2. Fine(i)
    BY <1>4, <2>1
  <2> QED
    BY <2>2
<1> HIDE DEF T
<1>7. \A i \in 0 .. n : i \in T
  BY <1>0, <1>5, <1>6, UpTo
<1>8. Fine(n)
  BY <1>0, <1>7 DEF T
<1> QED
  BY <1>0, <1>2, <1>8 DEF Fine

(* The target reads from the text of a table as many rows, and every value *)
(* that has no backslash (of one that has, the csv format keeps the E and  *)
(* both backslashes) as it was meant, but for what comes behind a NUL,     *)
(* which is lost.                                                          *)
THEOREM ReadBack ==
  ASSUME NEW t \in Task, NEW n \in 0 .. Len(Rows[t])
  PROVE  AreRows(Read[t][n], t, n)
<1>1. PICK R : AreRows(R, t, n) /\ After(Start(<<>>, <<>>), CopyText(t, n)) = Start(R, <<>>)
  BY CopyTextReads
<1>2. CsvStart = Start(<<>>, <<>>)
  BY DEF CsvStart, Start, Acc
<1>3. ReadCsv(CopyText(t, n), Null) = After(CsvStart, CopyText(t, n)).rows
  BY DEF ReadCsv, After
<1>4. Read[t][n] = ReadCsv(CopyText(t, n), Null)
  BY DEF Read
<1>5. Start(R, <<>>).rows = R
  BY DEF Start, Acc
<1> QED
  BY <1>1, <1>2, <1>3, <1>4, <1>5

(* A table without a backslash and without a NUL is read back whole.       *)
LEMMA ReadIsMeant ==
  ASSUME NEW t \in Task, ~HasBackslash(t), ~HasNul(t)
  PROVE  Read[t][Len(Rows[t])] = Meant[t]
<1> DEFINE n == Len(Rows[t])
           m == Len(Types[t])
           R == Read[t][n]
<1>0. /\ n \in Nat /\ n \in 0 .. n /\ m \in Nat
      /\ DOMAIN Rows[t] = 1 .. n /\ DOMAIN Types[t] = 1 .. m
  BY Columns
<1>1. AreRows(R, t, n)
  BY <1>0, ReadBack
<1> HIDE DEF R
<1>2. ASSUME NEW k \in 1 .. n, NEW i \in 1 .. m
      PROVE  R[k][i] = Meant[t][k][i]
  <2>1. R[k][i] = MeantValue(Rows[t][k][i], fetch_colmum_info(t)[i])
    <3> DEFINE v == Rows[t][k][i]
    <3>1. ~Backslashed(v) /\ (v # Null => Nul \notin ToSet(v))
      BY <1>0 DEF HasBackslash, HasNul, HasValueWith, Backslashed
    <3>2. Matches(R[k], Rows[t][k], fetch_colmum_info(t), m)
      BY <1>1 DEF AreRows
    <3>3. v \in Value
      BY <1>0, Columns
    <3> HIDE DEF v
    <3>4. Cut(v) = v
      BY <3>1, <3>3, CStringIs DEF Cut, Value
    <3>5. R[k][i] = MeantValue(Cut(v), fetch_colmum_info(t)[i])
      BY <3>1, <3>2 DEF Matches, v
    <3> QED
      BY <3>4, <3>5 DEF v
  <2>2. Meant[t][k][i] = MeantValue(Rows[t][k][i], fetch_colmum_info(t)[i])
    BY <1>0 DEF Meant, MeantValue
  <2> QED
    BY <2>1, <2>2
<1>3. ASSUME NEW k \in 1 .. n PROVE R[k] = Meant[t][k]
  <2>1. R[k] \in Seq(Value) /\ Len(R[k]) = m
    BY <1>1 DEF AreRows, Matches
  <2>2. R[k] = [i \in 1 .. m |-> R[k][i]]
    BY <2>1, LenProperties
  <2>3. Meant[t][k] = [i \in 1 .. m |-> Meant[t][k][i]]
    BY <1>0 DEF Meant
  <2> QED
    BY <1>2, <2>2, <2>3
<1>4. R = [k \in 1 .. n |-> R[k]]
  BY <1>1, LenProperties DEF AreRows
<1>5. Meant[t] = [k \in 1 .. n |-> Meant[t][k]]
  BY <1>0 DEF Meant
<1> QED
  BY <1>3, <1>4, <1>5 DEF R

-----------------------------------------------------------------------------
(* The threads.  The inductive invariant IInv says, beyond the types, what *)
(* the mutex protects, that the tables taken so far are a prefix of the    *)
(* task array and each is complete, held by one thread or given up by one, *)
(* and that a table has nothing at the target or the rows that a COPY of   *)
(* a thread read, all of them unless a fetch failed.                       *)

HoldingPc == {"unlock", "begin", "copy", "end", "commit"}
Holds(w, t) == pc[w] \in HoldingPc /\ curr[w] = t
GaveUp(w) == pc[w] = "done" /\ ~all_ok[w]

(* The mutex: a thread between lock and unlock owns it, nobody else does.  *)
Mutex == \A w \in Worker : pc[w] \in {"read", "take", "unlock"} <=> t_lock = w

(* What a thread read of ntask under the lock is still true when it takes. *)
Fresh == \A w \in Worker : pc[w] = "take" => nlist[w] = ntask

(* A table is taken once it is before the head of the queue.               *)
Taken(t) == t <= NTask - ntask

(* A held table was taken by one thread only and is not complete.          *)
HeldOnce ==
  \A w \in Worker, t \in Task :
    Holds(w, t) => Taken(t) /\ ~complete[t] /\ \A v \in Worker \ {w} : ~Holds(v, t)

(* A COPY that ended has handed on all the rows that were read, and those  *)
(* are all there are, unless a fetch failed.                               *)
Ending(w) ==
  /\ sent[w] = row_count[w]
  /\ FetchMayFail \/ sent[w] = Len(Rows[curr[w]])

(* A thread in the middle of a copy has a table.                           *)
CopyHasTable ==
  \A w \in Worker :
    /\ pc[w] \in {"begin", "copy", "end", "commit"} => curr[w] \in Task
    /\ pc[w] \in {"copy", "end", "commit"} =>
         ~get_ddl_only /\ row_count[w] <= Len(Rows[curr[w]])
    /\ pc[w] \in {"end", "commit"} => Ending(w)

(* The target has read a COPY of n rows of the table.                      *)
Loaded(t) ==
  \E n \in 0 .. Len(Rows[t]) :
    target[t] = Read[t][n] /\ (FetchMayFail \/ n = Len(Rows[t]))

(* Rows reach the target with completion, and only of taken tables.        *)
LoadedWhole ==
  \A t \in Task :
    /\ ~complete[t] => target[t] = <<>>
    /\ complete[t] => Taken(t)
    /\ complete[t] => Loaded(t) \/ (target[t] = <<>> /\ (get_ddl_only \/ CommitMayFail))

(* A taken table is complete, held, or the one that a thread gave up.      *)
Answers(w, t) == Holds(w, t) \/ (GaveUp(w) /\ curr[w] = t)

Accounted ==
  \A t \in Task : Taken(t) => complete[t] \/ \E w \in Worker : Answers(w, t)

(* A thread that found no table found the queue empty for good.            *)
DrainedMeansEmpty ==
  \A w \in Worker :
    /\ pc[w] = "unlock" /\ curr[w] = NULL => ntask = 0
    /\ pc[w] = "drained" => ntask = 0
    /\ all_ok[w] => pc[w] = "done" /\ ntask = 0

(* The report is made when all threads are done, from their all_ok.        *)
ReportIsFinal ==
  reported => /\ \A w \in Worker : pc[w] = "done"
              /\ have_err = (\E w \in Worker : ~all_ok[w])

QueueInv == TypeOK /\ QueueShape /\ Mutex /\ Fresh

IInv ==
  /\ QueueInv
  /\ HeldOnce
  /\ CopyHasTable
  /\ LoadedWhole
  /\ Accounted
  /\ DrainedMeansEmpty
  /\ ReportIsFinal

-----------------------------------------------------------------------------
USE WorkerAssumption, NTaskAssumption

queueOnly == <<flags, tableVars, countVars, mainVars>>

(* A step is one of the main thread, SIGINT, or one action of one thread.  *)
LEMMA NextCases ==
  ASSUME [Next]_vars
  PROVE  \/ Report
         \/ Abort
         \/ UNCHANGED vars
         \/ \E w \in Worker :
              \/ Connect(w)
              \/ Dequeue(w) /\ UNCHANGED queueOnly
              \/ PrintDdl(w) \/ OpenCopy(w) \/ FetchRow(w) \/ AbortRow(w) \/ EndRows(w)
              \/ EndCopy(w) \/ CopyFails(w) \/ Commit(w) \/ Finish(w)
BY DEF Next, Thread, TakeTask, Copy, Ended, queueOnly

(* The head of a queue that is not empty: a table, the first one that was  *)
(* not taken, and the only one that its removal takes.                     *)
LEMMA HeadOfQueue ==
  ASSUME NEW t0, NEW n \in 1 .. NTask, NTask + 1 - n = t0
  PROVE  /\ t0 \in Task /\ ~(t0 <= NTask - n)
         /\ n - 1 \in 0 .. NTask
         /\ NextOf(t0) = IF n - 1 = 0 THEN NULL ELSE NTask + 1 - (n - 1)
         /\ NextOf(t0) \in Task \union {NULL}
         /\ \A t \in Task : t <= NTask - (n - 1) <=> t <= NTask - n \/ t = t0
BY DEF Task, NextOf, NULL

(* The null pointer is none of the tables.                                 *)
LEMMA NullIsNoTask == \A t \in Task : t # NULL
BY DEF Task, NULL

(* What a thread gets under the lock: the first table that was not taken,  *)
(* or nothing when the queue is empty.                                     *)
LEMMA TakeResult ==
  ASSUME IInv, NEW w \in Worker, Take(w)
  PROVE  /\ pc' = [pc EXCEPT ![w] = "unlock"] /\ pc'[w] = "unlock"
         /\ UNCHANGED <<t_lock, nlist>>
         /\ ntask' \in 0 .. NTask /\ l_task' \in Task \union {NULL}
         /\ QueueShape'
         /\ \/ /\ ntask = 0 /\ ntask' = 0
               /\ curr' = [curr EXCEPT ![w] = NULL]
               /\ curr'[w] = NULL /\ curr'[w] \notin Task
            \/ /\ ntask # 0
               /\ \E t0 \in Task :
                    /\ curr' = [curr EXCEPT ![w] = t0] /\ curr'[w] = t0 /\ t0 # NULL
                    /\ ~Taken(t0)
                    /\ \A t \in Task : Taken(t)' <=> Taken(t) \/ t = t0
<1>1. /\ nlist[w] = ntask /\ ntask \in 0 .. NTask
      /\ l_task = IF ntask = 0 THEN NULL ELSE NTask + 1 - ntask
  BY DEF IInv, QueueInv, TypeOK, QueueTypeOK, QueueShape, Fresh, Take
<1>2. /\ pc' = [pc EXCEPT ![w] = "unlock"] /\ pc'[w] = "unlock"
      /\ UNCHANGED <<t_lock, nlist>>
  BY DEF Take, IInv, QueueInv, TypeOK
<1>0. curr \in [Worker -> Task \union {NULL}]
  BY DEF IInv, QueueInv, TypeOK, QueueTypeOK
<1>3. CASE TakeNone(w)
  <2>1. ntask = 0 /\ ntask' = 0 /\ l_task' = NULL
        /\ curr' = [curr EXCEPT ![w] = NULL] /\ curr'[w] = NULL
    BY <1>0, <1>1, <1>3 DEF TakeNone
  <2> QED
    BY <1>2, <2>1, NullIsNoTask DEF QueueShape
<1>4. CASE TakeLast(w) \/ TakeHead(w)
  <2>1. nlist[w] = 1 \/ nlist[w] > 1
    BY <1>4 DEF TakeLast, TakeHead
  <2>2. ntask \in 1 .. NTask
    BY ONLY <1>1, <2>1, NTaskAssumption
  <2>3. l_task = NTask + 1 - ntask
    BY ONLY <1>1, <2>2, NTaskAssumption
  <2>4. curr' = [curr EXCEPT ![w] = l_task] /\ curr'[w] = l_task
    BY <1>0, <1>4 DEF TakeLast, TakeHead
  <2>5. /\ l_task \in Task /\ ~(l_task <= NTask - ntask)
        /\ ntask - 1 \in 0 .. NTask
        /\ NextOf(l_task) = IF ntask - 1 = 0 THEN NULL ELSE NTask + 1 - (ntask - 1)
        /\ NextOf(l_task) \in Task \union {NULL}
        /\ \A t \in Task :
             t <= NTask - (ntask - 1) <=> t <= NTask - ntask \/ t = l_task
    BY ONLY <2>2, <2>3, HeadOfQueue
  <2>6. CASE TakeLast(w)
    <3>1. ntask = 1 /\ l_task' = NULL /\ ntask' = 0
      BY <1>1, <2>6 DEF TakeLast
    <3>2. ntask' = ntask - 1
      BY ONLY <3>1
    <3> QED
      BY <1>2, <2>4, <2>5, <3>1, <3>2, NullIsNoTask DEF QueueShape, Taken
  <2>7. CASE TakeHead(w)
    <3>1. l_task' = NextOf(l_task) /\ ntask' = ntask - 1
      BY <2>7 DEF TakeHead
    <3>2. ntask # 0
      BY ONLY <2>2, NTaskAssumption
    <3> QED
      BY <1>2, <2>4, <2>5, <3>1, <3>2, NullIsNoTask DEF QueueShape, Taken
  <2> QED
    BY <1>4, <2>6, <2>7
<1> QED
  BY <1>3, <1>4 DEF Take

(* The COMMIT of a thread: nothing of its table was at the target, and     *)
(* what becomes visible is what the target read of the rows sent.          *)
LEMMA CommitLoads ==
  ASSUME IInv, NEW w \in Worker, Commit(w)
  PROVE  LET t == curr[w]
             n == sent[w]
         IN  /\ t \in Task /\ target[t] = <<>> /\ ~complete[t] /\ Taken(t)
             /\ n \in 0 .. Len(Rows[t]) /\ (FetchMayFail \/ n = Len(Rows[t]))
             /\ AreRows(Read[t][n], t, n)
             /\ \/ target' = [target EXCEPT ![t] = Read[t][n]]
                \/ CommitMayFail /\ UNCHANGED target
<1> DEFINE t == curr[w]
           n == sent[w]
<1>1. /\ t \in Task /\ Holds(w, t) /\ Ending(w) /\ row_count[w] <= Len(Rows[t])
  BY DEF Commit, IInv, CopyHasTable, Holds, HoldingPc
<1>2. ~complete[t] /\ Taken(t) /\ target[t] = <<>>
  BY <1>1 DEF IInv, HeldOnce, LoadedWhole
<1>3. row_count[w] \in Nat /\ n \in Nat /\ Len(Rows[t]) \in Nat
  BY <1>1, Columns DEF IInv, QueueInv, TypeOK
<1>4. n \in 0 .. Len(Rows[t]) /\ (FetchMayFail \/ n = Len(Rows[t]))
  BY <1>1, <1>3 DEF Ending
<1>5. AreRows(Read[t][n], t, n)
  BY <1>1, <1>4, ReadBack
<1>6. <<>> \o Read[t][n] = Read[t][n]
  BY <1>5, ConcatEmptySeq DEF AreRows
<1>7. target[t] \o Read[t][n] = Read[t][n]
  BY <1>2, <1>6
<1>8. \/ target' = [target EXCEPT ![t] = target[t] \o Read[t][n]]
      \/ CommitMayFail /\ UNCHANGED target
  BY DEF Commit
<1> QED
  BY <1>1, <1>2, <1>4, <1>5, <1>7, <1>8

(* What is in the buffer is among the rows that were read.                 *)
BufferType ==
  /\ row_count \in [Worker -> Nat] /\ sent \in [Worker -> Nat]
  /\ \A w \in Worker : sent[w] <= row_count[w]

LEMMA ReadRowType ==
  ASSUME BufferType, NEW w \in Worker, ReadRow(w)
  PROVE  BufferType'
<1>1. row_count[w] \in Nat /\ sent[w] \in Nat /\ sent[w] <= row_count[w]
  BY DEF BufferType
<1>2. row_count[w] + 1 \in Nat /\ sent[w] <= row_count[w] + 1
  BY <1>1
<1> QED
  BY <1>2 DEF BufferType, ReadRow

(* Types are kept; what a thread took from the queue is a table or NULL.   *)
LEMMA TypingStep ==
  ASSUME IInv, [Next]_vars
  PROVE  TypeOK'
<1> USE DEF TypeOK, QueueTypeOK, DequeuePc, Task, NULL, Nobody,
            queueVars, flags, tableVars, countVars, mainVars, queueOnly
<1>0. TypeOK /\ BufferType
  BY DEF IInv, QueueInv, BufferType
<1>1. CASE Report
  BY <1>0, <1>1 DEF Report
<1>2. CASE Abort
  BY <1>0, <1>2 DEF Abort
<1>3. CASE UNCHANGED vars
  BY <1>0, <1>3 DEF vars
<1>4. ASSUME NEW w \in Worker, Connect(w) PROVE TypeOK'
  BY <1>0, <1>4 DEF Connect, Goto
<1>5. ASSUME NEW w \in Worker, Lock(w), UNCHANGED queueOnly PROVE TypeOK'
  BY <1>0, <1>5 DEF Lock
<1>6. ASSUME NEW w \in Worker, ReadCount(w), UNCHANGED queueOnly PROVE TypeOK'
  BY <1>0, <1>6 DEF ReadCount
<1>7. ASSUME NEW w \in Worker, Take(w), UNCHANGED queueOnly PROVE TypeOK'
  <2>1. ntask' \in 0 .. NTask /\ l_task' \in Task \union {NULL}
    BY <1>7, TakeResult
  <2>2. curr' \in [Worker -> Task \union {NULL}]
    <3> HIDE DEF Task, NULL
    <3>1. curr \in [Worker -> Task \union {NULL}]
      BY <1>0
    <3> HIDE DEF TypeOK
    <3> QED
      BY <3>1, <1>7, TakeResult
  <2>3. pc' = [pc EXCEPT ![w] = "unlock"]
    BY <1>7, TakeResult
  <2> QED
    BY <1>0, <2>1, <2>2, <2>3, <1>7 DEF Take
<1>8. ASSUME NEW w \in Worker, Unlock(w), UNCHANGED queueOnly PROVE TypeOK'
  BY <1>0, <1>8 DEF Unlock
<1>9. ASSUME NEW w \in Worker, PrintDdl(w) PROVE TypeOK'
  BY <1>0, <1>9 DEF PrintDdl, Goto
<1>10. ASSUME NEW w \in Worker, OpenCopy(w) PROVE TypeOK'
  <2>1. BufferType'
    BY <1>0, <1>10 DEF OpenCopy, BufferType
  <2> QED
    BY <1>0, <2>1, <1>10 DEF OpenCopy, Goto, BufferType
<1>11. ASSUME NEW w \in Worker, FetchRow(w) PROVE TypeOK'
  <2>1. BufferType'
    BY <1>0, <1>11, ReadRowType DEF FetchRow
  <2> QED
    BY <1>0, <2>1, <1>11 DEF FetchRow, BufferType
<1>12. ASSUME NEW w \in Worker, AbortRow(w) PROVE TypeOK'
  <2>1. BufferType' /\ row_count[w] + 1 \in Nat
    BY SMTT(60), <1>0, <1>12, ReadRowType DEF AbortRow
  <2>2. wcount' \in [Worker -> Nat] /\ tcount' \in [Task -> Nat]
    BY <1>0, <2>1, <1>12 DEF AbortRow
  <2> QED
    BY <1>0, <2>1, <2>2, <1>12 DEF AbortRow, Goto, BufferType
<1>13. ASSUME NEW w \in Worker, EndRows(w) PROVE TypeOK'
  <2>1. BufferType' /\ row_count[w] \in Nat
    BY SMTT(60), <1>0, <1>13 DEF EndRows, BufferType
  <2>2. wcount' \in [Worker -> Nat] /\ tcount' \in [Task -> Nat]
    BY <1>0, <2>1, <1>13 DEF EndRows
  <2> QED
    BY <1>0, <2>1, <2>2, <1>13 DEF EndRows, Goto, BufferType
<1>14. ASSUME NEW w \in Worker, EndCopy(w) PROVE TypeOK'
  BY <1>0, <1>14 DEF EndCopy, Goto
<1>15. ASSUME NEW w \in Worker, CopyFails(w) PROVE TypeOK'
  BY <1>0, <1>15 DEF CopyFails, Goto
<1>16. ASSUME NEW w \in Worker, Commit(w) PROVE TypeOK'
  <2>1. PICK t \in Task : t = curr[w]
    BY <1>16 DEF Commit, IInv, CopyHasTable
  <2> DEFINE R == Read[t][sent[w]]
             S == Seq(Seq({Null} \union Chars))
  <2>2. /\ R \in S /\ Len(R) = sent[w] /\ sent[w] <= Len(Rows[t])
        /\ \/ target' = [target EXCEPT ![t] = R]
           \/ UNCHANGED target
    BY <2>1, <1>16, CommitLoads DEF AreRows, Value
  <2>3. target \in [Task -> S] /\ \A u \in Task : Len(target[u]) <= Len(Rows[u])
    BY <1>0
  <2> HIDE DEF R, S
  <2>4. target' \in [Task -> S]
    BY <2>2, <2>3
  <2>5. ASSUME NEW u \in Task PROVE Len(target'[u]) <= Len(Rows[u])
    BY ONLY <2>2, <2>3
  <2>6. complete' \in [Task -> BOOLEAN]
    BY <1>0, <1>16 DEF Commit
  <2> QED
    BY <1>0, <2>4, <2>5, <2>6, <1>16 DEF Commit, Goto, S
<1>17. ASSUME NEW w \in Worker, Finish(w) PROVE TypeOK'
  BY <1>0, <1>17 DEF Finish, Goto
<1> QED
  BY <1>1, <1>2, <1>3, <1>4, <1>5, <1>6, <1>7, <1>8, <1>9,
     <1>10, <1>11, <1>12, <1>13, <1>14, <1>15, <1>16, <1>17,
     NextCases DEF Dequeue

(* The lock makes the counter a thread read still the right one when it    *)
(* takes, so the pointer and the counter of the queue move together.       *)
LEMMA QueueStep ==
  ASSUME IInv, [Next]_vars
  PROVE  (QueueShape /\ Mutex /\ Fresh)'
<1> USE DEF IInv, QueueInv, TypeOK, QueueTypeOK, DequeuePc, NULL, Nobody,
            queueVars, flags, tableVars, countVars, mainVars, queueOnly, QueueShape, Mutex, Fresh
<1>1. CASE Report
  BY <1>1 DEF Report
<1>2. CASE Abort
  BY <1>2 DEF Abort
<1>3. CASE UNCHANGED vars
  BY <1>3 DEF vars
<1>4. ASSUME NEW w \in Worker, Connect(w) PROVE (QueueShape /\ Mutex /\ Fresh)'
  BY <1>4 DEF Connect, Goto
<1>5. ASSUME NEW w \in Worker, Lock(w), UNCHANGED queueOnly PROVE (QueueShape /\ Mutex /\ Fresh)'
  BY <1>5 DEF Lock
<1>6. ASSUME NEW w \in Worker, ReadCount(w), UNCHANGED queueOnly PROVE (QueueShape /\ Mutex /\ Fresh)'
  BY <1>6 DEF ReadCount
<1>7. ASSUME NEW w \in Worker, Take(w), UNCHANGED queueOnly PROVE (QueueShape /\ Mutex /\ Fresh)'
  BY <1>7, TakeResult DEF Take
<1>8. ASSUME NEW w \in Worker, Unlock(w), UNCHANGED queueOnly PROVE (QueueShape /\ Mutex /\ Fresh)'
  BY <1>8 DEF Unlock
<1>9. ASSUME NEW w \in Worker, PrintDdl(w) PROVE (QueueShape /\ Mutex /\ Fresh)'
  BY <1>9 DEF PrintDdl, Goto
<1>10. ASSUME NEW w \in Worker, OpenCopy(w) PROVE (QueueShape /\ Mutex /\ Fresh)'
  BY <1>10 DEF OpenCopy, Goto
<1>11. ASSUME NEW w \in Worker, FetchRow(w) PROVE (QueueShape /\ Mutex /\ Fresh)'
  BY <1>11 DEF FetchRow, ReadRow
<1>12. ASSUME NEW w \in Worker, AbortRow(w) PROVE (QueueShape /\ Mutex /\ Fresh)'
  BY <1>12 DEF AbortRow, Goto, ReadRow
<1>13. ASSUME NEW w \in Worker, EndRows(w) PROVE (QueueShape /\ Mutex /\ Fresh)'
  BY <1>13 DEF EndRows, Goto
<1>14. ASSUME NEW w \in Worker, EndCopy(w) PROVE (QueueShape /\ Mutex /\ Fresh)'
  BY <1>14 DEF EndCopy, Goto
<1>15. ASSUME NEW w \in Worker, CopyFails(w) PROVE (QueueShape /\ Mutex /\ Fresh)'
  BY <1>15 DEF CopyFails, Goto
<1>16. ASSUME NEW w \in Worker, Commit(w) PROVE (QueueShape /\ Mutex /\ Fresh)'
  BY <1>16 DEF Commit, Goto
<1>17. ASSUME NEW w \in Worker, Finish(w) PROVE (QueueShape /\ Mutex /\ Fresh)'
  BY <1>17 DEF Finish, Goto
<1> QED
  BY <1>1, <1>2, <1>3, <1>4, <1>5, <1>6, <1>7, <1>8, <1>9,
     <1>10, <1>11, <1>12, <1>13, <1>14, <1>15, <1>16, <1>17,
     NextCases DEF Dequeue

(* What most steps leave alone: no table is taken, loaded or completed, and *)
(* none comes into a thread's hands or gets lost.                          *)
Quiet ==
  /\ UNCHANGED <<ntask, complete, target, get_ddl_only>>
  /\ \A v \in Worker, t \in Task : Holds(v, t)' => Holds(v, t)
  /\ \A v \in Worker, t \in Task : Answers(v, t) => Answers(v, t)'

(* All but the taking of a table and its completion are such steps.        *)
LEMMA QuietSteps ==
  ASSUME IInv, [Next]_vars,
         \A w \in Worker :
           ~(Take(w) /\ UNCHANGED queueOnly) /\ ~PrintDdl(w) /\ ~Commit(w)
  PROVE  Quiet
<1> USE DEF IInv, QueueInv, TypeOK, QueueTypeOK, DequeuePc, NULL, Nobody,
            queueVars, flags, tableVars, countVars, mainVars, queueOnly, Quiet, Holds, HoldingPc, Answers, GaveUp, DrainedMeansEmpty
<1>1. CASE Report
  BY <1>1 DEF Report
<1>2. CASE Abort
  BY <1>2 DEF Abort
<1>3. CASE UNCHANGED vars
  BY <1>3 DEF vars
<1>4. ASSUME NEW w \in Worker, Connect(w) PROVE Quiet
  BY <1>4 DEF Connect, Goto
<1>5. ASSUME NEW w \in Worker, Lock(w), UNCHANGED queueOnly PROVE Quiet
  BY <1>5 DEF Lock
<1>6. ASSUME NEW w \in Worker, ReadCount(w), UNCHANGED queueOnly PROVE Quiet
  BY <1>6 DEF ReadCount
<1>7. ASSUME NEW w \in Worker, Unlock(w), UNCHANGED queueOnly PROVE Quiet
  BY SMTT(60), <1>7 DEF Unlock, Task
<1>8. ASSUME NEW w \in Worker, OpenCopy(w) PROVE Quiet
  BY <1>8 DEF OpenCopy, Goto
<1>9. ASSUME NEW w \in Worker, FetchRow(w) PROVE Quiet
  BY <1>9 DEF FetchRow, ReadRow
<1>10. ASSUME NEW w \in Worker, AbortRow(w) PROVE Quiet
  BY <1>10 DEF AbortRow, Goto, ReadRow
<1>11. ASSUME NEW w \in Worker, EndRows(w) PROVE Quiet
  BY <1>11 DEF EndRows, Goto
<1>12. ASSUME NEW w \in Worker, EndCopy(w) PROVE Quiet
  BY <1>12 DEF EndCopy, Goto
<1>13. ASSUME NEW w \in Worker, CopyFails(w) PROVE Quiet
  BY <1>13 DEF CopyFails, Goto
<1>14. ASSUME NEW w \in Worker, Finish(w) PROVE Quiet
  BY <1>14 DEF Finish, Goto
<1> QED
  BY <1>1, <1>2, <1>3, <1>4, <1>5, <1>6, <1>7, <1>8, <1>9,
     <1>10, <1>11, <1>12, <1>13, <1>14,
     NextCases DEF Dequeue

(* Between the dequeue and the COMMIT a thread has a table, reads no row     *)
(* twice, and sends them all before it commits.                            *)
LEMMA CopyHasTableStep ==
  ASSUME IInv, [Next]_vars
  PROVE  CopyHasTable'
<1> USE DEF IInv, QueueInv, TypeOK, QueueTypeOK, DequeuePc, NULL, Nobody,
            queueVars, flags, tableVars, countVars, mainVars, queueOnly, CopyHasTable, Ending
<1>1. CASE Report
  BY <1>1 DEF Report
<1>2. CASE Abort
  BY <1>2 DEF Abort
<1>3. CASE UNCHANGED vars
  BY <1>3 DEF vars
<1>4. ASSUME NEW w \in Worker, Connect(w) PROVE CopyHasTable'
  BY <1>4 DEF Connect, Goto
<1>5. ASSUME NEW w \in Worker, Lock(w), UNCHANGED queueOnly PROVE CopyHasTable'
  BY <1>5 DEF Lock
<1>6. ASSUME NEW w \in Worker, ReadCount(w), UNCHANGED queueOnly PROVE CopyHasTable'
  BY <1>6 DEF ReadCount
<1>7. ASSUME NEW w \in Worker, Take(w), UNCHANGED queueOnly PROVE CopyHasTable'
  <2>1. UNCHANGED <<row_count, sent, get_ddl_only>> /\ pc'[w] = "unlock"
    BY <1>7, TakeResult
  <2>2. \A v \in Worker \ {w} : pc'[v] = pc[v] /\ curr'[v] = curr[v]
    BY <1>7 DEF Take, TakeLast, TakeHead, TakeNone
  <2> QED
    BY <2>1, <2>2
<1>8. ASSUME NEW w \in Worker, Unlock(w), UNCHANGED queueOnly PROVE CopyHasTable'
  BY <1>8 DEF Unlock
<1>9. ASSUME NEW w \in Worker, PrintDdl(w) PROVE CopyHasTable'
  BY <1>9 DEF PrintDdl, Goto
<1>10. ASSUME NEW w \in Worker, OpenCopy(w) PROVE CopyHasTable'
  <2>1. curr[w] \in Task /\ row_count'[w] = 0 /\ pc'[w] = "copy" /\ ~get_ddl_only
        /\ UNCHANGED <<curr, get_ddl_only>>
        /\ \A v \in Worker \ {w} :
             sent'[v] = sent[v] /\ row_count'[v] = row_count[v] /\ pc'[v] = pc[v]
    BY <1>10 DEF OpenCopy, Goto
  <2>2. 0 <= Len(Rows[curr[w]])
    BY <2>1, Columns
  <2> QED
    BY <2>1, <2>2 DEF Ending
<1>11. ASSUME NEW w \in Worker, FetchRow(w) PROVE CopyHasTable'
  <2>1. /\ curr[w] \in Task /\ row_count[w] \in Nat /\ row_count[w] < Len(Rows[curr[w]])
        /\ pc[w] = "copy" /\ row_count' = [row_count EXCEPT ![w] = @ + 1]
        /\ UNCHANGED <<pc, curr, get_ddl_only>>
        /\ \A v \in Worker \ {w} : sent'[v] = sent[v]
    BY <1>11 DEF FetchRow, ReadRow
  <2>2. Len(Rows[curr[w]]) \in Nat
    BY <2>1, Columns
  <2>3. row_count[w] + 1 <= Len(Rows[curr[w]])
    BY ONLY <2>1, <2>2
  <2> QED
    BY <2>1, <2>3 DEF Ending
<1>12. ASSUME NEW w \in Worker, AbortRow(w) PROVE CopyHasTable'
  <2>1. /\ pc'[w] = "done" /\ UNCHANGED <<curr, get_ddl_only>>
        /\ \A v \in Worker \ {w} :
             sent'[v] = sent[v] /\ row_count'[v] = row_count[v] /\ pc'[v] = pc[v]
    BY <1>12 DEF AbortRow, ReadRow, Goto
  <2> QED
    BY <2>1 DEF Ending
<1>13. ASSUME NEW w \in Worker, EndRows(w) PROVE CopyHasTable'
  BY <1>13 DEF EndRows, Goto
<1>14. ASSUME NEW w \in Worker, EndCopy(w) PROVE CopyHasTable'
  BY <1>14 DEF EndCopy, Goto
<1>15. ASSUME NEW w \in Worker, CopyFails(w) PROVE CopyHasTable'
  BY <1>15 DEF CopyFails, Goto
<1>16. ASSUME NEW w \in Worker, Commit(w) PROVE CopyHasTable'
  BY <1>16 DEF Commit, Goto
<1>17. ASSUME NEW w \in Worker, Finish(w) PROVE CopyHasTable'
  BY <1>17 DEF Finish, Goto
<1> QED
  BY <1>1, <1>2, <1>3, <1>4, <1>5, <1>6, <1>7, <1>8, <1>9,
     <1>10, <1>11, <1>12, <1>13, <1>14, <1>15, <1>16, <1>17,
     NextCases DEF Dequeue

(* The queue never fills again, so an empty one stays empty.               *)
LEMMA DrainedStep ==
  ASSUME IInv, [Next]_vars
  PROVE  DrainedMeansEmpty'
<1> USE DEF IInv, QueueInv, TypeOK, QueueTypeOK, DequeuePc, NULL, Nobody,
            queueVars, flags, tableVars, countVars, mainVars, queueOnly, DrainedMeansEmpty, QueueShape, Fresh
<1>1. CASE Report
  BY <1>1 DEF Report
<1>2. CASE Abort
  BY <1>2 DEF Abort
<1>3. CASE UNCHANGED vars
  BY <1>3 DEF vars
<1>4. ASSUME NEW w \in Worker, Connect(w) PROVE DrainedMeansEmpty'
  BY <1>4 DEF Connect, Goto
<1>5. ASSUME NEW w \in Worker, Lock(w), UNCHANGED queueOnly PROVE DrainedMeansEmpty'
  BY <1>5 DEF Lock
<1>6. ASSUME NEW w \in Worker, ReadCount(w), UNCHANGED queueOnly PROVE DrainedMeansEmpty'
  BY <1>6 DEF ReadCount
<1>7. ASSUME NEW w \in Worker, Take(w), UNCHANGED queueOnly PROVE DrainedMeansEmpty'
  <2>1. CASE ntask = 0
    <3>1. ntask' = 0
      BY <2>1, <1>7, TakeResult
    <3>2. \A v \in Worker : all_ok'[v] => pc'[v] = "done"
      BY <1>7 DEF Take
    <3> QED
      BY <3>1, <3>2
  <2>2. CASE ntask # 0
    <3>1. curr'[w] # NULL
      BY <2>2, <1>7, TakeResult
    <3>2. \A v \in Worker : pc'[v] # "drained" /\ ~all_ok'[v] /\ (pc'[v] = "unlock" => v = w)
      BY <2>2, <1>7, TakeResult DEF Take, Mutex
    <3> QED
      BY <3>1, <3>2
  <2> QED
    BY <2>1, <2>2
<1>8. ASSUME NEW w \in Worker, Unlock(w), UNCHANGED queueOnly PROVE DrainedMeansEmpty'
  BY <1>8 DEF Unlock
<1>9. ASSUME NEW w \in Worker, PrintDdl(w) PROVE DrainedMeansEmpty'
  BY <1>9 DEF PrintDdl, Goto
<1>10. ASSUME NEW w \in Worker, OpenCopy(w) PROVE DrainedMeansEmpty'
  BY <1>10 DEF OpenCopy, Goto
<1>11. ASSUME NEW w \in Worker, FetchRow(w) PROVE DrainedMeansEmpty'
  BY <1>11 DEF FetchRow, ReadRow
<1>12. ASSUME NEW w \in Worker, AbortRow(w) PROVE DrainedMeansEmpty'
  BY <1>12 DEF AbortRow, Goto, ReadRow
<1>13. ASSUME NEW w \in Worker, EndRows(w) PROVE DrainedMeansEmpty'
  BY <1>13 DEF EndRows, Goto
<1>14. ASSUME NEW w \in Worker, EndCopy(w) PROVE DrainedMeansEmpty'
  BY <1>14 DEF EndCopy, Goto
<1>15. ASSUME NEW w \in Worker, CopyFails(w) PROVE DrainedMeansEmpty'
  BY <1>15 DEF CopyFails, Goto
<1>16. ASSUME NEW w \in Worker, Commit(w) PROVE DrainedMeansEmpty'
  BY <1>16 DEF Commit, Goto
<1>17. ASSUME NEW w \in Worker, Finish(w) PROVE DrainedMeansEmpty'
  BY <1>17 DEF Finish, Goto
<1> QED
  BY <1>1, <1>2, <1>3, <1>4, <1>5, <1>6, <1>7, <1>8, <1>9,
     <1>10, <1>11, <1>12, <1>13, <1>14, <1>15, <1>16, <1>17,
     NextCases DEF Dequeue

(* After the report the threads are done and nothing is decided anew.      *)
LEMMA ReportStep ==
  ASSUME IInv, [Next]_vars
  PROVE  ReportIsFinal'
<1> USE DEF IInv, QueueInv, TypeOK, QueueTypeOK, DequeuePc, NULL, Nobody,
            queueVars, flags, tableVars, countVars, mainVars, queueOnly, ReportIsFinal
<1>1. CASE Report
  BY <1>1 DEF Report
<1>2. CASE Abort
  BY <1>2 DEF Abort
<1>3. CASE UNCHANGED vars
  BY <1>3 DEF vars
<1>4. ASSUME NEW w \in Worker, Connect(w) PROVE ReportIsFinal'
  BY <1>4 DEF Connect, Goto
<1>5. ASSUME NEW w \in Worker, Lock(w), UNCHANGED queueOnly PROVE ReportIsFinal'
  BY <1>5 DEF Lock
<1>6. ASSUME NEW w \in Worker, ReadCount(w), UNCHANGED queueOnly PROVE ReportIsFinal'
  BY <1>6 DEF ReadCount
<1>7. ASSUME NEW w \in Worker, Take(w), UNCHANGED queueOnly PROVE ReportIsFinal'
  BY <1>7 DEF Take, TakeLast, TakeHead, TakeNone, NextOf
<1>8. ASSUME NEW w \in Worker, Unlock(w), UNCHANGED queueOnly PROVE ReportIsFinal'
  BY <1>8 DEF Unlock
<1>9. ASSUME NEW w \in Worker, PrintDdl(w) PROVE ReportIsFinal'
  BY <1>9 DEF PrintDdl, Goto
<1>10. ASSUME NEW w \in Worker, OpenCopy(w) PROVE ReportIsFinal'
  BY <1>10 DEF OpenCopy, Goto
<1>11. ASSUME NEW w \in Worker, FetchRow(w) PROVE ReportIsFinal'
  BY <1>11 DEF FetchRow
<1>12. ASSUME NEW w \in Worker, AbortRow(w) PROVE ReportIsFinal'
  BY <1>12 DEF AbortRow, Goto
<1>13. ASSUME NEW w \in Worker, EndRows(w) PROVE ReportIsFinal'
  BY <1>13 DEF EndRows, Goto
<1>14. ASSUME NEW w \in Worker, EndCopy(w) PROVE ReportIsFinal'
  BY <1>14 DEF EndCopy, Goto
<1>15. ASSUME NEW w \in Worker, CopyFails(w) PROVE ReportIsFinal'
  BY <1>15 DEF CopyFails, Goto
<1>16. ASSUME NEW w \in Worker, Commit(w) PROVE ReportIsFinal'
  BY <1>16 DEF Commit, Goto
<1>17. ASSUME NEW w \in Worker, Finish(w) PROVE ReportIsFinal'
  BY <1>17 DEF Finish, Goto
<1> QED
  BY <1>1, <1>2, <1>3, <1>4, <1>5, <1>6, <1>7, <1>8, <1>9,
     <1>10, <1>11, <1>12, <1>13, <1>14, <1>15, <1>16, <1>17,
     NextCases DEF Dequeue

(* What a thread does when it takes a table from the queue, or nothing.    *)
LEMMA TakeHolds ==
  ASSUME IInv, NEW w \in Worker, Take(w), UNCHANGED queueOnly
  PROVE  /\ UNCHANGED <<complete, target, get_ddl_only>>
         /\ \A t \in Task : ~Answers(w, t)
         /\ \A v \in Worker \ {w}, t \in Task :
              (Holds(v, t)' <=> Holds(v, t)) /\ (Answers(v, t)' <=> Answers(v, t))
         /\ \/ /\ \A t \in Task : ~Holds(w, t)'
               /\ \A t \in Task : Taken(t)' <=> Taken(t)
            \/ \E t0 \in Task :
                 /\ ~Taken(t0) /\ \A t \in Task : Holds(w, t)' <=> t = t0
                 /\ \A t \in Task : Taken(t)' <=> Taken(t) \/ t = t0
<1> USE DEF Holds, HoldingPc, Answers, GaveUp
<1>1. UNCHANGED <<complete, target, get_ddl_only, all_ok>>
  BY DEF queueOnly, flags, tableVars, countVars
<1>2. \A t \in Task : ~Answers(w, t)
  BY DEF Take
<1>3. \A v \in Worker \ {w} : pc'[v] = pc[v] /\ curr'[v] = curr[v]
  BY DEF Take, TakeLast, TakeHead, TakeNone, IInv, QueueInv, TypeOK, QueueTypeOK
<1>4. \A v \in Worker \ {w}, t \in Task :
        (Holds(v, t)' <=> Holds(v, t)) /\ (Answers(v, t)' <=> Answers(v, t))
  BY <1>1, <1>3
<1>5. CASE ntask = 0
  <2>1. (\A t \in Task : ~Holds(w, t)') /\ ntask' = ntask
    BY <1>5, TakeResult, NullIsNoTask
  <2>2. \A t \in Task : Taken(t)' <=> Taken(t)
    BY <2>1 DEF Taken
  <2> QED
    BY <1>1, <1>2, <1>4, <2>1, <2>2
<1>6. CASE ntask # 0
  <2>1. PICK t0 \in Task :
          /\ pc'[w] = "unlock" /\ curr'[w] = t0 /\ ~Taken(t0)
          /\ \A t \in Task : Taken(t)' <=> Taken(t) \/ t = t0
    BY <1>6, TakeResult
  <2>2. \A t \in Task : Holds(w, t)' <=> t = t0
    BY <2>1
  <2> QED
    BY <1>1, <1>2, <1>4, <2>1, <2>2
<1> QED
  BY <1>5, <1>6

(* What a thread does when its table is complete, printed or committed.    *)
Completes(w) ==
  /\ UNCHANGED <<ntask, get_ddl_only>>
  /\ curr[w] \in Task /\ Holds(w, curr[w])
  /\ complete' = [complete EXCEPT ![curr[w]] = TRUE]
  /\ \A t \in Task : ~Holds(w, t)'
  /\ \A v \in Worker \ {w}, t \in Task :
       (Holds(v, t)' <=> Holds(v, t)) /\ (Answers(v, t)' <=> Answers(v, t))

LEMMA CompleteSteps ==
  ASSUME IInv, NEW w \in Worker, PrintDdl(w) \/ Commit(w)
  PROVE  /\ Completes(w)
         /\ PrintDdl(w) => get_ddl_only /\ UNCHANGED target
<1> USE DEF Completes, Holds, HoldingPc, Answers, GaveUp, IInv, QueueInv, TypeOK, CopyHasTable,
            queueVars, flags, countVars, Goto
<1>1. CASE PrintDdl(w)
  <2>1. /\ pc[w] = "begin" /\ pc' = [pc EXCEPT ![w] = "lock"] /\ UNCHANGED <<curr, all_ok, ntask>>
        /\ complete' = [complete EXCEPT ![curr[w]] = TRUE]
        /\ get_ddl_only /\ UNCHANGED <<target, get_ddl_only>>
    BY <1>1 DEF PrintDdl
  <2> QED
    BY <2>1
<1>2. CASE Commit(w)
  <2>1. /\ pc[w] = "commit" /\ pc' = [pc EXCEPT ![w] = "lock"] /\ UNCHANGED <<curr, all_ok, ntask>>
        /\ complete' = [complete EXCEPT ![curr[w]] = TRUE]
        /\ UNCHANGED get_ddl_only
    BY <1>2 DEF Commit
  <2>2. ~PrintDdl(w)
    BY <2>1 DEF PrintDdl
  <2> QED
    BY <2>1, <2>2
<1> QED
  BY <1>1, <1>2

(* The steps as far as tables and who has them are concerned.              *)
LEMMA TableCases ==
  ASSUME IInv, [Next]_vars
  PROVE  \/ Quiet
         \/ \E w \in Worker : Take(w) /\ UNCHANGED queueOnly
         \/ \E w \in Worker : PrintDdl(w)
         \/ \E w \in Worker : Commit(w)
BY QuietSteps

(* A table enters a thread's hands when it is taken, for the first and     *)
(* only time, and leaves them before or when it is marked complete.        *)
LEMMA HeldOnceStep ==
  ASSUME IInv, [Next]_vars
  PROVE  HeldOnce'
<1>0. HeldOnce /\ complete \in [Task -> BOOLEAN] /\ (\A t \in Task : complete[t] => Taken(t))
  BY DEF IInv, QueueInv, TypeOK, LoadedWhole
<1>1. CASE Quiet
  BY <1>0, <1>1 DEF Quiet, HeldOnce, Taken
<1>2. ASSUME NEW w \in Worker, Take(w), UNCHANGED queueOnly
      PROVE  HeldOnce'
  BY <1>0, <1>2, TakeHolds DEF HeldOnce
<1>3. ASSUME NEW w \in Worker, PrintDdl(w) \/ Commit(w)
      PROVE  HeldOnce'
  <2>1. Completes(w)
    BY <1>3, CompleteSteps
  <2> QED
    BY <1>0, <2>1 DEF HeldOnce, Taken, Completes
<1> QED
  BY <1>1, <1>2, <1>3, TableCases

(* A taken table does not get lost: whoever holds it completes it or       *)
(* gives it up.                                                            *)
LEMMA AccountedStep ==
  ASSUME IInv, [Next]_vars
  PROVE  Accounted'
<1>0. Accounted /\ complete \in [Task -> BOOLEAN]
  BY DEF IInv, QueueInv, TypeOK
<1>1. CASE Quiet
  BY <1>0, <1>1 DEF Quiet, Accounted, Taken
<1>2. ASSUME NEW w \in Worker, Take(w), UNCHANGED queueOnly
      PROVE  Accounted'
  <2>1. \A t \in Task : Holds(w, t)' => Answers(w, t)'
    BY DEF Answers
  <2> QED
    BY <1>0, <1>2, <2>1, TakeHolds DEF Accounted
<1>3. ASSUME NEW w \in Worker, PrintDdl(w) \/ Commit(w)
      PROVE  Accounted'
  <2>1. Completes(w)
    BY <1>3, CompleteSteps
  <2>2. \A t \in Task : Answers(w, t) => t = curr[w]
    BY DEF Answers, Holds
  <2> QED
    BY <1>0, <2>1, <2>2 DEF Accounted, Taken, Completes
<1> QED
  BY <1>1, <1>2, <1>3, TableCases

(* Only the COMMIT changes what is at the target, and it marks the table.  *)
LEMMA LoadedWholeStep ==
  ASSUME IInv, [Next]_vars
  PROVE  LoadedWhole'
<1>0. /\ LoadedWhole /\ HeldOnce
      /\ complete \in [Task -> BOOLEAN] /\ DOMAIN target = Task
  BY DEF IInv, QueueInv, TypeOK
<1>1. CASE Quiet
  BY <1>0, <1>1 DEF Quiet, LoadedWhole, Loaded, Taken
<1>2. ASSUME NEW w \in Worker, Take(w), UNCHANGED queueOnly
      PROVE  LoadedWhole'
  <2>1. UNCHANGED <<complete, target, get_ddl_only>> /\ \A t \in Task : Taken(t) => Taken(t)'
    BY <1>2, TakeHolds
  <2> QED
    BY <1>0, <2>1 DEF LoadedWhole, Loaded
<1>3. ASSUME NEW w \in Worker, PrintDdl(w)
      PROVE  LoadedWhole'
  <2>1. Completes(w) /\ get_ddl_only /\ UNCHANGED target
    BY <1>3, CompleteSteps
  <2>2. /\ Taken(curr[w]) /\ target[curr[w]] = <<>>
        /\ \A t \in Task : complete'[t] <=> complete[t] \/ t = curr[w]
        /\ \A t \in Task : (Taken(t)' <=> Taken(t)) /\ (Loaded(t)' <=> Loaded(t))
        /\ get_ddl_only'
    BY <1>0, <2>1 DEF Completes, HeldOnce, LoadedWhole, Taken, Loaded
  <2> QED
    BY <1>0, <2>1, <2>2 DEF LoadedWhole
<1>4. ASSUME NEW w \in Worker, Commit(w)
      PROVE  LoadedWhole'
  <2>1. Completes(w)
    BY <1>4, CompleteSteps
  <2>2. PICK t \in Task :
          /\ t = curr[w] /\ target[t] = <<>> /\ Taken(t)
          /\ sent[w] \in 0 .. Len(Rows[t]) /\ (FetchMayFail \/ sent[w] = Len(Rows[t]))
          /\ \/ target' = [target EXCEPT ![t] = Read[t][sent[w]]]
             \/ CommitMayFail /\ UNCHANGED target
    BY <1>4, CommitLoads
  <2>3. Loaded(t)' \/ (target'[t] = <<>> /\ CommitMayFail)
    <3>1. target'[t] = Read[t][sent[w]] \/ (target'[t] = <<>> /\ CommitMayFail)
      BY <1>0, <2>2
    <3> QED
      BY <2>2, <3>1 DEF Loaded
  <2>4. complete'[t] /\ \A u \in Task : Taken(u)' <=> Taken(u)
    BY <1>0, <2>1, <2>2 DEF Completes, Taken
  <2>5. ASSUME NEW u \in Task, u # t
        PROVE  /\ target'[u] = target[u] /\ complete'[u] = complete[u] /\ get_ddl_only' = get_ddl_only
               /\ Loaded(u) => Loaded(u)'
    <3>1. target'[u] = target[u]
      BY <1>0, <2>2, <2>5
    <3>2. complete'[u] = complete[u] /\ get_ddl_only' = get_ddl_only
      BY <1>0, <2>1, <2>2, <2>5 DEF Completes
    <3>3. Loaded(u) => Loaded(u)'
      BY <3>1 DEF Loaded
    <3> QED
      BY <3>1, <3>2, <3>3
  <2> QED
    BY <1>0, <2>2, <2>3, <2>4, <2>5 DEF LoadedWhole
<1> QED
  BY <1>1, <1>2, <1>3, <1>4, TableCases

-----------------------------------------------------------------------------
(* The invariant holds at the start and every step keeps it.               *)
LEMMA InitIInv == Init => IInv
<1> SUFFICES ASSUME Init PROVE IInv
  OBVIOUS
<1> USE DEF Init, QueueInit
<1>0. TypeOK
  <2>1. ntask \in 0 .. NTask /\ 0 \in 0 .. NTask /\ l_task \in Task \union {NULL}
    BY DEF Task, NULL
  <2>2. /\ \A t \in Task : Len(target[t]) <= Len(Rows[t])
        /\ target \in [Task -> Seq(Seq({Null} \union Chars))]
    <3>1. Len(<<>>) = 0 /\ <<>> \in Seq(Seq({Null} \union Chars))
      BY EmptySeq
    <3>2. \A t \in Task : 0 <= Len(Rows[t])
      BY Columns
    <3> QED
      BY <3>1, <3>2
  <2>3. QueueTypeOK
    BY <2>1 DEF QueueTypeOK
  <2>4. /\ pc \in [Worker -> DequeuePc \union {"connect", "begin", "copy", "end", "commit",
                                              "drained", "done"}]
        /\ time_to_abort \in BOOLEAN /\ get_ddl_only \in BOOLEAN
        /\ complete \in [Task -> BOOLEAN] /\ all_ok \in [Worker -> BOOLEAN]
        /\ reported \in BOOLEAN /\ have_err \in BOOLEAN
    OBVIOUS
  <2>5. /\ row_count \in [Worker -> Nat] /\ sent \in [Worker -> Nat]
        /\ \A w \in Worker : sent[w] <= row_count[w]
        /\ tcount \in [Task -> Nat] /\ wcount \in [Worker -> Nat]
    OBVIOUS
  <2> QED
    BY <2>2, <2>3, <2>4, <2>5 DEF TypeOK
<1>1. QueueInv
  BY <1>0 DEF QueueInv, QueueShape, Mutex, Fresh, NULL, Nobody
<1>2. \A t \in Task : ~Taken(t)
  BY DEF Taken, Task
<1>3. HeldOnce /\ CopyHasTable /\ LoadedWhole /\ Accounted
  BY <1>2 DEF HeldOnce, Holds, HoldingPc, CopyHasTable, LoadedWhole, Accounted
<1>4. DrainedMeansEmpty /\ ReportIsFinal
  BY DEF DrainedMeansEmpty, ReportIsFinal
<1> QED
  BY <1>1, <1>3, <1>4 DEF IInv

(* Each conjunct of the invariant by its own lemma.                        *)
LEMMA StepIInv == IInv /\ [Next]_vars => IInv'
<1> SUFFICES ASSUME IInv, [Next]_vars PROVE IInv'
  OBVIOUS
<1> QED
  BY TypingStep, QueueStep, HeldOnceStep, CopyHasTableStep, LoadedWholeStep,
     AccountedStep, DrainedStep, ReportStep DEF IInv, QueueInv

(* The inductive invariant of the MySQL copy, whatever SIGINT, the fetches *)
(* and the COMMITs do.                                                     *)
THEOREM Inductive == Safety => []IInv
BY InitIInv, StepIInv, PTL DEF Safety

(* Every variable keeps its type, and no table ever has more rows at the   *)
(* target than its query returned.                                         *)
THEOREM Typing == Safety => []TypeOK
<1>1. IInv => TypeOK
  BY DEF IInv, QueueInv
<1> QED
  BY <1>1, Inductive, PTL

(* The line "rows complete" of mysql2pgsql_copy_data is true when every    *)
(* fetch delivers its row and every COMMIT does what COPY promised: the    *)
(* table is at the target as it was meant, value by value, if none of its  *)
(* values has a backslash or a NUL.                                        *)
LEMMA CompleteTables ==
  ASSUME IInv, ~FetchMayFail, ~CommitMayFail, ~get_ddl_only,
         NEW t \in Task, complete[t]
  PROVE  target[t] = Read[t][Len(Rows[t])]
BY DEF IInv, LoadedWhole, Loaded

THEOREM CompleteIsLoaded ==
  ASSUME ~FetchMayFail, ~CommitMayFail
  PROVE  Safety => []CompleteMeansLoaded
<1>1. IInv => CompleteMeansLoaded
  BY CompleteTables, ReadIsMeant DEF CompleteMeansLoaded
<1> QED
  BY <1>1, Inductive, PTL

(* Nobody gave up when there is no error, so every table is complete.      *)
AllComplete == \A t \in Task : complete[t]

LEMMA CleanTables == IInv /\ reported /\ ~have_err => AllComplete
<1> SUFFICES ASSUME IInv, reported, ~have_err
             PROVE  AllComplete
  OBVIOUS
<1>1. \A w \in Worker : pc[w] = "done" /\ all_ok[w]
  BY DEF IInv, ReportIsFinal
<1>2. ntask = 0
  BY <1>1 DEF IInv, DrainedMeansEmpty
<1>3. ASSUME NEW t \in Task PROVE complete[t]
  <2>1. Taken(t)
    BY <1>2 DEF Taken, Task
  <2>2. \A w \in Worker : ~Answers(w, t)
    BY <1>1 DEF Answers, Holds, HoldingPc, GaveUp
  <2> QED
    BY <2>1, <2>2 DEF IInv, Accounted
<1> QED
  BY <1>3 DEF AllComplete

(* How many rows of each table are at the target, and there are to be.     *)
Loads == [t \in Task |-> Len(target[t])]
Sizes == [t \in Task |-> Len(Rows[t])]
verdict == IF ~reported \/ get_ddl_only THEN "running"
           ELSE IF have_err THEN "errors" ELSE "clean"

LEMMA LoadedSize ==
  ASSUME IInv, ~FetchMayFail, ~CommitMayFail, ~get_ddl_only, NEW t \in Task, complete[t]
  PROVE  Len(target[t]) = Len(Rows[t])
<1>1. target[t] = Read[t][Len(Rows[t])]
  BY CompleteTables
<1>2. Len(Rows[t]) \in 0 .. Len(Rows[t])
  BY Columns
<1> QED
  BY <1>1, <1>2, ReadBack DEF AreRows

(* The COMMIT of a thread is the Load of its table.                        *)
LEMMA CommitIsLoad ==
  ASSUME IInv, ~FetchMayFail, ~CommitMayFail, NEW w \in Worker, Commit(w)
  PROVE  \E t \in Task : Job!Load(t)
<1>1. PICK t \in Task :
        /\ t = curr[w] /\ target[t] = <<>> /\ sent[w] = Len(Rows[t])
        /\ AreRows(Read[t][sent[w]], t, sent[w])
        /\ target' = [target EXCEPT ![t] = Read[t][sent[w]]]
  BY CommitLoads
<1>2. ~reported /\ UNCHANGED <<reported, have_err, get_ddl_only>>
  BY DEF Commit, IInv, ReportIsFinal, mainVars, flags
<1>3. DOMAIN target = Task
  BY DEF IInv, QueueInv, TypeOK
<1>4. Loads[t] = 0 /\ Len(<<>>) = 0
  BY <1>1, EmptySeq DEF Loads
<1>5. Loads' = [Loads EXCEPT ![t] = Sizes[t]]
  <2>1. target'[t] = Read[t][sent[w]] /\ \A u \in Task \ {t} : target'[u] = target[u]
    BY <1>1, <1>3
  <2>2. Len(target'[t]) = Len(Rows[t])
    BY <1>1, <2>1 DEF AreRows
  <2> QED
    BY <2>1, <2>2 DEF Loads, Sizes
<1>6. verdict = "running" /\ verdict' = "running"
  BY <1>2 DEF verdict
<1>7. Job!Load(t)
  BY <1>1, <1>4, <1>5, <1>6 DEF Job!Load, Loads, Sizes, verdict
<1> QED
  BY <1>7

(* Every step of the threads is a step of the job or changes nothing of it. *)
LEMMA StepJob ==
  ASSUME IInv, IInv', ~FetchMayFail, ~CommitMayFail, [Next]_vars
  PROVE  [Job!Next]_(Job!vars)
<1>1. CASE UNCHANGED <<target, reported, have_err, get_ddl_only>>
  BY <1>1 DEF Job!vars
<1>2. CASE Report
  <2>1. /\ ~reported /\ reported'
        /\ UNCHANGED <<target, complete, get_ddl_only>>
    BY <1>2 DEF Report, flags, tableVars
  <2>2. CASE get_ddl_only
    BY <2>1, <2>2 DEF Job!vars
  <2>3. CASE ~get_ddl_only /\ have_err'
    BY <2>1, <2>3 DEF Job!Next, Job!Finish, Job!FinishWithErrors
  <2>4. CASE ~get_ddl_only /\ ~have_err'
    <3>0. AllComplete'
      BY <2>1, <2>4, CleanTables, PTL
    <3>1. \A t \in Task : complete'[t]
      BY <3>0 DEF AllComplete
    <3>2. \A t \in Task : Len(target[t]) = Len(Rows[t])
      BY <2>1, <2>4, <3>1, LoadedSize
    <3>3. Loads = Sizes
      BY <3>2 DEF Loads, Sizes
    <3>4. verdict = "running" /\ verdict' = "clean" /\ UNCHANGED Loads
      BY <2>1, <2>4 DEF verdict, Loads
    <3> QED
      BY <3>3, <3>4 DEF Job!Next, Job!Finish, Job!FinishClean, Loads, Sizes, verdict
  <2> QED
    BY <2>2, <2>3, <2>4
<1>3. ASSUME NEW w \in Worker, Commit(w)
      PROVE  Job!Next
  BY <1>3, CommitIsLoad DEF Job!Next
<1>4. ASSUME NEW w \in Worker, Thread(w), ~Commit(w)
      PROVE  UNCHANGED <<target, reported, have_err, get_ddl_only>>
  BY <1>4 DEF Thread, Connect, TakeTask, Copy, PrintDdl, OpenCopy, FetchRow, AbortRow, EndRows,
              EndCopy, CopyFails, Finish, tableVars, mainVars, flags
<1>5. CASE UNCHANGED vars \/ Abort
  BY <1>1, <1>5 DEF vars, tableVars, mainVars, flags, Abort
<1> QED
  BY <1>1, <1>2, <1>3, <1>4, <1>5 DEF Next, Ended

(* The threads implement the job, as far as safety goes: tables reach the  *)
(* target whole and once, and the verdict is clean only when all are there. *)
THEOREM ThreadsImplementJob ==
  ASSUME ~FetchMayFail, ~CommitMayFail
  PROVE  Safety => JobSafety
<1>1. Init => Job!Init
  <2> SUFFICES ASSUME Init PROVE Job!Init
    OBVIOUS
  <2>1. \A t \in Task : Len(target[t]) = 0
    BY EmptySeq DEF Init
  <2>2. [t \in Task |-> Len(target[t])] = [t \in Task |-> 0]
    BY <2>1
  <2> QED
    BY <2>2 DEF Init, Job!Init
<1>2. IInv /\ IInv' /\ [Next]_vars => [Job!Next]_(Job!vars)
  BY StepJob
<1> QED
  BY <1>1, <1>2, Inductive, PTL DEF Safety, JobSafety, Job!Safety
=============================================================================
