---------------------------- MODULE DbSync_proofs ----------------------------
(***************************************************************************)
(* Proofs about how the programs get going and what db_sync_main, which    *)
(* one of them starts, makes of its starts.                                *)
(*                                                                         *)
(* The first part is about Startup, for any texts of the two files.  Its   *)
(* inductive invariant is Prepared: the reader is inside of a text that    *)
(* ends with NUL (Inside), and the list is cut up to a line (ListCut):     *)
(* behind it the text is the file's, the strings in front of it have their *)
(* NUL in front of it (Pointers), what is pointed to is what the lines so  *)
(* far say (Listed), and no line has two entries (Counted).                *)
(*                                                                         *)
(* The second part is about DbSync, for any tables, any number of commits  *)
(* and starts, and crashes anywhere.  The inductive invariant IInv follows *)
(* what a start decided through its program counter: a copy that is waited *)
(* for has every table under way (CopyUnderWay), a start that skips the    *)
(* copy found an end (SkipHasEnd), and once the copy is over it stays so   *)
(* (CopyOver).  For the handover to the stream, the slot is there before   *)
(* the first table is loaded (SlotFirst), the threads' snapshot is not     *)
(* older than it (SnapshotAfterSlot), and what a load left behind it comes *)
(* after the slot (LoadCoversSlot).                                        *)
(***************************************************************************)
EXTENDS Startup, DbSync, Induction, SequenceTheorems, TLAPS

-----------------------------------------------------------------------------
(* Places in a text.                                                       *)

(* From a on, there is a first place of a kind if there is one at k,       *)
LEMMA FirstPlace ==
  ASSUME NEW a \in Int, NEW k \in Int, a <= k, NEW P, k \in P
  PROVE  \E i \in a .. k : i \in P /\ \A j \in a .. i - 1 : j \notin P
<1> DEFINE T == {x \in Nat : a + x \in P}
<1>1. k - a \in T /\ T \subseteq Nat
  <2>1. k - a \in Nat /\ a + (k - a) = k
    OBVIOUS
  <2> QED
    BY <2>1
<1>2. PICK x \in T : \A y \in T : x <= y
  BY <1>1, LeastNat
<1>3. a + x \in a .. k /\ a + x \in P
  BY <1>1, <1>2
<1>4. ASSUME NEW j \in a .. a + x - 1 PROVE j \notin P
  <2>1. j - a \in Nat /\ a + (j - a) = j /\ ~(x <= j - a)
    BY <1>2
  <2> QED
    BY <1>2, <2>1
<1> QED
  BY <1>3, <1>4

(* and up to b a last one.                                                 *)
LEMMA FinalPlace ==
  ASSUME NEW b \in Int, NEW k \in Int, k <= b, NEW P, k \in P
  PROVE  \E i \in k .. b : i \in P /\ \A j \in i + 1 .. b : j \notin P
<1> DEFINE T == {x \in Nat : b - x \in P}
<1>1. b - k \in T /\ T \subseteq Nat
  <2>1. b - k \in Nat /\ b - (b - k) = k
    OBVIOUS
  <2> QED
    BY <2>1
<1>2. PICK x \in T : \A y \in T : x <= y
  BY <1>1, LeastNat
<1>3. b - x \in k .. b /\ b - x \in P
  <2>1. x \in Nat /\ b - x \in P /\ x <= b - k
    BY <1>1, <1>2
  <2> QED
    BY <2>1
<1>4. ASSUME NEW j \in b - x + 1 .. b PROVE j \notin P
  <2>1. b - j \in Nat /\ b - (b - j) = j /\ ~(x <= b - j)
    BY <1>2
  <2> QED
    BY <1>2, <2>1
<1> QED
  BY <1>3, <1>4

(* A text with a terminator.                                               *)
Terminated(d) == d \in Texts /\ Len(d) > 0 /\ d[Len(d)] = NUL

LEMMA UptoIs ==
  ASSUME NEW d, Terminated(d), NEW i \in 1 .. Len(d), NEW chars
  PROVE  /\ Upto(d, i, chars) \in i .. Len(d)
         /\ d[Upto(d, i, chars)] \in chars \union {NUL}
         /\ \A k \in i .. Upto(d, i, chars) - 1 : d[k] \notin chars \union {NUL}
<1> DEFINE P == {j \in Int : d[j] \in chars \union {NUL}}
<1>0. Len(d) \in Nat /\ Len(d) \in P /\ i \in Int /\ i <= Len(d) /\ Len(d) \in Int
  <2>1. Len(d) \in Nat
    BY LenProperties DEF Terminated, Texts
  <2> QED
    BY <2>1 DEF Terminated
<1> HIDE DEF P
<1>1. PICK j \in i .. Len(d) : j \in P /\ \A k \in i .. j - 1 : k \notin P
  BY <1>0, FirstPlace
<1> USE DEF P
<1>2. \A k \in i .. j - 1 : d[k] \notin chars \union {NUL}
  BY <1>0, <1>1
<1> QED
  BY <1>1, <1>2 DEF Upto

LEMMA LineEndIs ==
  ASSUME NEW d, Terminated(d), NEW i \in 1 .. Len(d)
  PROVE  /\ LineEnd(d, i) \in i .. Len(d)
         /\ LineEnd(d, i) = Len(d) \/ d[LineEnd(d, i)] = "\n"
         /\ \A k \in i .. LineEnd(d, i) - 1 : d[k] # "\n"
<1> DEFINE P == {j \in Int : j = Len(d) \/ d[j] = "\n"}
<1>0. Len(d) \in Nat /\ Len(d) \in P /\ i \in Int /\ i <= Len(d) /\ Len(d) \in Int
  <2>1. Len(d) \in Nat
    BY LenProperties DEF Terminated, Texts
  <2> QED
    BY <2>1 DEF Terminated
<1> HIDE DEF P
<1>1. PICK j \in i .. Len(d) : j \in P /\ \A k \in i .. j - 1 : k \notin P
  BY <1>0, FirstPlace
<1> USE DEF P
<1>2. \A k \in i .. j - 1 : d[k] # "\n"
  BY <1>0, <1>1
<1> QED
  BY <1>1, <1>2 DEF LineEnd

(* Clearing puts NULs and leaves the rest of the text and its length.      *)
LEMMA ClearedIs ==
  ASSUME CharAssumption, NEW d \in Texts, NEW i \in 1 .. Len(d) + 1, NEW j \in i .. Len(d) + 1
  PROVE  /\ Cleared(d, i, j) \in Texts /\ Len(Cleared(d, i, j)) = Len(d)
         /\ \A k \in 1 .. Len(d) :
              Cleared(d, i, j)[k] = IF k \in i .. j - 1 THEN NUL ELSE d[k]
<1> DEFINE n == Len(d)
           u == SubSeq(d, 1, i - 1)
           v == [k \in 1 .. j - i |-> NUL]
           w == SubSeq(d, j, n)
<1>a. n \in Nat /\ (\A k \in 1 .. n : d[k] \in Char)
  BY LenProperties, ElementOfSeq DEF Texts
<1>b. NUL \in Char
  BY DEF CharAssumption
<1>0. n \in Nat /\ i \in Int /\ j \in Int /\ NUL \in Char /\ (\A k \in 1 .. n : d[k] \in Char)
  BY <1>a, <1>b
<1>1. u \in Texts /\ Len(u) = i - 1 /\ \A k \in 1 .. i - 1 : u[k] = d[k]
  <2>1. \A k \in 1 .. i - 1 : d[k] \in Char
    BY <1>0
  <2> QED
    BY <1>0, <2>1, SubSeqProperties DEF Texts
<1>2. v \in Texts /\ Len(v) = j - i /\ \A k \in 1 .. j - i : v[k] = NUL
  <2>1. j - i \in Nat
    BY <1>0
  <2>2. v \in [1 .. j - i -> Char]
    BY <1>0
  <2>3. v \in Texts
    BY <2>1, <2>2, SeqDef DEF Texts
  <2>4. \A k \in 1 .. j - i : v[k] = NUL
    OBVIOUS
  <2> HIDE DEF v
  <2> QED
    BY <2>1, <2>2, <2>3, <2>4
<1>3. w \in Texts /\ Len(w) = n - j + 1 /\ \A k \in 1 .. n - j + 1 : w[k] = d[j + k - 1]
  <2>1. \A k \in j .. n : d[k] \in Char
    BY <1>0
  <2> QED
    BY <1>0, <2>1, SubSeqProperties DEF Texts
<1>4. Cleared(d, i, j) = (u \o v) \o w
  BY DEF Cleared
<1> HIDE DEF u, v, w
<1> DEFINE uv == u \o v
<1>5. /\ uv \in Texts /\ Len(uv) = j - 1
      /\ \A k \in 1 .. j - 1 : uv[k] = IF k <= i - 1 THEN u[k] ELSE v[k - (i - 1)]
  <2>1. u \in Seq(Char) /\ v \in Seq(Char)
    BY <1>1, <1>2 DEF Texts
  <2>2. /\ uv \in Seq(Char) /\ Len(uv) = Len(u) + Len(v)
        /\ \A k \in 1 .. Len(u) + Len(v) :
             uv[k] = IF k <= Len(u) THEN u[k] ELSE v[k - Len(u)]
    BY <2>1, ConcatProperties
  <2>3. Len(u) = i - 1 /\ Len(u) + Len(v) = j - 1
    BY <1>0, <1>1, <1>2
  <2> HIDE DEF uv
  <2> QED
    BY <2>2, <2>3 DEF Texts
<1> HIDE DEF uv
<1>6. /\ uv \o w \in Texts /\ Len(uv \o w) = n
      /\ \A k \in 1 .. n : (uv \o w)[k] = IF k <= j - 1 THEN uv[k] ELSE w[k - (j - 1)]
  <2>1. /\ uv \o w \in Seq(Char) /\ Len(uv \o w) = Len(uv) + Len(w)
        /\ \A k \in 1 .. Len(uv) + Len(w) :
             (uv \o w)[k] = IF k <= Len(uv) THEN uv[k] ELSE w[k - Len(uv)]
    <3>1. uv \in Seq(Char) /\ w \in Seq(Char)
      BY <1>3, <1>5 DEF Texts
    <3> QED
      BY <3>1, ConcatProperties
  <2>2. Len(uv) = j - 1 /\ Len(uv) + Len(w) = n
    BY <1>0, <1>3, <1>5
  <2> QED
    BY <2>1, <2>2 DEF Texts
<1>7. Cleared(d, i, j) = uv \o w
  BY <1>4 DEF uv
<1> DEFINE r == uv \o w
<1> HIDE DEF r, n
<1>8. ASSUME NEW k \in 1 .. n PROVE r[k] = IF k \in i .. j - 1 THEN NUL ELSE d[k]
  <2>1. CASE k <= i - 1
    <3>1. k \in 1 .. i - 1 /\ k \in 1 .. j - 1 /\ k \notin i .. j - 1
      BY <1>0, <2>1 DEF n
    <3> QED
      BY <1>1, <1>5, <1>6, <2>1, <3>1 DEF n, r
  <2>2. CASE k \in i .. j - 1
    <3>1. k \in 1 .. j - 1 /\ ~(k <= i - 1) /\ k - (i - 1) \in 1 .. j - i
      BY <1>0, <2>2 DEF n
    <3>2. r[k] = v[k - (i - 1)]
      BY <1>5, <1>6, <3>1 DEF n, r
    <3> QED
      BY <1>2, <2>2, <3>1, <3>2
  <2>3. CASE k >= j
    <3>1. ~(k <= j - 1) /\ k - (j - 1) \in 1 .. n - j + 1 /\ j + (k - (j - 1)) - 1 = k
          /\ k \notin i .. j - 1
      BY <1>0, <2>3 DEF n
    <3>2. r[k] = w[k - (j - 1)]
      BY <1>6, <3>1 DEF n, r
    <3> QED
      BY <1>3, <3>1, <3>2 DEF n
  <2>4. k <= i - 1 \/ k \in i .. j - 1 \/ k >= j
    BY <1>0 DEF n
  <2> QED
    BY <2>1, <2>2, <2>3, <2>4
<1> QED
  BY <1>6, <1>7, <1>8 DEF n, r

(* Some blanks that end at i are trimmed.                                  *)
LEMMA TrimmedIs ==
  ASSUME NEW d \in Texts, NEW i \in 0 .. Len(d)
  PROVE  \E b \in 1 .. i + 1 :
           /\ Trimmed(d, i) = Cleared(d, b, i + 1)
           /\ \A k \in b .. i : d[k] \in Blank
           /\ b = 1 \/ d[b - 1] \notin Blank
<1> DEFINE P == {j \in Int : j = 1 \/ d[j - 1] \notin Blank}
           c == CHOOSE j \in 1 .. i + 1 :
                  /\ \A k \in j .. i : d[k] \in Blank
                  /\ j = 1 \/ d[j - 1] \notin Blank
<1>0. i \in Int /\ 1 \in P /\ 1 <= i + 1 /\ 1 \in Int /\ i + 1 \in Int
  BY LenProperties DEF Texts
<1> HIDE DEF P
<1>1. PICK j \in 1 .. i + 1 : j \in P /\ \A k \in j + 1 .. i + 1 : k \notin P
  BY <1>0, FinalPlace
<1> USE DEF P
<1>2. ASSUME NEW k \in j .. i PROVE d[k] \in Blank
  <2>1. k + 1 \in j + 1 .. i + 1 /\ k + 1 \in Int /\ k + 1 - 1 = k
    BY <1>0
  <2> HIDE DEF P
  <2>2. k + 1 \notin P
    BY <1>1, <2>1
  <2>3. d[k + 1 - 1] \in Blank
    BY <2>1, <2>2 DEF P
  <2> QED
    BY <2>1, <2>3
<1>3. \E m \in 1 .. i + 1 : (\A k \in m .. i : d[k] \in Blank)
                              /\ (m = 1 \/ d[m - 1] \notin Blank)
  BY <1>1, <1>2
<1>4. /\ c \in 1 .. i + 1 /\ \A k \in c .. i : d[k] \in Blank
      /\ c = 1 \/ d[c - 1] \notin Blank
  BY <1>3
<1>5. Trimmed(d, i) = Cleared(d, c, i + 1)
  BY DEF Trimmed
<1> QED
  BY <1>4, <1>5

(* The text is whole, and the reader in it.                                *)
Inside == Terminated(data) /\ at \in 1 .. End

LEMMA TerminatedIs ==
  ASSUME NEW d, Terminated(d)
  PROVE  /\ d \in Texts /\ Len(d) \in Nat \ {0} /\ d[Len(d)] = NUL
         /\ Len(d) \in 1 .. Len(d) /\ \A i \in 1 .. Len(d) : d[i] \in Char
<1>1. d \in Texts /\ Len(d) \in Nat /\ Len(d) > 0 /\ d[Len(d)] = NUL
  BY LenProperties DEF Terminated, Texts
<1>2. \A i \in 1 .. Len(d) : d[i] \in Char
  BY ElementOfSeq DEF Terminated, Texts
<1> QED
  BY <1>1, <1>2

(* '=' is before the terminator, and so is what follows it.                *)
LEMMA ValueAtIs ==
  ASSUME Inside, HasEquals
  PROVE  /\ Equals \in at .. End - 1 /\ data[Equals] = "="
         /\ \A k \in at .. Equals - 1 : data[k] \notin {"=", "\n", NUL}
         /\ ValueAt \in Equals + 1 .. End /\ data[ValueAt] \notin Blank
         /\ \A k \in Equals + 1 .. ValueAt - 1 : data[k] \in Blank
<1> DEFINE n == Len(data)
           e == Equals
           P == {j \in Int : data[j] \notin Blank}
<1>0. /\ n \in Nat \ {0} /\ data[n] = NUL /\ NUL \notin Blank /\ NUL # "="
      /\ at \in 1 .. n /\ Terminated(data) /\ End = n
  BY TerminatedIs DEF Inside, End, NUL, Blank
<1>1. /\ e \in at .. n /\ \A k \in at .. e - 1 : data[k] \notin {"=", "\n"} \union {NUL}
  BY <1>0, UptoIs DEF Equals
<1>2. data[e] = "="
  BY DEF HasEquals
<1>3. e \in at .. n - 1
  BY <1>0, <1>1, <1>2
<1>4. n \in P /\ e + 1 \in Int /\ n \in Int /\ e + 1 <= n
  BY <1>0, <1>3
<1> HIDE DEF P, e, n
<1>5. PICK j \in e + 1 .. n : j \in P /\ \A k \in e + 1 .. j - 1 : k \notin P
  BY <1>4, FirstPlace
<1>6. data[j] \notin Blank /\ \A k \in e + 1 .. j - 1 : data[k] \in Blank
  BY <1>5, <1>4 DEF P
<1>7. ValueAt = CHOOSE v \in e + 1 .. n : /\ data[v] \notin Blank
                                            /\ \A k \in e + 1 .. v - 1 : data[k] \in Blank
  BY <1>0 DEF ValueAt, e, n
<1>8. /\ ValueAt \in e + 1 .. n /\ data[ValueAt] \notin Blank
      /\ \A k \in e + 1 .. ValueAt - 1 : data[k] \in Blank
  BY <1>5, <1>6, <1>7
<1> QED
  BY <1>0, <1>1, <1>2, <1>3, <1>8 DEF e, n

-----------------------------------------------------------------------------
(* What is left of a quoted value from place i on, if f says what is left  *)
(* from later places on.                                                   *)
Rest(d, i, f) ==
  IF i = Len(d) \/ d[i] \in {"\"", "\r", "\n"} THEN <<>>
  ELSE IF d[i] # "\\" THEN <<d[i]>> \o f[i + 1]
  ELSE IF d[i + 1] \in {"\r", "\n", NUL} THEN <<>>
  ELSE <<Escaped(d[i + 1])>> \o f[i + 2]

(* Two characters are taken only where there are two.                      *)
LEMMA TwoAreThere ==
  ASSUME NEW d, Terminated(d), NEW i \in 1 .. Len(d), i # Len(d), d[i + 1] # NUL
  PROVE  i + 2 \in 1 .. Len(d) /\ i + 1 \in 1 .. Len(d)
<1>1. Len(d) \in Nat /\ d[Len(d)] = NUL
  BY TerminatedIs
<1>2. i + 1 # Len(d)
  BY <1>1
<1> QED
  BY <1>1, <1>2

LEMMA RestType ==
  ASSUME CharAssumption, NEW d, Terminated(d), NEW i \in 1 .. Len(d),
         NEW f, \A j \in i + 1 .. Len(d) : f[j] \in Texts
  PROVE  Rest(d, i, f) \in Texts
<1>0. Len(d) \in Nat /\ d[Len(d)] = NUL /\ \A j \in 1 .. Len(d) : d[j] \in Char
  BY TerminatedIs
<1>1. <<>> \in Texts
  BY EmptySeq DEF Texts
<1>2. ASSUME NEW c \in Char, NEW t \in Texts PROVE <<c>> \o t \in Texts
  <2>1. <<c>> \in Seq(Char)
    BY OneElement
  <2> QED
    BY <2>1, ConcatProperties DEF Texts
<1>3. ASSUME i # Len(d) PROVE <<d[i]>> \o f[i + 1] \in Texts
  BY <1>0, <1>2, <1>3
<1>4. ASSUME i # Len(d), d[i + 1] # NUL
      PROVE  <<Escaped(d[i + 1])>> \o f[i + 2] \in Texts
  <2>1. i + 2 \in i + 1 .. Len(d) /\ d[i + 1] \in Char
    BY <1>0, <1>4, TwoAreThere
  <2>2. Escaped(d[i + 1]) \in Char
    BY <2>1 DEF Escaped, CharAssumption
  <2> QED
    BY <1>2, <2>1, <2>2
<1> QED
  BY <1>1, <1>3, <1>4 DEF Rest

LEMMA RestLocal ==
  ASSUME NEW d, Terminated(d), NEW i \in 1 .. Len(d),
         NEW f, NEW g, \A j \in i + 1 .. Len(d) : f[j] = g[j]
  PROVE  Rest(d, i, f) = Rest(d, i, g)
<1>0. Len(d) \in Nat
  BY TerminatedIs
<1>1. i # Len(d) => f[i + 1] = g[i + 1]
  BY <1>0
<1>2. i # Len(d) /\ d[i + 1] # NUL => f[i + 2] = g[i + 2]
  BY <1>0, TwoAreThere
<1> QED
  BY <1>1, <1>2 DEF Rest

IsRest(f, d, m) ==
  f \in [m .. Len(d) -> Texts] /\ \A i \in m .. Len(d) : f[i] = Rest(d, i, f)

LEMMA RestExists ==
  ASSUME CharAssumption, NEW d, Terminated(d), NEW m \in 1 .. Len(d)
  PROVE  \E f : IsRest(f, d, m)
<1> DEFINE n == Len(d)
           T == {k \in 0 .. n - m : \E f : IsRest(f, d, n - k)}
<1>0. n \in Nat /\ m \in Int /\ n - m \in Nat
  BY TerminatedIs
<1>1. 0 \in T
  <2> DEFINE f == [i \in n .. n |-> <<>>]
  <2>1. f \in [n .. n -> Texts]
    BY EmptySeq DEF Texts
  <2>2. \A i \in n .. n : f[i] = Rest(d, i, f)
    <3>1. \A i \in n .. n : i = n
      BY <1>0
    <3> QED
      BY <3>1 DEF Rest
  <2>3. n - 0 = n /\ 0 \in 0 .. n - m
    BY <1>0
  <2> HIDE DEF f
  <2>4. IsRest(f, d, n - 0)
    BY <2>1, <2>2, <2>3 DEF IsRest
  <2> QED
    BY <2>3, <2>4
<1>2. ASSUME NEW k \in 1 .. n - m, k - 1 \in T PROVE k \in T
  <2> DEFINE b == n - k
  <2>0. b \in 1 .. n /\ b + 1 = n - (k - 1) /\ b \in Int
    BY <1>0
  <2>1. PICK f : IsRest(f, d, b + 1)
    BY <1>2, <2>0
  <2> DEFINE g == [i \in b .. n |-> IF i = b THEN Rest(d, b, f) ELSE f[i]]
  <2>2. \A j \in b + 1 .. n : f[j] \in Texts
    BY <2>1 DEF IsRest
  <2> HIDE DEF b
  <2>3. Rest(d, b, f) \in Texts
    BY <2>0, <2>2, RestType
  <2>4. g \in [b .. n -> Texts]
    BY <1>0, <2>0, <2>2, <2>3
  <2>5. g[b] = Rest(d, b, f) /\ \A j \in b + 1 .. n : g[j] = f[j]
    BY <1>0, <2>0
  <2> HIDE DEF g
  <2>6. ASSUME NEW i \in b .. n PROVE g[i] = Rest(d, i, g)
    <3>0. i \in 1 .. n
      BY <1>0, <2>0
    <3>1. \A j \in i + 1 .. n : f[j] = g[j]
      BY <1>0, <2>0, <2>5
    <3>2. Rest(d, i, f) = Rest(d, i, g)
      BY <3>0, <3>1, RestLocal
    <3>3. CASE i = b
      BY <2>5, <3>2, <3>3
    <3>4. CASE i # b
      <4>1. i \in b + 1 .. n
        BY <1>0, <2>0, <3>4
      <4> QED
        BY <2>1, <2>5, <3>2, <4>1 DEF IsRest
    <3> QED
      BY <3>3, <3>4
  <2>7. IsRest(g, d, b)
    BY <2>4, <2>6 DEF IsRest
  <2> QED
    BY <2>7 DEF b
<1> HIDE DEF T
<1>3. n - m \in T
  <2> DEFINE z == n - m
  <2>1. z \in Nat /\ 0 \in T /\ \A k \in 1 .. z : k - 1 \in T => k \in T
    BY <1>0, <1>1, <1>2
  <2> HIDE DEF z
  <2>2. \A k \in 0 .. z : k \in T
    BY <2>1, UpTo
  <2>3. z \in T
    BY <2>1, <2>2
  <2> QED
    BY <2>3 DEF z
<1>4. n - (n - m) = m
  BY <1>0
<1> QED
  BY <1>3, <1>4 DEF T

LEMMA UnquotedIs ==
  ASSUME CharAssumption, NEW d, Terminated(d), NEW v \in 1 .. Len(d) - 1
  PROVE  \E f : IsRest(f, d, v + 1) /\ Unquoted(d, v) = f[v + 1]
<1> DEFINE n == Len(d)
           P(h) == h = [i \in v + 1 .. n |->
                          IF i = n \/ d[i] \in {"\"", "\r", "\n"} THEN <<>>
                          ELSE IF d[i] # "\\" THEN <<d[i]>> \o h[i + 1]
                          ELSE IF d[i + 1] \in {"\r", "\n", NUL} THEN <<>>
                          ELSE <<Escaped(d[i + 1])>> \o h[i + 2]]
           c == CHOOSE h : P(h)
<1>0. n \in Nat /\ v + 1 \in 1 .. n
  BY TerminatedIs
<1>1. PICK f : IsRest(f, d, v + 1)
  BY <1>0, RestExists
<1>2. \A h : P(h) <=> h = [i \in v + 1 .. n |-> Rest(d, i, h)]
  BY DEF Rest
<1>3. P(f)
  <2>1. f = [i \in v + 1 .. n |-> Rest(d, i, f)]
    BY <1>1 DEF IsRest
  <2> QED
    BY <1>2, <2>1
<1>4. P(c)
  BY <1>3
<1>5. Unquoted(d, v) = c[v + 1]
  BY DEF Unquoted
<1> HIDE DEF P, c
<1>6. c = [i \in v + 1 .. n |-> Rest(d, i, c)]
  BY <1>2, <1>4
<1> DEFINE T == {k \in 0 .. n - (v + 1) : \A j \in n - k .. n : c[j] = f[j]}
<1>7. 0 \in T
  <2>1. \A j \in n - 0 .. n : j = n /\ j \in v + 1 .. n
    BY <1>0
  <2>2. c[n] = Rest(d, n, c) /\ f[n] = Rest(d, n, f)
    BY <1>0, <1>1, <1>6 DEF IsRest
  <2>3. c[n] = <<>> /\ f[n] = <<>>
    BY <2>2 DEF Rest
  <2> QED
    BY <1>0, <2>1, <2>3
<1>8. ASSUME NEW k \in 1 .. n - (v + 1), k - 1 \in T PROVE k \in T
  <2> DEFINE b == n - k
  <2>0. b \in v + 1 .. n /\ b \in 1 .. n /\ n - (k - 1) = b + 1
    BY <1>0
  <2>1. \A j \in b + 1 .. n : c[j] = f[j]
    BY <1>8, <2>0
  <2>2. c[b] = Rest(d, b, c) /\ f[b] = Rest(d, b, f)
    BY <1>1, <1>6, <2>0 DEF IsRest
  <2> HIDE DEF b
  <2>3. c[b] = f[b]
    BY <2>0, <2>1, <2>2, RestLocal
  <2>4. \A j \in b .. n : c[j] = f[j]
    BY <1>0, <2>0, <2>1, <2>3
  <2> QED
    BY <2>4 DEF b
<1> HIDE DEF T
<1>9. n - (v + 1) \in T /\ n - (n - (v + 1)) = v + 1
  <2> DEFINE z == n - (v + 1)
  <2>1. z \in Nat /\ 0 \in T /\ \A k \in 1 .. z : k - 1 \in T => k \in T
    BY <1>0, <1>7, <1>8
  <2> HIDE DEF z
  <2>2. \A k \in 0 .. z : k \in T
    BY <2>1, UpTo
  <2>3. z \in T
    BY <2>1, <2>2
  <2> QED
    BY <1>0, <2>3 DEF z
<1>10. c[v + 1] = f[v + 1]
  <2>1. \A j \in n - (n - (v + 1)) .. n : c[j] = f[j]
    BY <1>9 DEF T
  <2>2. v + 1 \in n - (n - (v + 1)) .. n
    BY <1>0, <1>9
  <2> QED
    BY <2>1, <2>2
<1> QED
  BY <1>1, <1>5, <1>10

(* It is shorter than the rest of its line, over which it is written.      *)
LEMMA UnquotedFits ==
  ASSUME CharAssumption, NEW d, Terminated(d), NEW v \in 1 .. Len(d),
         NEW e \in v + 1 .. Len(d), e = Len(d) \/ d[e] = "\n"
  PROVE  /\ Unquoted(d, v) \in Texts
         /\ Len(Unquoted(d, v)) \in Nat /\ Len(Unquoted(d, v)) <= e - (v + 1)
<1> DEFINE n == Len(d)
<1>0. /\ n \in Nat /\ d[n] = NUL /\ v \in 1 .. n - 1 /\ v \in Int /\ e \in Int
      /\ (\A j \in 1 .. n : d[j] \in Char)
  BY TerminatedIs
<1>1. PICK f : IsRest(f, d, v + 1) /\ Unquoted(d, v) = f[v + 1]
  BY <1>0, UnquotedIs
<1> DEFINE T == {k \in 0 .. e - (v + 1) : \A j \in 0 .. k : Len(f[e - j]) <= j}
<1>2. 0 \in T
  <2>1. f[e] = Rest(d, e, f)
    BY <1>1 DEF IsRest
  <2>2. f[e] = <<>>
    BY <2>1 DEF Rest
  <2>3. \A j \in 0 .. 0 : j = 0 /\ e - j = e
    BY <1>0
  <2>4. Len(<<>>) <= 0
    OBVIOUS
  <2> QED
    BY <1>0, <2>2, <2>3, <2>4
<1>3. ASSUME NEW k \in 1 .. e - (v + 1), k - 1 \in T PROVE k \in T
  <2> DEFINE b == e - k
  <2>0. b \in v + 1 .. n /\ b \in 1 .. n /\ b # n /\ b + 1 = e - (k - 1) /\ k \in Int /\ b < e
    BY <1>0
  <2>1. f[b] = Rest(d, b, f)
    BY <1>1, <2>0 DEF IsRest
  <2>2. \A j \in b + 1 .. n : f[j] \in Texts
    BY <1>0, <1>1, <2>0 DEF IsRest
  <2>3. \A j \in 0 .. k - 1 : Len(f[e - j]) <= j
    BY <1>3
  <2>4. ASSUME NEW x \in Char, NEW t \in Texts PROVE Len(<<x>> \o t) = 1 + Len(t) /\ Len(t) \in Nat
    <3>1. <<x>> \in Seq(Char) /\ Len(<<x>>) = 1
      BY OneElement
    <3> QED
      BY <3>1, ConcatProperties, LenProperties DEF Texts
  <2>5. Len(<<d[b]>> \o f[b + 1]) <= k
    <3>1. e - (k - 1) = b + 1 /\ k - 1 \in 0 .. k - 1 /\ b + 1 \in b + 1 .. n
      BY <1>0, <2>0
    <3>2. Len(f[b + 1]) <= k - 1
      BY <2>3, <3>1
    <3>3. d[b] \in Char /\ f[b + 1] \in Texts
      BY <1>0, <2>0, <2>2, <3>1
    <3> HIDE DEF b
    <3> QED
      BY <2>0, <2>4, <3>2, <3>3
  <2>6. ASSUME d[b + 1] \notin {"\r", "\n", NUL}
        PROVE  Len(<<Escaped(d[b + 1])>> \o f[b + 2]) <= k
    <3>1. b + 1 # e
      BY <1>0, <2>6
    <3>2. e - (k - 2) = b + 2 /\ k - 2 \in 0 .. k - 1 /\ b + 2 \in b + 1 .. n /\ b + 1 \in 1 .. n
      BY <1>0, <2>0, <3>1
    <3>3. Len(f[b + 2]) <= k - 2
      BY <2>3, <3>2
    <3>4. d[b + 1] \in Char /\ f[b + 2] \in Texts
      BY <1>0, <2>2, <3>2
    <3>5. Escaped(d[b + 1]) \in Char
      BY <3>4 DEF Escaped, CharAssumption
    <3> HIDE DEF b
    <3> QED
      BY <2>0, <2>4, <3>3, <3>4, <3>5
  <2>7. Len(<<>>) = 0
    OBVIOUS
  <2>8. Len(f[b]) <= k
    <3> HIDE DEF b
    <3>1. Len(<<>>) <= k
      BY <2>7
    <3> QED
      BY <2>1, <2>5, <2>6, <3>1 DEF Rest
  <2>9. ASSUME NEW j \in 0 .. k PROVE Len(f[e - j]) <= j
    <3>1. CASE j = k
      BY <2>8, <3>1
    <3>2. CASE j # k
      <4>1. j \in 0 .. k - 1
        BY <3>2
      <4> QED
        BY <2>3, <4>1
    <3> QED
      BY <3>1, <3>2
  <2> QED
    BY <2>9
<1> HIDE DEF T
<1>4. e - (v + 1) \in T /\ e - (e - (v + 1)) = v + 1 /\ e - (v + 1) \in 0 .. e - (v + 1)
  <2> DEFINE z == e - (v + 1)
  <2>1. z \in Nat /\ 0 \in T /\ \A k \in 1 .. z : k - 1 \in T => k \in T
    BY <1>0, <1>2, <1>3
  <2> HIDE DEF z
  <2>2. \A k \in 0 .. z : k \in T
    BY <2>1, UpTo
  <2>3. z \in T /\ z \in 0 .. z
    BY <2>1, <2>2
  <2> QED
    BY <1>0, <2>3 DEF z
<1>5. Len(f[v + 1]) <= e - (v + 1)
  BY <1>4 DEF T
<1>6. f[v + 1] \in Texts
  BY <1>0, <1>1 DEF IsRest
<1> QED
  BY <1>1, <1>5, <1>6, LenProperties DEF Texts

-----------------------------------------------------------------------------
(* What a turn of the loop leaves of the text.  A key is cut off where its *)
(* blanks begin, and '=' and the blanks after it are gone.                 *)
LEMMA KeySplitIs ==
  ASSUME CharAssumption, Inside, HasEquals
  PROVE  \E b \in 1 .. Equals :
           /\ \A k \in b .. Equals - 1 : data[k] \in Blank
           /\ b = 1 \/ data[b - 1] \notin Blank
           /\ KeySplit \in Texts /\ Len(KeySplit) = End
           /\ \A k \in 1 .. End :
                KeySplit[k] = IF k \in b .. ValueAt - 1 THEN NUL ELSE data[k]
<1> DEFINE n == Len(data)
           e == Equals
           v == ValueAt
           t == Trimmed(data, e - 1)
<1>0. n \in Nat /\ data \in Texts /\ e \in 1 .. n - 1 /\ v \in e + 1 .. n /\ End = n
  BY TerminatedIs, ValueAtIs DEF Inside, End
<1> HIDE DEF n, e, v
<1>1. PICK b \in 1 .. e - 1 + 1 :
         /\ t = Cleared(data, b, e - 1 + 1)
         /\ \A k \in b .. e - 1 : data[k] \in Blank
         /\ b = 1 \/ data[b - 1] \notin Blank
  <2>1. e - 1 \in 0 .. Len(data)
    BY <1>0 DEF n
  <2> QED
    BY <1>0, <2>1, TrimmedIs
<1>2. e - 1 + 1 = e /\ b \in 1 .. Len(data) + 1 /\ e \in b .. Len(data) + 1
  BY <1>0, <1>1 DEF n
<1>3. /\ t \in Texts /\ Len(t) = n
      /\ \A k \in 1 .. n : t[k] = IF k \in b .. e - 1 THEN NUL ELSE data[k]
  BY <1>0, <1>1, <1>2, ClearedIs DEF n
<1> HIDE DEF t
<1>4. e \in 1 .. Len(t) + 1 /\ v \in e .. Len(t) + 1
  BY <1>0, <1>3
<1>5. /\ Cleared(t, e, v) \in Texts /\ Len(Cleared(t, e, v)) = n
      /\ \A k \in 1 .. n : Cleared(t, e, v)[k] = IF k \in e .. v - 1 THEN NUL ELSE t[k]
  BY <1>3, <1>4, ClearedIs
<1>6. KeySplit = Cleared(t, e, v)
  BY DEF KeySplit, t, e, v
<1>7. ASSUME NEW k \in 1 .. n
      PROVE  KeySplit[k] = IF k \in b .. v - 1 THEN NUL ELSE data[k]
  <2>1. k \in b .. v - 1 <=> k \in b .. e - 1 \/ k \in e .. v - 1
    BY <1>0, <1>1
  <2> QED
    BY <1>3, <1>5, <1>6, <2>1
<1> QED
  BY <1>0, <1>1, <1>2, <1>5, <1>6, <1>7 DEF e, v

LEMMA WrittenIs ==
  ASSUME NEW d \in Texts, NEW v \in 1 .. Len(d), NEW text \in Texts, v + Len(text) <= Len(d)
  PROVE  /\ Written(d, v, text) \in Texts /\ Len(Written(d, v, text)) = Len(d)
         /\ \A k \in 1 .. Len(d) :
              Written(d, v, text)[k] =
                IF k \in v .. v + Len(text) - 1 THEN text[k - v + 1] ELSE d[k]
<1> DEFINE n == Len(d)
           m == Len(text)
           u == SubSeq(d, 1, v - 1)
           w == SubSeq(d, v + m, n)
<1>0. n \in Nat /\ m \in Nat /\ v \in Int /\ \A k \in 1 .. n : d[k] \in Char
  BY LenProperties, ElementOfSeq DEF Texts
<1>1. u \in Texts /\ Len(u) = v - 1 /\ \A k \in 1 .. v - 1 : u[k] = d[k]
  <2>1. \A k \in 1 .. v - 1 : d[k] \in Char
    BY <1>0
  <2> QED
    BY <1>0, <2>1, SubSeqProperties DEF Texts
<1>3. /\ w \in Texts /\ Len(w) = n - (v + m) + 1
      /\ \A k \in 1 .. n - (v + m) + 1 : w[k] = d[v + m + k - 1]
  <2>1. (\A k \in v + m .. n : d[k] \in Char) /\ v + m \in Int /\ v + m <= n
    BY <1>0
  <2> HIDE DEF m, n
  <2> QED
    BY <1>0, <2>1, SubSeqProperties DEF Texts
<1>4. Written(d, v, text) = (u \o text) \o w
  BY DEF Written
<1> HIDE DEF u, w, m, n
<1> DEFINE ut == u \o text
<1>5. /\ ut \in Texts /\ Len(ut) = v + m - 1
      /\ \A k \in 1 .. v + m - 1 : ut[k] = IF k <= v - 1 THEN u[k] ELSE text[k - (v - 1)]
  <2>1. /\ ut \in Texts /\ Len(ut) = Len(u) + Len(text)
        /\ \A k \in 1 .. Len(u) + Len(text) :
             ut[k] = IF k <= Len(u) THEN u[k] ELSE text[k - Len(u)]
    BY <1>1, ConcatProperties DEF Texts
  <2>2. Len(u) + Len(text) = v + m - 1
    BY <1>0, <1>1 DEF m
  <2> QED
    BY <1>1, <2>1, <2>2
<1> HIDE DEF ut
<1> DEFINE r == ut \o w
<1>6. /\ r \in Texts /\ Len(r) = n
      /\ \A k \in 1 .. n : r[k] = IF k <= v + m - 1 THEN ut[k] ELSE w[k - (v + m - 1)]
  <2>1. /\ r \in Texts /\ Len(r) = Len(ut) + Len(w)
        /\ \A k \in 1 .. Len(ut) + Len(w) :
             r[k] = IF k <= Len(ut) THEN ut[k] ELSE w[k - Len(ut)]
    <3>1. ut \in Seq(Char) /\ w \in Seq(Char)
      BY <1>3, <1>5 DEF Texts
    <3> QED
      BY <3>1, ConcatProperties DEF Texts, r
  <2>2. Len(ut) + Len(w) = n
    BY <1>0, <1>3, <1>5
  <2> QED
    BY <1>5, <2>1, <2>2
<1>7. Written(d, v, text) = r
  BY <1>4 DEF ut
<1> HIDE DEF r
<1>8. ASSUME NEW k \in 1 .. n
      PROVE  r[k] = IF k \in v .. v + m - 1 THEN text[k - v + 1] ELSE d[k]
  <2>1. CASE k <= v - 1
    <3>1. k \in 1 .. v - 1 /\ k \in 1 .. v + m - 1 /\ k <= v + m - 1 /\ k \notin v .. v + m - 1
      BY <1>0, <2>1
    <3> QED
      BY <1>1, <1>5, <1>6, <2>1, <3>1
  <2>2. CASE k \in v .. v + m - 1
    <3>1. k \in 1 .. v + m - 1 /\ ~(k <= v - 1) /\ k <= v + m - 1 /\ k - (v - 1) = k - v + 1
      BY <1>0, <2>2
    <3> QED
      BY <1>5, <1>6, <2>2, <3>1
  <2>3. CASE k >= v + m
    <3>1. ~(k <= v + m - 1) /\ k - (v + m - 1) \in 1 .. n - (v + m) + 1
          /\ v + m + (k - (v + m - 1)) - 1 = k /\ k \notin v .. v + m - 1
      BY <1>0, <2>3
    <3>2. r[k] = w[k - (v + m - 1)]
      BY <1>6, <3>1
    <3> QED
      BY <1>3, <3>1, <3>2
  <2>4. k <= v - 1 \/ k \in v .. v + m - 1 \/ k >= v + m
    BY <1>0
  <2> QED
    BY <2>1, <2>2, <2>3, <2>4
<1> QED
  BY <1>6, <1>7, <1>8 DEF n, m

(* The rest of a line is discarded.                                        *)
LEMMA DiscardIs ==
  ASSUME CharAssumption, Inside, NEW i \in at .. LineEnd(data, at)
  PROVE  /\ LineEnd(data, at) \in at .. End
         /\ Cleared(data, i, LineEnd(data, at)) \in Texts
         /\ Len(Cleared(data, i, LineEnd(data, at))) = End
         /\ \A k \in 1 .. End :
              Cleared(data, i, LineEnd(data, at))[k] =
                IF k \in i .. LineEnd(data, at) - 1 THEN NUL ELSE data[k]
<1> DEFINE e == LineEnd(data, at)
<1>0. /\ Len(data) \in Nat /\ data \in Texts /\ End = Len(data) /\ at \in 1 .. Len(data)
      /\ e \in at .. Len(data)
  BY TerminatedIs, LineEndIs DEF Inside, End
<1> HIDE DEF e
<1>1. i \in at .. e
  BY DEF e
<1>2. i \in 1 .. Len(data) + 1 /\ e \in i .. Len(data) + 1
  BY <1>0, <1>1
<1> QED
  BY <1>0, <1>2, ClearedIs DEF e

(* The places of a line with a key and a value are in order.               *)
LEMMA ValueBeforeEnd ==
  ASSUME Inside, HasEquals
  PROVE  /\ ValueAt \in at + 1 .. LineEnd(data, at)
         /\ \A k \in at .. ValueAt - 1 : data[k] # "\n"
         /\ data[ValueAt] \notin {"\n", NUL} => ValueAt < LineEnd(data, at)
<1> DEFINE e == Equals
           v == ValueAt
           n == End
           l == LineEnd(data, at)
<1>0. n \in Nat /\ data[n] = NUL /\ at \in 1 .. n
  BY TerminatedIs DEF Inside, End
<1>1. /\ e \in at .. n - 1 /\ data[e] = "="
      /\ \A k \in at .. e - 1 : data[k] \notin {"=", "\n", NUL}
      /\ v \in e + 1 .. n
      /\ \A k \in e + 1 .. v - 1 : data[k] \in Blank
  BY ValueAtIs
<1>2. l \in at .. n /\ (l = n \/ data[l] = "\n")
  BY LineEndIs DEF Inside, End
<1> HIDE DEF e, v, n, l
<1>3. ASSUME NEW k \in at .. v - 1 PROVE data[k] # "\n"
  <2>1. k \in at .. e - 1 \/ k = e \/ k \in e + 1 .. v - 1
    BY <1>0, <1>1
  <2>2. data[k] \notin {"=", "\n", NUL} \/ data[k] = "=" \/ data[k] \in Blank
    BY <1>1, <2>1
  <2> QED
    BY <2>2 DEF Blank
<1>4. v <= l
  BY <1>0, <1>1, <1>2, <1>3
<1> QED
  BY <1>0, <1>1, <1>2, <1>3, <1>4 DEF v, l, n

(* A quoted value is written where it stands, without its quotes.          *)
LEMMA QuotedTurn ==
  ASSUME CharAssumption, Inside, QuotedValue
  PROVE  LET text == Unquoted(data, ValueAt)
             stop == LineEnd(data, at)
         IN /\ at' = stop /\ HasEquals
            /\ text \in Texts /\ Len(text) \in Nat \ {0} /\ ValueAt + Len(text) <= stop
            /\ data' \in Texts /\ Len(data') = End
            /\ \E b \in 1 .. Equals :
                 /\ \A k \in b .. Equals - 1 : data[k] \in Blank
                 /\ b = 1 \/ data[b - 1] \notin Blank
                 /\ \A k \in 1 .. End :
                      data'[k] = IF k \in b .. ValueAt - 1 THEN NUL
                                 ELSE IF k \in ValueAt .. ValueAt + Len(text) - 1
                                   THEN text[k - ValueAt + 1]
                                 ELSE IF k \in ValueAt + Len(text) .. stop - 1 THEN NUL
                                 ELSE data[k]
<1> DEFINE v == ValueAt
           e == LineEnd(data, at)
           n == End
           t == Unquoted(data, v)
           m == Len(t)
           x == Written(KeySplit, v, t)
<1>a. data[v] = "\""
  BY DEF QuotedValue
<1>0. /\ n \in Nat /\ at \in 1 .. n /\ HasEquals /\ t # <<>> /\ at' = e
      /\ Terminated(data) /\ n = Len(data)
  BY TerminatedIs DEF Inside, End, QuotedValue
<1>1. v \in at + 1 .. e /\ v < e
  <2>1. data[v] \notin {"\n", NUL}
    BY <1>a DEF NUL
  <2> HIDE DEF v, e
  <2>2. v \in at + 1 .. e /\ (data[v] \notin {"\n", NUL} => v < e)
    BY <1>0, ValueBeforeEnd DEF v, e
  <2> QED
    BY <2>1, <2>2
<1>2. e \in at .. n /\ (e = n \/ data[e] = "\n")
  BY <1>0, LineEndIs
<1> HIDE DEF e, v, n
<1>3. t \in Texts /\ m \in Nat /\ m <= e - (v + 1)
  <2>1. v \in 1 .. Len(data) /\ e \in v + 1 .. Len(data) /\ (e = Len(data) \/ data[e] = "\n")
    BY <1>0, <1>1, <1>2
  <2> QED
    BY <1>0, <2>1, UnquotedFits
<1>4. m # 0
  BY <1>0, <1>3, EmptySeq DEF Texts
<1>5. PICK b \in 1 .. Equals :
         /\ \A k \in b .. Equals - 1 : data[k] \in Blank
         /\ b = 1 \/ data[b - 1] \notin Blank
         /\ KeySplit \in Texts /\ Len(KeySplit) = n
         /\ \A k \in 1 .. n : KeySplit[k] = IF k \in b .. v - 1 THEN NUL ELSE data[k]
  BY <1>0, KeySplitIs DEF n, v
<1> HIDE DEF t
<1>6. v \in 1 .. n /\ v + m <= n /\ v + m <= e
  BY <1>0, <1>1, <1>2, <1>3
<1>7. /\ x \in Texts /\ Len(x) = n
      /\ \A k \in 1 .. n : x[k] = IF k \in v .. v + m - 1 THEN t[k - v + 1] ELSE KeySplit[k]
  BY <1>3, <1>5, <1>6, WrittenIs
<1>8. data' = Cleared(x, v + m, e)
  BY DEF QuotedValue, x, v, m, t, e
<1> HIDE DEF x, m
<1>9. v + m \in 1 .. Len(x) + 1 /\ e \in v + m .. Len(x) + 1
  BY <1>0, <1>1, <1>2, <1>3, <1>6, <1>7
<1>10. /\ data' \in Texts /\ Len(data') = n
       /\ \A k \in 1 .. n : data'[k] = IF k \in v + m .. e - 1 THEN NUL ELSE x[k]
  BY <1>7, <1>8, <1>9, ClearedIs
<1>11. ASSUME NEW k \in 1 .. n
       PROVE  data'[k] = IF k \in b .. v - 1 THEN NUL
                         ELSE IF k \in v .. v + m - 1 THEN t[k - v + 1]
                         ELSE IF k \in v + m .. e - 1 THEN NUL
                         ELSE data[k]
  <2>1. v \in Int /\ m \in Nat /\ e \in Int /\ k \in Int
    BY <1>1, <1>2, <1>3
  <2>2. CASE k \in b .. v - 1
    <3>1. k \notin v .. v + m - 1 /\ k \notin v + m .. e - 1
      BY <2>1, <2>2
    <3> QED
      BY <1>5, <1>7, <1>10, <2>2, <3>1
  <2>3. CASE k \in v .. v + m - 1
    <3>1. k \notin b .. v - 1 /\ k \notin v + m .. e - 1
      BY <2>1, <2>3
    <3> QED
      BY <1>7, <1>10, <2>3, <3>1
  <2>4. CASE k \in v + m .. e - 1
    <3>1. k \notin b .. v - 1 /\ k \notin v .. v + m - 1
      BY <2>1, <2>4
    <3> QED
      BY <1>10, <2>4, <3>1
  <2> QED
    BY <1>5, <1>7, <1>10, <2>2, <2>3, <2>4
<1> HIDE DEF n
<1>12. \A k \in 1 .. n :
         data'[k] = IF k \in b .. v - 1 THEN NUL
                    ELSE IF k \in v .. v + m - 1 THEN t[k - v + 1]
                    ELSE IF k \in v + m .. e - 1 THEN NUL
                    ELSE data[k]
  BY <1>11
<1>13. \E c \in 1 .. Equals :
         /\ \A k \in c .. Equals - 1 : data[k] \in Blank
         /\ c = 1 \/ data[c - 1] \notin Blank
         /\ \A k \in 1 .. n :
              data'[k] = IF k \in c .. v - 1 THEN NUL
                         ELSE IF k \in v .. v + m - 1 THEN t[k - v + 1]
                         ELSE IF k \in v + m .. e - 1 THEN NUL
                         ELSE data[k]
  BY <1>5, <1>12
<1>14. m \in Nat \ {0} /\ t \in Texts /\ v + m <= e
  BY <1>3, <1>4, <1>6 DEF m
<1> QED
  BY <1>0, <1>10, <1>13, <1>14 DEF v, e, t, m, n

(* A plain value ends before the blanks at the end of its line.            *)
LEMMA PlainTurn ==
  ASSUME CharAssumption, Inside, PlainValue
  PROVE  /\ HasEquals /\ at' \in ValueAt + 1 .. End
         /\ data[at'] \in {"\n", NUL}
         /\ \A k \in ValueAt .. at' - 1 : data[k] \notin {"\n", NUL}
         /\ data' \in Texts /\ Len(data') = End
         /\ \E b \in 1 .. Equals : \E c \in ValueAt + 1 .. at' :
              /\ \A k \in b .. Equals - 1 : data[k] \in Blank
              /\ b = 1 \/ data[b - 1] \notin Blank
              /\ \A k \in c .. at' - 1 : data[k] \in Blank
              /\ data[c - 1] \notin Blank
              /\ \A k \in 1 .. End :
                   data'[k] = IF k \in b .. ValueAt - 1 \/ k \in c .. at' - 1 THEN NUL
                              ELSE data[k]
<1> DEFINE v == ValueAt
           u == Upto(data, v, {"\n"})
           n == End
           x == KeySplit
<1>0. /\ n \in Nat /\ at \in 1 .. n /\ HasEquals /\ data[v] \notin {"\n", NUL}
      /\ at' = u /\ data' = Trimmed(x, at' - 1)
      /\ Terminated(data) /\ n = Len(data)
  BY TerminatedIs DEF Inside, End, PlainValue
<1>1. v \in at + 1 .. n /\ data[v] \notin Blank
  BY <1>0, ValueAtIs
<1> HIDE DEF v, n
<1>2. /\ u \in v .. n /\ data[u] \in {"\n"} \union {NUL}
      /\ \A k \in v .. u - 1 : data[k] \notin {"\n"} \union {NUL}
  <2>1. v \in 1 .. Len(data)
    BY <1>0, <1>1
  <2> QED
    BY <1>0, <2>1, UptoIs
<1> HIDE DEF u
<1>3. u \in v + 1 .. n
  BY <1>0, <1>1, <1>2
<1>4. PICK b \in 1 .. Equals :
         /\ \A k \in b .. Equals - 1 : data[k] \in Blank
         /\ b = 1 \/ data[b - 1] \notin Blank
         /\ x \in Texts /\ Len(x) = n
         /\ \A k \in 1 .. n : x[k] = IF k \in b .. v - 1 THEN NUL ELSE data[k]
  BY <1>0, KeySplitIs DEF n, v, x
<1> HIDE DEF x
<1>5. u - 1 \in 0 .. Len(x) /\ u - 1 + 1 = u
  BY <1>0, <1>1, <1>3, <1>4
<1>6. PICK c \in 1 .. u :
         /\ data' = Cleared(x, c, u)
         /\ \A k \in c .. u - 1 : x[k] \in Blank
         /\ c = 1 \/ x[c - 1] \notin Blank
  <2>1. \E c \in 1 .. u - 1 + 1 :
           /\ Trimmed(x, u - 1) = Cleared(x, c, u - 1 + 1)
           /\ \A k \in c .. u - 1 : x[k] \in Blank
           /\ c = 1 \/ x[c - 1] \notin Blank
    BY <1>4, <1>5, TrimmedIs
  <2> QED
    BY <1>0, <1>5, <2>1
<1>7. c \in v + 1 .. u
  <2>1. v \in 1 .. n /\ v \notin b .. v - 1
    BY <1>0, <1>1
  <2>2. x[v] = data[v]
    BY <1>4, <2>1
  <2>3. ~(v \in c .. u - 1)
    BY <1>1, <1>6, <2>2
  <2> QED
    BY <1>1, <1>3, <1>6, <2>3
<1>8. c \in 1 .. Len(x) + 1 /\ u \in c .. Len(x) + 1
  BY <1>0, <1>1, <1>3, <1>4, <1>6
<1>9. /\ data' \in Texts /\ Len(data') = n
      /\ \A k \in 1 .. n : data'[k] = IF k \in c .. u - 1 THEN NUL ELSE x[k]
  BY <1>4, <1>6, <1>8, ClearedIs
<1>10. ASSUME NEW k \in v .. u PROVE x[k] = data[k]
  <2>1. k \in 1 .. n /\ k \notin b .. v - 1
    BY <1>0, <1>1, <1>3
  <2> QED
    BY <1>4, <2>1
<1>11. /\ \A k \in c .. u - 1 : data[k] \in Blank
       /\ data[c - 1] \notin Blank
  <2>1. \A k \in c .. u - 1 : k \in v .. u
    BY <1>0, <1>1, <1>3, <1>7
  <2>2. c - 1 \in v .. u /\ c # 1
    BY <1>0, <1>1, <1>3, <1>7
  <2> QED
    BY <1>6, <1>10, <2>1, <2>2
<1>12. \A k \in 1 .. n :
         data'[k] = IF k \in b .. v - 1 \/ k \in c .. u - 1 THEN NUL ELSE data[k]
  BY <1>4, <1>9
<1>13. /\ HasEquals /\ u \in v + 1 .. n /\ data[u] \in {"\n", NUL}
       /\ \A k \in v .. u - 1 : data[k] \notin {"\n", NUL}
  BY <1>0, <1>2, <1>3
<1>14. \E d \in 1 .. Equals : \E f \in v + 1 .. u :
         /\ \A k \in d .. Equals - 1 : data[k] \in Blank
         /\ d = 1 \/ data[d - 1] \notin Blank
         /\ \A k \in f .. u - 1 : data[k] \in Blank
         /\ data[f - 1] \notin Blank
         /\ \A k \in 1 .. n :
              data'[k] = IF k \in d .. v - 1 \/ k \in f .. u - 1 THEN NUL ELSE data[k]
  BY <1>4, <1>7, <1>11, <1>12
<1>15. at' = u
  BY <1>0
<1> QED
  BY <1>9, <1>13, <1>14, <1>15 DEF v, n

(* Each turn leaves a text that ends where it did, and the reader in it,   *)
(* further on.                                                             *)
LEMMA TurnInside ==
  ASSUME CharAssumption, Inside, Split
  PROVE  Inside' /\ Len(data') = Len(data) /\ at' > at
<1> DEFINE n == Len(data)
<1>0. /\ n \in Nat \ {0} /\ data[n] = NUL /\ data \in Seq(Char) /\ NUL \in Char
      /\ End = n /\ at \in 1 .. n - 1 /\ Terminated(data) /\ at \in 1 .. Len(data)
  <2>1. /\ n \in Nat \ {0} /\ data[n] = NUL /\ data \in Seq(Char)
        /\ at \in 1 .. n /\ Terminated(data)
    BY TerminatedIs DEF Inside, End, Texts
  <2>2. at < n
    BY DEF Split, End
  <2> QED
    BY <2>1, <2>2 DEF CharAssumption, End
<1>1. SUFFICES data' \in Texts /\ Len(data') = n /\ data'[n] = NUL /\ at' \in at + 1 .. n
  BY <1>0 DEF Inside, Terminated, End
<1>2. ASSUME NEW k \in 1 .. n, data' = [data EXCEPT ![k] = NUL]
      PROVE  data' \in Texts /\ Len(data') = n /\ data'[n] = NUL
  <2>1. /\ [data EXCEPT ![k] = NUL] \in Seq(Char)
        /\ Len([data EXCEPT ![k] = NUL]) = n
        /\ \A j \in 1 .. n : [data EXCEPT ![k] = NUL][j] = IF j = k THEN NUL ELSE data[j]
    BY <1>0, ExceptSeq
  <2>2. n \in 1 .. n
    BY <1>0
  <2> QED
    BY <1>0, <1>2, <2>1, <2>2 DEF Texts
<1>3. CASE SkipBlank
  <2>1. data' = [data EXCEPT ![at] = NUL] /\ at' = at + 1 /\ at \in 1 .. n
    BY <1>0, <1>3 DEF SkipBlank
  <2>2. data' \in Texts /\ Len(data') = n /\ data'[n] = NUL
    BY <1>2, <2>1
  <2>3. at + 1 \in at + 1 .. n
    BY <1>0
  <2> QED
    BY <2>1, <2>2, <2>3
<1>4. CASE SplitSection
  <2>1. /\ at' = Upto(data, at, {"]", "\n"}) /\ data' = [data EXCEPT ![at'] = NUL]
        /\ data[at] = "["
    BY <1>4 DEF SplitSection
  <2>2. at' \in at .. n /\ data[at'] \in {"]", "\n"} \union {NUL}
    BY <1>0, <2>1, UptoIs
  <2>3. at' # at
    BY <2>1, <2>2 DEF NUL
  <2>4. at' \in 1 .. n /\ at' \in at + 1 .. n
    BY <1>0, <2>2, <2>3
  <2> QED
    BY <1>2, <2>1, <2>4
<1>5. ASSUME at' = LineEnd(data, at), data' = Discarded(data, at), data[at] # "\n"
      PROVE  data' \in Texts /\ Len(data') = n /\ data'[n] = NUL /\ at' \in at + 1 .. n
  <2>1. data' = Cleared(data, at, LineEnd(data, at))
    BY <1>5 DEF Discarded
  <2>2. at' \in at .. n /\ (at' = n \/ data[at'] = "\n")
    BY <1>0, <1>5, LineEndIs
  <2>3. at' \in at + 1 .. n
    BY <1>0, <1>5, <2>2
  <2>4. at \in at .. LineEnd(data, at)
    BY <1>0, <1>5, <2>2
  <2>5. /\ data' \in Texts /\ Len(data') = n
        /\ \A k \in 1 .. n : data'[k] = IF k \in at .. at' - 1 THEN NUL ELSE data[k]
    BY <1>0, <1>5, <2>1, <2>4, DiscardIs
  <2>6. data'[n] = NUL
    BY <1>0, <2>5
  <2> QED
    BY <2>3, <2>5, <2>6
<1>6. CASE SkipComment
  BY <1>5, <1>6 DEF SkipComment
<1>7. CASE NoEquals
  BY <1>5, <1>7 DEF NoEquals, DiscardLine, AtLine
<1>8. CASE NoValue
  BY <1>5, <1>8 DEF NoValue, DiscardLine, AtLine, HasEquals
<1>9. CASE QuotedValue
  <2> DEFINE v == ValueAt
             m == Len(Unquoted(data, v))
             e == LineEnd(data, at)
  <2>1. at' = e /\ m \in Nat \ {0} /\ v + m <= e /\ data' \in Texts /\ Len(data') = n
        /\ HasEquals
    BY <1>0, <1>9, QuotedTurn
  <2>2. e \in at .. n /\ v \in at + 1 .. e
    BY <1>0, <2>1, LineEndIs, ValueBeforeEnd
  <2>3. data'[n] = NUL
    <3> HIDE DEF v, m, e
    <3>1. \E b \in 1 .. Equals :
            \A k \in 1 .. n :
              data'[k] = IF k \in b .. v - 1 THEN NUL
                         ELSE IF k \in v .. v + m - 1 THEN Unquoted(data, v)[k - v + 1]
                         ELSE IF k \in v + m .. e - 1 THEN NUL
                         ELSE data[k]
      BY <1>0, <1>9, QuotedTurn DEF v, m, e
    <3>2. n \notin v .. v + m - 1 /\ n \in 1 .. n
      BY <1>0, <2>1, <2>2
    <3> QED
      BY <1>0, <3>1, <3>2
  <2> QED
    BY <1>0, <2>1, <2>2, <2>3
<1>10. CASE PlainValue
  <2>1. /\ HasEquals /\ at' \in ValueAt + 1 .. n /\ data' \in Texts /\ Len(data') = n
        /\ \E b, c : \A k \in 1 .. n :
             data'[k] = IF k \in b .. ValueAt - 1 \/ k \in c .. at' - 1 THEN NUL ELSE data[k]
    BY <1>0, <1>10, PlainTurn
  <2>2. ValueAt \in at + 1 .. n
    BY <1>0, <2>1, ValueAtIs
  <2>a. n \in 1 .. n
    BY <1>0
  <2>b. \A k \in 1 .. n : data'[k] = NUL \/ data'[k] = data[k]
    BY <2>1
  <2>3. data'[n] = NUL
    BY <1>0, <2>a, <2>b
  <2>4. at' \in at + 1 .. n
    BY <1>0, <2>1, <2>2
  <2> QED
    BY <2>1, <2>3, <2>4
<1> QED
  BY <1>3, <1>4, <1>6, <1>7, <1>8, <1>9, <1>10 DEF Split

-----------------------------------------------------------------------------
(* Pieces of a text.  A piece of a text is one,                            *)
LEMMA PieceIs ==
  ASSUME NEW t \in Texts, NEW a \in Int, NEW b \in Int, 1 <= a, b <= Len(t)
  PROVE  /\ SubSeq(t, a, b) \in Texts
         /\ Len(SubSeq(t, a, b)) = IF a <= b THEN b - a + 1 ELSE 0
         /\ \A i \in 1 .. b - a + 1 : SubSeq(t, a, b)[i] = t[a + i - 1]
<1>1. \A i \in a .. b : t[i] \in Char
  <2>1. Len(t) \in Nat /\ \A i \in 1 .. Len(t) : t[i] \in Char
    BY LenProperties, ElementOfSeq DEF Texts
  <2> QED
    BY <2>1
<1> QED
  BY <1>1, SubSeqProperties DEF Texts

(* a piece of it one of the text,                                          *)
LEMMA PieceOfPiece ==
  ASSUME NEW t \in Texts, NEW a \in Int, NEW b \in Int, 1 <= a, a <= b + 1, b <= Len(t),
         NEW i \in Int, NEW j \in Int, 1 <= i, i <= j + 1, j <= b - a + 1
  PROVE  SubSeq(SubSeq(t, a, b), i, j) = SubSeq(t, a + i - 1, a + j - 1)
<1> DEFINE s == SubSeq(t, a, b)
           u == SubSeq(s, i, j)
           v == SubSeq(t, a + i - 1, a + j - 1)
<1>0. Len(t) \in Nat
  BY LenProperties DEF Texts
<1>1. /\ s \in Texts /\ Len(s) = b - a + 1
      /\ \A k \in 1 .. b - a + 1 : s[k] = t[a + k - 1]
  BY PieceIs
<1> HIDE DEF s
<1>2. /\ u \in Texts /\ Len(u) = j - i + 1
      /\ \A k \in 1 .. j - i + 1 : u[k] = s[i + k - 1]
  <2>1. j <= Len(s)
    BY <1>1
  <2>2. /\ u \in Texts /\ Len(u) = IF i <= j THEN j - i + 1 ELSE 0
        /\ \A k \in 1 .. j - i + 1 : u[k] = s[i + k - 1]
    BY <1>1, <2>1, PieceIs
  <2>3. (IF i <= j THEN j - i + 1 ELSE 0) = j - i + 1
    OBVIOUS
  <2> QED
    BY <2>2, <2>3
<1>3. /\ v \in Texts /\ Len(v) = j - i + 1
      /\ \A k \in 1 .. j - i + 1 : v[k] = t[a + i - 1 + k - 1]
  <2> DEFINE x == a + i - 1
             y == a + j - 1
  <2>1. x \in Int /\ y \in Int /\ 1 <= x /\ y <= Len(t) /\ y - x + 1 = j - i + 1
        /\ (IF x <= y THEN y - x + 1 ELSE 0) = j - i + 1
    BY <1>0
  <2> HIDE DEF x, y
  <2>2. /\ SubSeq(t, x, y) \in Texts /\ Len(SubSeq(t, x, y)) = j - i + 1
        /\ \A k \in 1 .. j - i + 1 : SubSeq(t, x, y)[k] = t[x + k - 1]
    BY <2>1, PieceIs
  <2> QED
    BY <2>2 DEF x, y
<1> HIDE DEF u, v
<1>4. ASSUME NEW k \in 1 .. Len(u) PROVE u[k] = v[k]
  <2>1. k \in 1 .. j - i + 1 /\ i + k - 1 \in 1 .. b - a + 1
        /\ a + (i + k - 1) - 1 = a + i - 1 + k - 1
    BY <1>2
  <2> QED
    BY <1>1, <1>2, <1>3, <2>1
<1>5. u = v
  BY <1>2, <1>3, <1>4, SeqEqual DEF Texts
<1> QED
  BY <1>5 DEF u, v, s

(* and texts with the same characters have the same pieces.                *)
LEMMA SamePiece ==
  ASSUME NEW t \in Texts, NEW u \in Texts, NEW a \in Int, NEW b \in Int, 1 <= a,
         b <= Len(t), b <= Len(u), \A k \in a .. b : t[k] = u[k]
  PROVE  SubSeq(t, a, b) = SubSeq(u, a, b)
<1> DEFINE x == SubSeq(t, a, b)
           y == SubSeq(u, a, b)
<1>1. /\ x \in Texts /\ y \in Texts /\ Len(x) = (IF a <= b THEN b - a + 1 ELSE 0) /\ Len(x) = Len(y)
      /\ \A i \in 1 .. b - a + 1 : x[i] = t[a + i - 1]
      /\ \A i \in 1 .. b - a + 1 : y[i] = u[a + i - 1]
  BY PieceIs
<1> HIDE DEF x, y
<1>2. ASSUME NEW i \in 1 .. Len(x) PROVE x[i] = y[i]
  <2>1. i \in 1 .. b - a + 1 /\ a + i - 1 \in a .. b
    BY <1>1
  <2> QED
    BY <1>1, <2>1
<1>3. x = y
  BY <1>1, <1>2, SeqEqual DEF Texts
<1> QED
  BY <1>3 DEF x, y

(* The splitting of a text grows with each of its characters.              *)
Extended(pieces, c, separator) ==
  IF c = separator THEN Append(pieces, <<>>)
  ELSE [pieces EXCEPT ![Len(pieces)] = Append(@, c)]

Pieces == {p \in Seq(Texts) : p # <<>>}

LEMMA ExtendedType ==
  ASSUME NEW p \in Pieces, NEW c \in Char, NEW separator
  PROVE  Extended(p, c, separator) \in Pieces
<1>1. p \in Seq(Texts) /\ Len(p) \in 1 .. Len(p) /\ <<>> \in Texts /\ Len(p) \in Nat
  <2>1. Len(p) \in Nat \ {0}
    BY EmptySeq DEF Pieces
  <2> QED
    BY <2>1, EmptySeq DEF Pieces, Texts
<1>2. Append(p, <<>>) \in Pieces
  BY <1>1, AppendProperties DEF Pieces
<1>3. p[Len(p)] \in Texts
  BY <1>1, ElementOfSeq
<1>4. Append(p[Len(p)], c) \in Texts
  BY <1>3, AppendProperties DEF Texts
<1>5. /\ [p EXCEPT ![Len(p)] = Append(p[Len(p)], c)] \in Seq(Texts)
      /\ Len([p EXCEPT ![Len(p)] = Append(p[Len(p)], c)]) = Len(p)
  BY <1>1, <1>4, ExceptSeq
<1>6. [p EXCEPT ![Len(p)] = Append(@, c)] \in Pieces
  <2> DEFINE q == [p EXCEPT ![Len(p)] = Append(p[Len(p)], c)]
  <2>1. q # <<>>
    <3> HIDE DEF q
    <3>1. q \in Seq(Texts) /\ Len(q) > 0
      BY <1>1, <1>5 DEF q
    <3> QED
      BY <3>1, EmptySeq
  <2> QED
    BY <1>5, <2>1 DEF Pieces
<1> QED
  BY <1>2, <1>6 DEF Extended

IsSplit(f, s, separator) ==
  /\ f \in [0 .. Len(s) -> Pieces]
  /\ f[0] = << <<>> >>
  /\ \A i \in 1 .. Len(s) : f[i] = Extended(f[i - 1], s[i], separator)

LEMMA NoPieces == << <<>> >> \in Pieces
<1>1. <<>> \in Texts
  BY EmptySeq DEF Texts
<1> DEFINE e == <<>>
<1> HIDE DEF e
<1>2. <<e>> \in Seq(Texts) /\ Len(<<e>>) = 1
  BY <1>1, OneElement DEF e
<1>3. <<e>> # <<>>
  OBVIOUS
<1> QED
  BY <1>2, <1>3 DEF e, Pieces

LEMMA SplitExists ==
  ASSUME NEW s \in Texts, NEW separator
  PROVE  \E f : IsSplit(f, s, separator)
<1> DEFINE n == Len(s)
           F == [p \in (1 .. n) \X Pieces |-> Extended(p[2], s[p[1]], separator)]
           e == << <<>> >>
<1>0. n \in Nat /\ (\A i \in 1 .. n : s[i] \in Char) /\ e \in Pieces
  BY LenProperties, ElementOfSeq, NoPieces DEF Texts
<1>1. F \in [(1 .. n) \X Pieces -> Pieces]
  BY <1>0, ExtendedType
<1>2. \A i \in 1 .. n : \A x \in Pieces : F[<<i, x>>] = Extended(x, s[i], separator)
  OBVIOUS
<1> HIDE DEF F, e
<1>3. PICK f : IsRun(f, e, F, n, Pieces)
  BY <1>0, <1>1, RunExists
<1>4. f \in [0 .. n -> Pieces] /\ f[0] = e
  BY <1>3 DEF IsRun
<1>5. ASSUME NEW i \in 1 .. n PROVE f[i] = Extended(f[i - 1], s[i], separator)
  <2>1. f[i - 1] \in Pieces
    BY <1>0, <1>4
  <2> QED
    BY <1>2, <1>3, <2>1 DEF IsRun
<1> QED
  BY <1>4, <1>5 DEF IsSplit, e

LEMMA SplitIs ==
  ASSUME NEW s \in Texts, NEW separator, NEW f, IsSplit(f, s, separator)
  PROVE  SplitAt(s, separator) = f[Len(s)]
<1> DEFINE n == Len(s)
           P(h) == h = [i \in 0 .. n |-> IF i = 0 THEN << <<>> >>
                                         ELSE Extended(h[i - 1], s[i], separator)]
           c == CHOOSE h : P(h)
<1>0. n \in Nat
  BY LenProperties DEF Texts
<1>1. SplitAt(s, separator) = c[n]
  BY DEF SplitAt, Extended
<1>2. P(f)
  <2> DEFINE h == [i \in 0 .. n |-> IF i = 0 THEN << <<>> >>
                                    ELSE Extended(f[i - 1], s[i], separator)]
  <2>1. ASSUME NEW i \in 0 .. n PROVE h[i] = f[i]
    <3>1. CASE i = 0
      BY <3>1 DEF IsSplit
    <3>2. CASE i # 0
      <4>1. i \in 1 .. n /\ h[i] = Extended(f[i - 1], s[i], separator)
        BY <1>0, <3>2
      <4> QED
        BY <4>1 DEF IsSplit
    <3> QED
      BY <3>1, <3>2
  <2>2. h = f
    BY <2>1 DEF IsSplit
  <2> QED
    BY <2>2
<1>3. P(c)
  BY <1>2
<1>4. c[0] = << <<>> >> /\ \A i \in 1 .. n : c[i] = Extended(c[i - 1], s[i], separator)
  <2> HIDE DEF c
  <2>1. 0 \in 0 .. n /\ c[0] = << <<>> >>
    BY <1>0, <1>3
  <2>2. ASSUME NEW i \in 1 .. n PROVE c[i] = Extended(c[i - 1], s[i], separator)
    <3>1. i \in 0 .. n /\ i # 0
      OBVIOUS
    <3> QED
      BY <1>3, <3>1
  <2> QED
    BY <2>1, <2>2
<1> HIDE DEF P, c
<1> DEFINE T == {i \in 0 .. n : c[i] = f[i]}
<1>5. 0 \in T
  BY <1>0, <1>4 DEF IsSplit
<1>6. ASSUME NEW i \in 1 .. n, i - 1 \in T PROVE i \in T
  <2>1. c[i - 1] = f[i - 1]
    BY <1>6
  <2> QED
    BY <1>4, <2>1 DEF IsSplit
<1> HIDE DEF T
<1>7. \A i \in 0 .. n : i \in T
  BY <1>0, <1>5, <1>6, UpTo
<1>8. c[n] = f[n]
  BY <1>0, <1>7 DEF T
<1> QED
  BY <1>1, <1>8

LEMMA SplitType ==
  ASSUME NEW s \in Texts, NEW separator
  PROVE  SplitAt(s, separator) \in Pieces
<1>1. PICK f : IsSplit(f, s, separator)
  BY SplitExists
<1>2. Len(s) \in Nat /\ SplitAt(s, separator) = f[Len(s)]
  BY <1>1, SplitIs, LenProperties DEF Texts
<1> QED
  BY <1>1, <1>2 DEF IsSplit

LEMMA SplitNothing ==
  ASSUME NEW separator
  PROVE  SplitAt(<<>>, separator) = << <<>> >>
<1>1. <<>> \in Texts /\ Len(<<>>) = 0
  BY EmptySeq DEF Texts
<1>2. PICK f : IsSplit(f, <<>>, separator)
  BY <1>1, SplitExists
<1>3. SplitAt(<<>>, separator) = f[Len(<<>>)]
  BY <1>1, <1>2, SplitIs
<1> QED
  BY <1>1, <1>2, <1>3 DEF IsSplit

(* Texts that begin with another text.                                     *)
LEMMA BeginningIs ==
  ASSUME NEW t \in Texts, NEW m \in 0 .. Len(t)
  PROVE  /\ SubSeq(t, 1, m) \in Texts /\ Len(SubSeq(t, 1, m)) = m
         /\ \A i \in 1 .. m : SubSeq(t, 1, m)[i] = t[i]
<1>0. Len(t) \in Nat
  BY LenProperties DEF Texts
<1>1. m \in Int /\ 1 \in Int /\ m <= Len(t) /\ m - 1 + 1 = m /\ (IF 1 <= m THEN m ELSE 0) = m
  BY <1>0
<1>2. /\ SubSeq(t, 1, m) \in Texts /\ Len(SubSeq(t, 1, m)) = IF 1 <= m THEN m - 1 + 1 ELSE 0
      /\ \A i \in 1 .. m - 1 + 1 : SubSeq(t, 1, m)[i] = t[1 + i - 1]
  BY <1>1, PieceIs
<1>3. \A i \in 1 .. m : 1 + i - 1 = i
  BY <1>1
<1> QED
  BY <1>1, <1>2, <1>3

LEMMA SplitNext ==
  ASSUME NEW t \in Texts, NEW m \in 1 .. Len(t), NEW separator
  PROVE  SplitAt(SubSeq(t, 1, m), separator)
           = Extended(SplitAt(SubSeq(t, 1, m - 1), separator), t[m], separator)
<1> DEFINE s == SubSeq(t, 1, m)
           r == SubSeq(t, 1, m - 1)
<1>0. Len(t) \in Nat /\ m \in 0 .. Len(t) /\ m - 1 \in 0 .. Len(t) /\ m \in 1 .. m
  BY LenProperties DEF Texts
<1>1. /\ s \in Texts /\ Len(s) = m /\ \A i \in 1 .. m : s[i] = t[i]
      /\ r \in Texts /\ Len(r) = m - 1 /\ \A i \in 1 .. m - 1 : r[i] = t[i]
  BY <1>0, BeginningIs
<1> HIDE DEF s, r
<1>2. PICK f : IsSplit(f, s, separator)
  BY <1>1, SplitExists
<1> DEFINE g == [i \in 0 .. m - 1 |-> f[i]]
<1>3. /\ f \in [0 .. m -> Pieces] /\ f[0] = << <<>> >>
      /\ \A i \in 1 .. m : f[i] = Extended(f[i - 1], t[i], separator)
  BY <1>1, <1>2 DEF IsSplit
<1>4. IsSplit(g, r, separator)
  <2>1. g \in [0 .. m - 1 -> Pieces] /\ g[0] = << <<>> >>
    BY <1>0, <1>3
  <2>2. ASSUME NEW i \in 1 .. m - 1 PROVE g[i] = Extended(g[i - 1], r[i], separator)
    <3>1. i \in 1 .. m /\ g[i] = f[i] /\ g[i - 1] = f[i - 1]
      BY <1>0
    <3> QED
      BY <1>1, <1>3, <3>1
  <2> HIDE DEF g
  <2> QED
    BY <1>1, <2>1, <2>2 DEF IsSplit
<1>5. g[m - 1] = f[m - 1]
  BY <1>0
<1> HIDE DEF g
<1>6. SplitAt(s, separator) = f[m] /\ SplitAt(r, separator) = f[m - 1]
  BY <1>1, <1>2, <1>4, <1>5, SplitIs
<1> QED
  BY <1>0, <1>3, <1>6 DEF s, r

-----------------------------------------------------------------------------
(* What the scans of a line find.                                          *)
LEMMA FindIs ==
  ASSUME NEW text, NEW i \in Int, NEW j \in Int, i <= j, NEW chars
  PROVE  LET k == Find(text, i, j, chars)
         IN /\ k \in i .. j /\ (k = j \/ text[k] \in chars)
            /\ \A m \in i .. k - 1 : text[m] \notin chars
<1> DEFINE P == {k \in Int : k = j \/ text[k] \in chars}
<1>0. j \in P
  OBVIOUS
<1> HIDE DEF P
<1>1. PICK k \in i .. j : k \in P /\ \A m \in i .. k - 1 : m \notin P
  BY <1>0, FirstPlace
<1> USE DEF P
<1>2. \A m \in i .. k - 1 : text[m] \notin chars
  BY <1>1
<1> QED
  BY <1>1, <1>2 DEF Find

LEMMA NotBlankIs ==
  ASSUME NEW text, NEW i \in Int, NEW j \in Int, i <= j
  PROVE  LET k == NotBlank(text, i, j)
         IN /\ k \in i .. j /\ (k = j \/ text[k] \notin ListBlank)
            /\ \A m \in i .. k - 1 : text[m] \in ListBlank
<1> DEFINE P == {k \in Int : k = j \/ text[k] \notin ListBlank}
<1>0. j \in P
  OBVIOUS
<1> HIDE DEF P
<1>1. PICK k \in i .. j : k \in P /\ \A m \in i .. k - 1 : m \notin P
  BY <1>0, FirstPlace
<1> USE DEF P
<1>2. \A m \in i .. k - 1 : text[m] \in ListBlank
  BY <1>1
<1> QED
  BY <1>1, <1>2 DEF NotBlank

LEMMA LastNotBlankIs ==
  ASSUME NEW text, NEW i \in Int, NEW j \in Int, i <= j + 1
  PROVE  LET k == LastNotBlank(text, i, j)
         IN /\ k \in i - 1 .. j /\ (k = i - 1 \/ text[k] \notin ListBlank)
            /\ \A m \in k + 1 .. j : text[m] \in ListBlank
<1> DEFINE P == {k \in Int : k = i - 1 \/ text[k] \notin ListBlank}
           a == i - 1
<1>0. a \in P /\ a \in Int /\ a <= j
  OBVIOUS
<1> HIDE DEF P, a
<1>1. PICK k \in a .. j : k \in P /\ \A m \in k + 1 .. j : m \notin P
  BY <1>0, FinalPlace
<1> USE DEF P, a
<1>2. \A m \in k + 1 .. j : text[m] \in ListBlank
  BY <1>1
<1> QED
  BY <1>1, <1>2 DEF LastNotBlank

LEMMA FirstIs ==
  ASSUME NEW s, Len(s) \in Nat, NEW chars
  PROVE  LET i == First(s, chars)
         IN /\ i \in 1 .. Len(s) + 1 /\ (i = Len(s) + 1 \/ s[i] \in chars)
            /\ \A j \in 1 .. i - 1 : s[j] \notin chars
<1> DEFINE n == Len(s) + 1
           P == {k \in Int : k = n \/ s[k] \in chars}
<1>0. n \in P /\ n \in Int /\ 1 \in Int /\ 1 <= n
  OBVIOUS
<1> HIDE DEF P, n
<1>1. PICK k \in 1 .. n : k \in P /\ \A m \in 1 .. k - 1 : m \notin P
  BY <1>0, FirstPlace
<1> USE DEF P, n
<1>2. \A m \in 1 .. k - 1 : s[m] \notin chars
  BY <1>1
<1> QED
  BY <1>1, <1>2 DEF First

LEMMA IndentIs ==
  ASSUME NEW s, Len(s) \in Nat, NEW blanks
  PROVE  LET i == Indent(s, blanks)
         IN /\ i \in 0 .. Len(s) /\ (i = Len(s) \/ s[i + 1] \notin blanks)
            /\ \A j \in 1 .. i : s[j] \in blanks
<1> DEFINE n == Len(s)
           P == {k \in Int : k = n \/ s[k + 1] \notin blanks}
<1>0. n \in P /\ n \in Int /\ 0 \in Int /\ 0 <= n
  OBVIOUS
<1> HIDE DEF P, n
<1>1. PICK k \in 0 .. n : k \in P /\ \A m \in 0 .. k - 1 : m \notin P
  BY <1>0, FirstPlace
<1> USE DEF P, n
<1>2. ASSUME NEW j \in 1 .. k PROVE s[j] \in blanks
  <2>1. j - 1 \in 0 .. k - 1 /\ j - 1 \in Int /\ j - 1 + 1 = j
    OBVIOUS
  <2> HIDE DEF P
  <2>2. j - 1 \notin P
    BY <1>1, <2>1
  <2>3. s[j - 1 + 1] \in blanks
    BY <2>1, <2>2 DEF P
  <2> QED
    BY <2>1, <2>3
<1> QED
  BY <1>1, <1>2 DEF Indent

LEMMA LastPlaceIs ==
  ASSUME NEW s, Len(s) \in Nat, NEW blanks
  PROVE  LET i == LastPlace(s, blanks)
         IN /\ i \in 0 .. Len(s) /\ (i = 0 \/ s[i] \notin blanks)
            /\ \A j \in i + 1 .. Len(s) : s[j] \in blanks
<1> DEFINE n == Len(s)
           P == {k \in Int : k = 0 \/ s[k] \notin blanks}
<1>0. 0 \in P /\ n \in Int /\ 0 \in Int /\ 0 <= n
  OBVIOUS
<1> HIDE DEF P, n
<1>1. PICK k \in 0 .. n : k \in P /\ \A m \in k + 1 .. n : m \notin P
  BY <1>0, FinalPlace
<1> USE DEF P, n
<1>2. \A m \in k + 1 .. n : s[m] \in blanks
  BY <1>1
<1> QED
  BY <1>1, <1>2 DEF LastPlace

-----------------------------------------------------------------------------
(* The scans of a line find what its entry is made of.                     *)
LEMMA ColonIs ==
  ASSUME NEW d \in Texts, NEW b \in 1 .. Len(d), NEW e \in b .. Len(d),
         NEW begin \in b .. e, \A m \in b .. begin - 1 : d[m] \in ListBlank
  PROVE  First(SubSeq(d, b, e - 1), {":"}) = Find(d, begin, e, {":"}) - b + 1
<1> DEFINE s == SubSeq(d, b, e - 1)
           k == Find(d, begin, e, {":"})
           c == First(s, {":"})
<1>0. Len(d) \in Nat /\ b \in Int /\ e \in Int /\ begin \in Int
  BY LenProperties DEF Texts
<1>1. Len(s) = e - b /\ \A i \in 1 .. e - b : s[i] = d[b + i - 1]
  <2>1. e - 1 \in Int /\ e - 1 <= Len(d) /\ 1 <= b /\ e - 1 - b + 1 = e - b
        /\ (IF b <= e - 1 THEN e - 1 - b + 1 ELSE 0) = e - b
    BY <1>0
  <2> QED
    BY <1>0, <2>1, PieceIs
<1>2. /\ k \in begin .. e /\ (k = e \/ d[k] = ":")
      /\ \A m \in begin .. k - 1 : d[m] # ":"
  BY <1>0, FindIs
<1>3. /\ c \in 1 .. e - b + 1 /\ (c = e - b + 1 \/ s[c] = ":")
      /\ \A j \in 1 .. c - 1 : s[j] # ":"
  <2>1. Len(s) \in Nat /\ Len(s) + 1 = e - b + 1
    BY <1>0, <1>1
  <2> HIDE DEF s
  <2> QED
    BY <2>1, FirstIs
<1> HIDE DEF s, k, c
<1>4. \A m \in b .. k - 1 : d[m] # ":"
  <2>1. ":" \notin ListBlank
    BY DEF ListBlank
  <2> QED
    BY <1>0, <1>2, <2>1
<1>5. ~(c < k - b + 1)
  <2> SUFFICES ASSUME c < k - b + 1 PROVE FALSE
    OBVIOUS
  <2>1. c \in 1 .. e - b /\ b + c - 1 \in b .. k - 1
    BY <1>0, <1>2, <1>3
  <2> QED
    BY <1>1, <1>3, <1>4, <2>1
<1>6. ~(c > k - b + 1)
  <2> SUFFICES ASSUME c > k - b + 1 PROVE FALSE
    OBVIOUS
  <2>1. k - b + 1 \in 1 .. e - b /\ k # e /\ b + (k - b + 1) - 1 = k /\ k - b + 1 \in 1 .. c - 1
    BY <1>0, <1>2, <1>3
  <2>2. s[k - b + 1] = ":"
    BY <1>1, <1>2, <2>1
  <2> QED
    BY <1>3, <2>1, <2>2
<1>7. c = k - b + 1
  BY <1>0, <1>2, <1>3, <1>5, <1>6
<1> QED
  BY <1>7 DEF c, k, s

(* The blanks in front of a piece, and those behind it.                    *)
LEMMA FrontIs ==
  ASSUME NEW d \in Texts, NEW i \in Int, NEW j \in Int, 1 <= i, i <= j + 1, j <= Len(d),
         NEW blanks, NEW k \in i .. j + 1, k = j + 1 \/ d[k] \notin blanks,
         \A m \in i .. k - 1 : d[m] \in blanks
  PROVE  StripFront(SubSeq(d, i, j), blanks) = SubSeq(d, k, j)
<1> DEFINE s == SubSeq(d, i, j)
           x == Indent(s, blanks)
<1>0. Len(d) \in Nat
  BY LenProperties DEF Texts
<1>1. s \in Texts /\ Len(s) = j - i + 1 /\ \A m \in 1 .. j - i + 1 : s[m] = d[i + m - 1]
  <2>1. (IF i <= j THEN j - i + 1 ELSE 0) = j - i + 1
    OBVIOUS
  <2> QED
    BY <2>1, PieceIs
<1>2. /\ x \in 0 .. j - i + 1 /\ (x = j - i + 1 \/ s[x + 1] \notin blanks)
      /\ \A m \in 1 .. x : s[m] \in blanks
  <2>1. Len(s) \in Nat
    BY <1>1
  <2> HIDE DEF s
  <2> QED
    BY <1>1, <2>1, IndentIs
<1> HIDE DEF s, x
<1>3. ~(x < k - i)
  <2> SUFFICES ASSUME x < k - i PROVE FALSE
    OBVIOUS
  <2>1. x + 1 \in 1 .. j - i + 1 /\ i + (x + 1) - 1 \in i .. k - 1 /\ x # j - i + 1
    BY <1>2
  <2> QED
    BY <1>1, <1>2, <2>1
<1>4. ~(x > k - i)
  <2> SUFFICES ASSUME x > k - i PROVE FALSE
    OBVIOUS
  <2>1. x \in Int /\ x <= j - i + 1 /\ x > k - i /\ k \in Int /\ i <= k
    BY <1>2
  <2>2. k - i + 1 \in 1 .. x
    BY <2>1
  <2>3. k - i + 1 \in 1 .. j - i + 1 /\ k # j + 1
    BY <2>1
  <2>4. i + (k - i + 1) - 1 = k
    BY <2>1
  <2> QED
    BY <1>1, <1>2, <2>2, <2>3, <2>4
<1>5. x = k - i
  BY <1>2, <1>3, <1>4
<1>6. SubSeq(s, k - i + 1, j - i + 1) = SubSeq(d, k, j)
  <2>1. k - i + 1 \in Int /\ j - i + 1 \in Int /\ 1 <= k - i + 1 /\ k - i + 1 <= j - i + 1 + 1
        /\ i + (k - i + 1) - 1 = k /\ i + (j - i + 1) - 1 = j
    OBVIOUS
  <2> DEFINE p == k - i + 1
             q == j - i + 1
  <2>2. p \in Int /\ q \in Int /\ 1 <= p /\ p <= q + 1 /\ q <= j - i + 1
    BY <2>1
  <2> HIDE DEF p, q
  <2>3. SubSeq(SubSeq(d, i, j), p, q) = SubSeq(d, i + p - 1, i + q - 1)
    BY <2>2, PieceOfPiece
  <2> QED
    BY <2>1, <2>3 DEF p, q, s
<1> QED
  BY <1>1, <1>5, <1>6 DEF StripFront, After, x, s

LEMMA BackIs ==
  ASSUME NEW d \in Texts, NEW i \in Int, NEW j \in Int, 1 <= i, i <= j + 1, j <= Len(d),
         NEW blanks, NEW k \in Int, i - 1 <= k, k <= j, k = i - 1 \/ d[k] \notin blanks,
         \A m \in k + 1 .. j : d[m] \in blanks
  PROVE  StripBack(SubSeq(d, i, j), blanks) = SubSeq(d, i, k)
<1> DEFINE s == SubSeq(d, i, j)
           x == LastPlace(s, blanks)
<1>0. Len(d) \in Nat
  BY LenProperties DEF Texts
<1>1. s \in Texts /\ Len(s) = j - i + 1 /\ \A m \in 1 .. j - i + 1 : s[m] = d[i + m - 1]
  <2>1. (IF i <= j THEN j - i + 1 ELSE 0) = j - i + 1
    OBVIOUS
  <2> QED
    BY <2>1, PieceIs
<1>2. /\ x \in 0 .. j - i + 1 /\ (x = 0 \/ s[x] \notin blanks)
      /\ \A m \in x + 1 .. j - i + 1 : s[m] \in blanks
  <2>1. Len(s) \in Nat
    BY <1>1
  <2> HIDE DEF s
  <2> QED
    BY <1>1, <2>1, LastPlaceIs
<1> HIDE DEF s, x
<1>3. ~(x < k - i + 1)
  <2> SUFFICES ASSUME x < k - i + 1 PROVE FALSE
    OBVIOUS
  <2>1. k - i + 1 \in 1 .. j - i + 1 /\ k - i + 1 \in x + 1 .. j - i + 1 /\ k # i - 1
        /\ i + (k - i + 1) - 1 = k
    BY <1>2
  <2> QED
    BY <1>1, <1>2, <2>1
<1>4. ~(x > k - i + 1)
  <2> SUFFICES ASSUME x > k - i + 1 PROVE FALSE
    OBVIOUS
  <2>1. x \in 1 .. j - i + 1 /\ i + x - 1 \in k + 1 .. j /\ x # 0
    BY <1>2
  <2> QED
    BY <1>1, <1>2, <2>1
<1>5. x = k - i + 1
  BY <1>2, <1>3, <1>4
<1>6. SubSeq(s, 1, k - i + 1) = SubSeq(d, i, k)
  <2> DEFINE q == k - i + 1
  <2>1. q \in Int /\ 1 <= q + 1 /\ q <= j - i + 1 /\ i + q - 1 = k /\ i + 1 - 1 = i /\ 1 \in Int /\ 1 <= 1
    OBVIOUS
  <2> HIDE DEF q
  <2>2. SubSeq(SubSeq(d, i, j), 1, q) = SubSeq(d, i + 1 - 1, i + q - 1)
    BY <2>1, PieceOfPiece
  <2> QED
    BY <2>1, <2>2 DEF q, s
<1> QED
  BY <1>5, <1>6 DEF StripBack, x, s

LEMMA EntryIs ==
  ASSUME NEW d \in Texts, NEW b \in 1 .. Len(d), NEW e \in b .. Len(d)
  PROVE  LET begin == NotBlank(d, b, e)
             colon == Find(d, begin, e, {":"})
             end == LastNotBlank(d, begin, colon - 1)
             query == IF colon = e THEN e ELSE NotBlank(d, colon + 1, e)
             entry == EntryOf(SubSeq(d, b, e - 1))
         IN /\ begin \in b .. e /\ colon \in begin .. e
            /\ end \in begin - 1 .. colon - 1 /\ query \in colon .. e
            /\ query < e => colon < query
            /\ entry.relname = SubSeq(d, begin, end)
            /\ entry.query = SubSeq(d, query, e - 1)
<1> DEFINE begin == NotBlank(d, b, e)
           colon == Find(d, begin, e, {":"})
           end == LastNotBlank(d, begin, colon - 1)
           query == IF colon = e THEN e ELSE NotBlank(d, colon + 1, e)
           after == IF colon = e THEN e ELSE colon + 1
           s == SubSeq(d, b, e - 1)
           c == First(s, {":"})
<1>0. Len(d) \in Nat /\ b \in Int /\ e \in Int /\ b <= e /\ 1 <= b
  BY LenProperties DEF Texts
<1>1. /\ begin \in b .. e /\ (begin = e \/ d[begin] \notin ListBlank)
      /\ \A m \in b .. begin - 1 : d[m] \in ListBlank
  BY <1>0, NotBlankIs
<1>2. c = colon - b + 1
  <2> HIDE DEF begin
  <2> QED
    BY <1>1, ColonIs
<1> HIDE DEF begin
<1>3. /\ colon \in begin .. e /\ (colon = e \/ d[colon] = ":")
      /\ \A m \in begin .. colon - 1 : d[m] # ":"
  <2>1. begin \in Int /\ begin <= e
    BY <1>0, <1>1
  <2> QED
    BY <1>0, <2>1, FindIs
<1> HIDE DEF colon
<1>4. /\ end \in begin - 1 .. colon - 1 /\ (end = begin - 1 \/ d[end] \notin ListBlank)
      /\ \A m \in end + 1 .. colon - 1 : d[m] \in ListBlank
  <2>1. begin \in Int /\ colon - 1 \in Int /\ begin <= colon - 1 + 1
    BY <1>0, <1>1, <1>3
  <2> QED
    BY <1>0, <2>1, LastNotBlankIs
<1> HIDE DEF end
<1>5. /\ after \in Int /\ after \in colon .. e /\ query \in after .. e
      /\ (query = e \/ d[query] \notin ListBlank)
      /\ \A m \in after .. query - 1 : d[m] \in ListBlank
  <2>1. CASE colon = e
    <3>1. \A m \in e .. e - 1 : d[m] \in ListBlank
      BY <1>0
    <3> QED
      BY <1>0, <1>1, <1>3, <2>1, <3>1
  <2>2. CASE colon # e
    <3>1. colon + 1 \in Int /\ colon + 1 <= e
      BY <1>0, <1>1, <1>3, <2>2
    <3>2. LET k == NotBlank(d, colon + 1, e)
          IN /\ k \in colon + 1 .. e /\ (k = e \/ d[k] \notin ListBlank)
             /\ \A m \in colon + 1 .. k - 1 : d[m] \in ListBlank
      BY <1>0, <3>1, NotBlankIs
    <3>3. after = colon + 1 /\ query = NotBlank(d, colon + 1, e)
      BY <2>2
    <3> QED
      BY <1>0, <1>1, <1>3, <3>1, <3>2, <3>3
  <2> QED
    BY <2>1, <2>2
<1>6. s \in Texts /\ Len(s) = e - b
  <2>1. e - 1 \in Int /\ e - 1 <= Len(d) /\ (IF b <= e - 1 THEN e - 1 - b + 1 ELSE 0) = e - b
    BY <1>0
  <2> QED
    BY <1>0, <2>1, PieceIs
<1>7. Before(s, c) = SubSeq(d, b, colon - 1)
  <2> DEFINE y == e - 1
             q == colon - b
  <2>1. /\ y \in Int /\ b <= y + 1 /\ y <= Len(d) /\ 1 \in Int /\ 1 <= 1 /\ q \in Int
        /\ 1 <= q + 1 /\ q <= y - b + 1 /\ b + 1 - 1 = b /\ b + q - 1 = colon - 1
        /\ colon - b + 1 - 1 = q
    BY <1>0, <1>1, <1>3
  <2>2. Before(s, c) = SubSeq(SubSeq(d, b, y), 1, q)
    BY <1>2, <2>1 DEF Before
  <2> HIDE DEF s, c, y, q
  <2>3. SubSeq(SubSeq(d, b, y), 1, q) = SubSeq(d, b + 1 - 1, b + q - 1)
    BY <1>0, <2>1, PieceOfPiece
  <2> QED
    BY <2>1, <2>2, <2>3
<1>8. After(s, c) = SubSeq(d, after, e - 1)
  <2>1. CASE colon = e
    <3>1. c + 1 \in Int /\ Len(s) \in Int /\ Len(s) < c + 1 /\ after = e /\ e - 1 < e /\ e - 1 \in Int
      BY <1>0, <1>2, <1>6, <2>1
    <3> HIDE DEF s, c, after
    <3>2. SubSeq(s, c + 1, Len(s)) = <<>>
      BY <3>1, SubSeqEmpty
    <3>3. SubSeq(d, after, e - 1) = <<>>
      BY <1>0, <3>1, SubSeqEmpty
    <3> QED
      BY <3>2, <3>3 DEF After
  <2>2. CASE colon # e
    <3> DEFINE y == e - 1
               p == colon - b + 2
               q == e - b
    <3>1. /\ y \in Int /\ b <= y + 1 /\ y <= Len(d) /\ p \in Int /\ 1 <= p /\ q \in Int
          /\ p <= q + 1 /\ q <= y - b + 1 /\ b + p - 1 = colon + 1 /\ b + q - 1 = e - 1
          /\ colon - b + 1 + 1 = p
      BY <1>0, <1>1, <1>3, <2>2
    <3>2. After(s, c) = SubSeq(SubSeq(d, b, y), p, q)
      BY <1>2, <1>6, <3>1 DEF After
    <3> HIDE DEF s, c, y, p, q
    <3>3. SubSeq(SubSeq(d, b, y), p, q) = SubSeq(d, b + p - 1, b + q - 1)
      BY <1>0, <3>1, PieceOfPiece
    <3> QED
      BY <2>2, <3>1, <3>2, <3>3
  <2> QED
    BY <2>1, <2>2
<1>9. StripFront(Before(s, c), ListBlank) = SubSeq(d, begin, colon - 1)
  <2> DEFINE j == colon - 1
  <2>1. /\ j \in Int /\ b <= j + 1 /\ j <= Len(d) /\ begin \in b .. j + 1
        /\ (begin = j + 1 \/ d[begin] \notin ListBlank)
    BY <1>0, <1>1, <1>3
  <2> HIDE DEF j, s, c
  <2>2. StripFront(SubSeq(d, b, j), ListBlank) = SubSeq(d, begin, j)
    BY <1>0, <1>1, <2>1, FrontIs
  <2> QED
    BY <1>7, <2>2 DEF j
<1>10. StripBack(SubSeq(d, begin, colon - 1), ListBlank) = SubSeq(d, begin, end)
  <2> DEFINE j == colon - 1
  <2>1. /\ j \in Int /\ begin \in Int /\ 1 <= begin /\ begin <= j + 1 /\ j <= Len(d)
        /\ end \in Int /\ begin - 1 <= end /\ end <= j /\ \A m \in end + 1 .. j : d[m] \in ListBlank
        /\ (end = begin - 1 \/ d[end] \notin ListBlank)
    BY <1>0, <1>1, <1>3, <1>4
  <2> HIDE DEF j
  <2>2. StripBack(SubSeq(d, begin, j), ListBlank) = SubSeq(d, begin, end)
    BY <2>1, BackIs
  <2> QED
    BY <2>2 DEF j
<1>11. StripFront(After(s, c), ListBlank) = SubSeq(d, query, e - 1)
  <2> DEFINE j == e - 1
  <2>1. /\ j \in Int /\ 1 <= after /\ after <= j + 1 /\ j <= Len(d) /\ query \in after .. j + 1
        /\ (query = j + 1 \/ d[query] \notin ListBlank)
    BY <1>0, <1>1, <1>3, <1>5
  <2> HIDE DEF j, s, c, query, after
  <2>2. StripFront(SubSeq(d, after, j), ListBlank) = SubSeq(d, query, j)
    BY <1>5, <2>1, FrontIs
  <2> QED
    BY <1>8, <2>2 DEF j
<1>12. query \in colon .. e /\ (query < e => colon < query)
  <2>1. query < e => after = colon + 1
    BY <1>0, <1>5
  <2> HIDE DEF query, after
  <2> QED
    BY <1>0, <1>1, <1>3, <1>5, <2>1
<1> HIDE DEF query, after
<1>13. /\ EntryOf(s).relname = SubSeq(d, begin, end)
       /\ EntryOf(s).query = SubSeq(d, query, e - 1)
  BY <1>9, <1>10, <1>11 DEF EntryOf, Strip
<1> QED
  BY <1>1, <1>3, <1>4, <1>12, <1>13 DEF begin, colon, end, query, s

-----------------------------------------------------------------------------
(* A pointer into the text stands for what comes before the next NUL.      *)
LEMMA StringIs ==
  ASSUME NEW d \in Texts, NEW i \in 1 .. Len(d), NEW k \in i .. Len(d),
         d[k] = ListNul, \A m \in i .. k - 1 : d[m] # ListNul
  PROVE  StringAt(d, i) = SubSeq(d, i, k - 1)
<1> DEFINE x == Find(d, i, Len(d), {ListNul})
<1>0. Len(d) \in Nat /\ i \in Int /\ i <= Len(d) /\ i # 0 /\ Len(d) \in Int
  BY LenProperties DEF Texts
<1>1. /\ x \in i .. Len(d) /\ (x = Len(d) \/ d[x] = ListNul)
      /\ \A m \in i .. x - 1 : d[m] # ListNul
  BY <1>0, FindIs
<1> HIDE DEF x
<1>2. x = k
  <2>1. ~(x < k)
    <3> SUFFICES ASSUME x < k PROVE FALSE
      OBVIOUS
    <3>1. x \in i .. k - 1 /\ x # Len(d)
      BY <1>0, <1>1
    <3> QED
      BY <1>1, <3>1
  <2>2. ~(k < x)
    <3> SUFFICES ASSUME k < x PROVE FALSE
      OBVIOUS
    <3>1. k \in i .. x - 1
      BY <1>0, <1>1
    <3> QED
      BY <1>1, <3>1
  <2> QED
    BY <1>0, <1>1, <2>1, <2>2
<1> QED
  BY <1>0, <1>2 DEF x, StringAt

(* Where the text is not yet cut it is the file's, and the file has no NUL. *)
ListRead ==
  /\ table_text \in Texts /\ list \in Texts /\ Len(list) = Len(table_text) + 1
  /\ \A i \in 1 .. Len(table_text) : table_text[i] # ListNul
  /\ line \in 1 .. Len(list) + 1
  /\ \A i \in line .. Len(table_text) : list[i] = table_text[i]
  /\ list[Len(list)] = ListNul

(* The entry of the line is pointed to, if it has a name, and nothing      *)
(* outside of the line is written.                                         *)
LineEntry(e) ==
  LET entry == EntryOf(SubSeq(table_text, line, e - 1))
  IN \/ entry.relname = <<>> /\ tables' = tables /\ queries' = queries
     \/ /\ entry.relname # <<>>
        /\ \E a \in line .. e : \E q \in {0} \union (line .. e) :
             /\ tables' = Append(tables, a) /\ queries' = Append(queries, q)
             /\ StringAt(list', a) = entry.relname
             /\ StringAt(list', q) = entry.query
             /\ \E k \in a .. e : list'[k] = ListNul
             /\ q # 0 => \E k \in q .. e : list'[k] = ListNul

LineCut(e) ==
  /\ e = Len(list) \/ table_text[e] = "\n"
  /\ \A i \in line .. e - 1 : table_text[i] # "\n"
  /\ line' = e + 1 /\ slots' = slots /\ reach' \in e .. e + 1
  /\ list' \in Texts /\ Len(list') = Len(list)
  /\ \A i \in 1 .. Len(list) : i \notin line .. e => list'[i] = list[i]
  /\ list'[Len(list)] = ListNul
  /\ LineEntry(e)

LEMMA CutIs ==
  ASSUME CharAssumption, ListRead, CutLine
  PROVE  \E e \in line .. Len(list) : LineCut(e)
<1> DEFINE n == Len(list)
           e == LineStop
           begin == NotBlank(list, line, e)
           colon == Find(list, begin, e, {":"})
           end == LastNotBlank(list, begin, colon - 1)
           query == IF colon = e THEN e ELSE NotBlank(list, colon + 1, e)
           named == end >= begin
           cut == (IF named THEN {end + 1} ELSE {}) \union (IF query < e THEN {e} ELSE {})
           s == SubSeq(list, line, e - 1)
           entry == EntryOf(s)
<1>0. /\ n \in Nat /\ line \in 1 .. n /\ line \in Int /\ line <= n /\ n \in Int
      /\ list \in Texts /\ n = Len(table_text) + 1 /\ Len(table_text) \in Nat
  <2>1. n \in Nat /\ n = Len(table_text) + 1 /\ Len(table_text) \in Nat
    BY LenProperties DEF ListRead, Texts
  <2>2. ~(line > n) /\ line \in 1 .. n + 1
    BY DEF CutLine, AtListEnd, Tail0, ListRead
  <2> QED
    BY <2>1, <2>2 DEF ListRead
<1>1. /\ e \in line .. n /\ (e = n \/ list[e] = "\n")
      /\ \A i \in line .. e - 1 : list[i] # "\n"
  <2>1. e = Find(list, line, n, {"\n"})
    BY DEF LineStop, Tail0
  <2> HIDE DEF e
  <2> QED
    BY <1>0, <2>1, FindIs
<1>2. /\ list' = [i \in DOMAIN list |-> IF i \in cut THEN ListNul ELSE list[i]]
      /\ tables' = (IF named THEN Append(tables, begin) ELSE tables)
      /\ queries' = (IF named THEN Append(queries, IF query < e THEN query ELSE 0) ELSE queries)
      /\ line' = e + 1 /\ slots' = slots
      /\ reach' = IF colon = e THEN e + 1 ELSE e
  BY DEF CutLine
<1> HIDE DEF e
<1>3. /\ begin \in line .. e /\ colon \in begin .. e
      /\ end \in begin - 1 .. colon - 1 /\ query \in colon .. e
      /\ query < e => colon < query
      /\ entry.relname = SubSeq(list, begin, end)
      /\ entry.query = SubSeq(list, query, e - 1)
  BY <1>0, <1>1, EntryIs
<1>4. s = SubSeq(table_text, line, e - 1)
  <2>1. /\ e - 1 \in Int /\ 1 <= line /\ e - 1 <= Len(list) /\ e - 1 <= Len(table_text)
        /\ table_text \in Texts
    BY <1>0, <1>1 DEF ListRead
  <2>2. \A k \in line .. e - 1 : list[k] = table_text[k]
    BY <1>0, <1>1 DEF ListRead
  <2> DEFINE y == e - 1
  <2> HIDE DEF y
  <2>3. SubSeq(list, line, y) = SubSeq(table_text, line, y)
    BY <1>0, <2>1, <2>2, SamePiece DEF y
  <2> QED
    BY <2>3 DEF y
<1> HIDE DEF s, query, end, colon, begin
<1>5. \A k \in cut : k \in line .. e
  <2>1. named => end + 1 \in line .. e
    BY <1>0, <1>1, <1>3
  <2>2. e \in line .. e
    BY <1>0, <1>1
  <2> HIDE DEF named
  <2> QED
    BY <2>1, <2>2
<1>6. /\ list' \in Texts /\ Len(list') = n
      /\ \A i \in 1 .. n : list'[i] = IF i \in cut THEN ListNul ELSE list[i]
  <2>1. DOMAIN list = 1 .. n /\ \A i \in 1 .. n : list[i] \in Char
    BY <1>0, LenProperties, ElementOfSeq DEF Texts
  <2>2. ListNul \in Char
    BY DEF ListNul, CharAssumption, NUL
  <2> HIDE DEF cut
  <2>3. list' = [i \in 1 .. n |-> IF i \in cut THEN ListNul ELSE list[i]]
    BY <1>2, <2>1
  <2> DEFINE f == [i \in 1 .. n |-> IF i \in cut THEN ListNul ELSE list[i]]
  <2>4. f \in Seq(Char) /\ Len(f) = n /\ \A i \in 1 .. n : f[i] = IF i \in cut THEN ListNul ELSE list[i]
    BY <1>0, <2>1, <2>2
  <2> QED
    BY <2>3, <2>4 DEF Texts
<1>7. \A i \in 1 .. n : i \notin line .. e => list'[i] = list[i]
  BY <1>5, <1>6
<1>8. list'[n] = ListNul
  BY <1>0, <1>6 DEF ListRead
<1>9. LineEntry(e)
  <2>1. CASE ~named
    <3>1. end < begin /\ begin \in Int /\ end \in Int
      BY <1>0, <1>1, <1>3, <2>1
    <3>2. entry.relname = <<>>
      BY <1>3, <3>1, SubSeqEmpty
    <3> QED
      BY <1>2, <1>4, <2>1, <3>2 DEF LineEntry
  <2>2. CASE named
    <3> DEFINE q == IF query < e THEN query ELSE 0
    <3>0. /\ begin \in Int /\ end \in Int /\ colon \in Int /\ query \in Int /\ e \in Int
          /\ begin <= end /\ end < colon /\ colon <= e /\ e <= n /\ 1 <= line /\ line <= begin
          /\ begin \in 1 .. n /\ end + 1 \in begin .. e /\ end + 1 \in begin .. n
      BY <1>0, <1>1, <1>3, <2>2
    <3>1. end + 1 \in cut
      BY <2>2
    <3>2. ASSUME NEW m \in begin .. end
          PROVE  m \in 1 .. n /\ list'[m] = list[m] /\ list[m] # ListNul
      <4>1. m \in 1 .. n /\ m # end + 1 /\ m # e /\ m \in 1 .. Len(table_text) /\ m \in line .. Len(table_text)
        BY <1>0, <3>0
      <4> HIDE DEF named
      <4>2. m \notin cut
        BY <4>1
      <4> QED
        BY <1>6, <4>1, <4>2 DEF ListRead
    <3>3. StringAt(list', begin) = entry.relname
      <4> DEFINE k == end + 1
      <4>1. /\ k \in begin .. Len(list') /\ begin \in 1 .. Len(list') /\ list'[k] = ListNul
            /\ \A m \in begin .. k - 1 : list'[m] # ListNul
            /\ k - 1 = end
        <5>1. k \in 1 .. n /\ \A m \in begin .. k - 1 : m \in begin .. end
          BY <3>0
        <5>2. list'[k] = ListNul
          BY <1>6, <3>1, <5>1
        <5>3. \A m \in begin .. k - 1 : list'[m] # ListNul
          BY <3>2, <5>1
        <5> QED
          BY <1>6, <3>0, <5>2, <5>3
      <4> HIDE DEF k, cut
      <4>2. StringAt(list', begin) = SubSeq(list', begin, k - 1)
        BY <1>6, <4>1, StringIs
      <4>3. SubSeq(list', begin, end) = SubSeq(list, begin, end)
        <5>1. 1 <= begin /\ end <= Len(list) /\ end <= Len(list')
          BY <1>6, <3>0
        <5>2. \A m \in begin .. end : list'[m] = list[m]
          BY <3>2
        <5> QED
          BY <1>0, <1>6, <3>0, <5>1, <5>2, SamePiece
      <4> QED
        BY <1>3, <4>1, <4>2, <4>3
    <3>4. StringAt(list', q) = entry.query /\ (q # 0 => list'[e] = ListNul)
      <4>1. CASE ~(query < e)
        <5>1. e - 1 < query /\ e - 1 \in Int /\ q = 0
          BY <3>0, <4>1
        <5>2. entry.query = <<>>
          BY <1>3, <3>0, <5>1, SubSeqEmpty
        <5> QED
          BY <5>1, <5>2 DEF StringAt
      <4>2. CASE query < e
        <5>0. q = query /\ e \in cut /\ e \in 1 .. n /\ query \in 1 .. n
          BY <1>1, <1>3, <3>0, <4>2
        <5>1. ASSUME NEW m \in query .. e - 1
              PROVE  m \in 1 .. n /\ list'[m] = list[m] /\ list[m] # ListNul
          <6>1. /\ m \in 1 .. n /\ m # end + 1 /\ m # e /\ m \in 1 .. Len(table_text)
                /\ m \in line .. Len(table_text)
            BY <1>0, <1>3, <3>0, <4>2
          <6> HIDE DEF named
          <6>2. m \notin cut
            BY <6>1
          <6> QED
            BY <1>6, <6>1, <6>2 DEF ListRead
        <5>2. list'[e] = ListNul
          BY <1>6, <5>0
        <5>3. /\ query \in 1 .. Len(list') /\ e \in query .. Len(list')
              /\ \A m \in query .. e - 1 : list'[m] # ListNul
          <6>1. \A m \in query .. e - 1 : list'[m] # ListNul
            BY <5>1
          <6> QED
            BY <1>6, <3>0, <4>2, <5>0, <6>1
        <5> HIDE DEF cut
        <5>4. StringAt(list', query) = SubSeq(list', query, e - 1)
          BY <1>6, <5>2, <5>3, StringIs
        <5>5. SubSeq(list', query, e - 1) = SubSeq(list, query, e - 1)
          <6> DEFINE y == e - 1
          <6>1. y \in Int /\ 1 <= query /\ y <= Len(list) /\ y <= Len(list')
            BY <1>6, <3>0, <5>0
          <6>2. \A m \in query .. y : list'[m] = list[m]
            BY <5>1
          <6> HIDE DEF y
          <6>3. SubSeq(list', query, y) = SubSeq(list, query, y)
            BY <1>0, <1>6, <3>0, <6>1, <6>2, SamePiece
          <6> QED
            BY <6>3 DEF y
        <5> QED
          BY <1>3, <5>0, <5>2, <5>4, <5>5
      <4> QED
        BY <4>1, <4>2
    <3>5. entry.relname # <<>>
      <4>1. 1 <= begin /\ end <= Len(list) /\ (IF begin <= end THEN end - begin + 1 ELSE 0) > 0
        BY <3>0
      <4>2. Len(SubSeq(list, begin, end)) > 0
        BY <1>0, <3>0, <4>1, PieceIs
      <4>3. Len(<<>>) = 0
        BY EmptySeq
      <4> DEFINE x == SubSeq(list, begin, end)
      <4>4. Len(x) > 0
        BY <4>2
      <4> HIDE DEF x
      <4>5. x # <<>>
        BY <4>3, <4>4
      <4> QED
        BY <1>3, <4>5 DEF x
    <3>6. tables' = Append(tables, begin) /\ queries' = Append(queries, q)
      BY <1>2, <2>2
    <3>7. begin \in line .. e /\ q \in {0} \union (line .. e) /\ (q # 0 => q = query)
      BY <1>0, <1>1, <1>3, <3>0
    <3>8. \E k \in begin .. e : list'[k] = ListNul
      <4>1. end + 1 \in begin .. e /\ end + 1 \in 1 .. n
        BY <3>0
      <4>2. list'[end + 1] = ListNul
        BY <1>6, <3>1, <4>1
      <4> QED
        BY <4>1, <4>2
    <3>9. q # 0 => \E k \in q .. e : list'[k] = ListNul
      BY <3>0, <3>4, <1>3
    <3> HIDE DEF q, cut, named, entry
    <3> QED
      BY <1>4, <3>3, <3>4, <3>5, <3>6, <3>7, <3>8, <3>9 DEF LineEntry, entry
  <2> QED
    BY <2>1, <2>2
<1>10. e = Len(list) \/ table_text[e] = "\n"
  BY <1>0, <1>1 DEF ListRead
<1>11. \A i \in line .. e - 1 : table_text[i] # "\n"
  <2>1. \A i \in line .. e - 1 : i \in line .. Len(table_text)
    BY <1>0, <1>1
  <2> QED
    BY <1>1, <2>1 DEF ListRead
<1>12. reach' \in e .. e + 1
  <2>1. e \in Int /\ (reach' = e + 1 \/ reach' = e)
    BY <1>0, <1>1, <1>2
  <2> QED
    BY <2>1
<1> QED
  BY <1>1, <1>2, <1>6, <1>7, <1>8, <1>9, <1>10, <1>11, <1>12 DEF LineCut

-----------------------------------------------------------------------------
(* What the lines say, one line after the other.                           *)
Entry == [relname : Texts, query : Texts]

LEMMA FrontType ==
  ASSUME NEW s \in Texts, NEW blanks
  PROVE  StripFront(s, blanks) \in Texts /\ StripBack(s, blanks) \in Texts
<1>0. Len(s) \in Nat
  BY LenProperties DEF Texts
<1>1. Indent(s, blanks) \in 0 .. Len(s) /\ LastPlace(s, blanks) \in 0 .. Len(s)
  BY <1>0, IndentIs, LastPlaceIs
<1> DEFINE i == Indent(s, blanks) + 1
           j == LastPlace(s, blanks)
<1>2. i \in Int /\ 1 <= i /\ j \in Int /\ j <= Len(s)
  BY <1>0, <1>1
<1> HIDE DEF i, j
<1>3. SubSeq(s, i, Len(s)) \in Texts /\ SubSeq(s, 1, j) \in Texts
  BY <1>0, <1>2, PieceIs
<1> QED
  BY <1>3 DEF i, j, StripFront, StripBack, After

LEMMA EntryType ==
  ASSUME NEW s \in Texts
  PROVE  EntryOf(s) \in Entry
<1> DEFINE c == First(s, {":"})
<1>0. Len(s) \in Nat
  BY LenProperties DEF Texts
<1>1. c \in 1 .. Len(s) + 1
  BY <1>0, FirstIs
<1> HIDE DEF c
<1> DEFINE j == c - 1
           i == c + 1
<1>2. i \in Int /\ 1 <= i /\ j \in Int /\ j <= Len(s)
  BY <1>0, <1>1
<1> HIDE DEF i, j
<1>3. SubSeq(s, 1, j) \in Texts /\ SubSeq(s, i, Len(s)) \in Texts
  BY <1>0, <1>2, PieceIs
<1>4. Before(s, c) \in Texts /\ After(s, c) \in Texts
  BY <1>3 DEF i, j, Before, After
<1>5. /\ Strip(Before(s, c), ListBlank) \in Texts
      /\ StripFront(After(s, c), ListBlank) \in Texts
  BY <1>4, FrontType DEF Strip
<1> QED
  BY <1>5 DEF c, EntryOf, Entry

NoText == <<>>

(* A line without a name is no entry.                                      *)
LEMMA NothingSaid == EntryOf(NoText).relname = NoText
<1>1. NoText \in Texts /\ Len(NoText) = 0
  BY EmptySeq DEF Texts, NoText
<1> DEFINE c == First(NoText, {":"})
           x == Before(NoText, c)
<1>2. c = 1
  BY <1>1, FirstIs
<1>3. x = NoText
  BY <1>2, SubSeqEmpty DEF Before, NoText
<1> HIDE DEF x, c, NoText
<1>4. Indent(NoText, ListBlank) = 0 /\ LastPlace(NoText, ListBlank) = 0
  BY <1>1, IndentIs, LastPlaceIs
<1>5. StripFront(NoText, ListBlank) = NoText
  BY <1>1, <1>4, SubSeqEmpty DEF StripFront, After, NoText
<1>6. StripBack(NoText, ListBlank) = NoText
  BY <1>1, <1>4, SubSeqEmpty DEF StripBack, NoText
<1> QED
  BY <1>3, <1>5, <1>6 DEF x, c, Strip, EntryOf

WithEntry(entries, s) ==
  IF EntryOf(s).relname = <<>> THEN entries ELSE Append(entries, EntryOf(s))

IsListing(f, p) ==
  /\ f \in [0 .. Len(p) -> Seq(Entry)]
  /\ f[0] = <<>>
  /\ \A i \in 1 .. Len(p) : f[i] = WithEntry(f[i - 1], p[i])

LEMMA WithEntryType ==
  ASSUME NEW x \in Seq(Entry), NEW s \in Texts
  PROVE  WithEntry(x, s) \in Seq(Entry)
<1>1. EntryOf(s) \in Entry
  BY EntryType
<1>2. Append(x, EntryOf(s)) \in Seq(Entry)
  BY <1>1, AppendProperties
<1> QED
  BY <1>2 DEF WithEntry

LEMMA ListingExists ==
  ASSUME NEW p \in Seq(Texts)
  PROVE  \E f : IsListing(f, p)
<1> DEFINE n == Len(p)
           E == Seq(Entry)
           F == [q \in (1 .. n) \X E |-> WithEntry(q[2], p[q[1]])]
<1>0. n \in Nat /\ (\A i \in 1 .. n : p[i] \in Texts) /\ <<>> \in E
  BY LenProperties, ElementOfSeq, EmptySeq
<1>1. F \in [(1 .. n) \X E -> E]
  BY <1>0, WithEntryType
<1>2. \A i \in 1 .. n : \A x \in E : F[<<i, x>>] = WithEntry(x, p[i])
  OBVIOUS
<1> HIDE DEF F, E
<1>3. PICK f : IsRun(f, <<>>, F, n, E)
  BY <1>0, <1>1, RunExists
<1>4. f \in [0 .. n -> E] /\ f[0] = <<>>
  BY <1>3 DEF IsRun
<1>5. ASSUME NEW i \in 1 .. n PROVE f[i] = WithEntry(f[i - 1], p[i])
  <2>1. f[i - 1] \in E
    BY <1>0, <1>4
  <2> QED
    BY <1>2, <1>3, <2>1 DEF IsRun
<1> QED
  BY <1>4, <1>5 DEF IsListing, E

Listing(lines) ==
  LET entries[n \in 0 .. Len(lines)] ==
        IF n = 0 THEN <<>>
        ELSE IF EntryOf(lines[n]).relname = <<>> THEN entries[n - 1]
        ELSE Append(entries[n - 1], EntryOf(lines[n]))
  IN entries[Len(lines)]

LEMMA ListingIs ==
  ASSUME NEW p \in Seq(Texts), NEW f, IsListing(f, p)
  PROVE  Listing(p) = f[Len(p)]
<1> DEFINE n == Len(p)
           P(h) == h = [i \in 0 .. n |->
                          IF i = 0 THEN <<>>
                          ELSE IF EntryOf(p[i]).relname = <<>> THEN h[i - 1]
                          ELSE Append(h[i - 1], EntryOf(p[i]))]
           c == CHOOSE h : P(h)
<1>0. n \in Nat
  BY LenProperties
<1>1. Listing(p) = c[n]
  BY DEF Listing
<1>2. P(f)
  <2> DEFINE h == [i \in 0 .. n |-> IF i = 0 THEN <<>>
                          ELSE IF EntryOf(p[i]).relname = <<>> THEN f[i - 1]
                          ELSE Append(f[i - 1], EntryOf(p[i]))]
  <2>1. ASSUME NEW i \in 0 .. n PROVE h[i] = f[i]
    <3>1. CASE i = 0
      BY <3>1 DEF IsListing
    <3>2. CASE i # 0
      <4>1. i \in 1 .. n /\ h[i] = WithEntry(f[i - 1], p[i])
        BY <1>0, <3>2 DEF WithEntry
      <4> QED
        BY <4>1 DEF IsListing
    <3> QED
      BY <3>1, <3>2
  <2>2. h = f
    BY <2>1 DEF IsListing
  <2> QED
    BY <2>2
<1>3. P(c)
  BY <1>2
<1>4. c[0] = <<>> /\ \A i \in 1 .. n : c[i] = WithEntry(c[i - 1], p[i])
  <2> HIDE DEF c
  <2>1. 0 \in 0 .. n /\ c[0] = <<>>
    BY <1>0, <1>3
  <2>2. ASSUME NEW i \in 1 .. n PROVE c[i] = WithEntry(c[i - 1], p[i])
    <3>1. i \in 0 .. n /\ i # 0
      OBVIOUS
    <3> QED
      BY <1>3, <3>1 DEF WithEntry
  <2> QED
    BY <2>1, <2>2
<1> HIDE DEF P, c
<1> DEFINE T == {i \in 0 .. n : c[i] = f[i]}
<1>5. 0 \in T
  BY <1>0, <1>4 DEF IsListing
<1>6. ASSUME NEW i \in 1 .. n, i - 1 \in T PROVE i \in T
  <2>1. c[i - 1] = f[i - 1]
    BY <1>6
  <2> QED
    BY <1>4, <2>1 DEF IsListing
<1> HIDE DEF T
<1>7. \A i \in 0 .. n : i \in T
  BY <1>0, <1>5, <1>6, UpTo
<1>8. c[n] = f[n]
  BY <1>0, <1>7 DEF T
<1> QED
  BY <1>1, <1>8

LEMMA ListingType ==
  ASSUME NEW p \in Seq(Texts)
  PROVE  Listing(p) \in Seq(Entry)
<1>1. PICK f : IsListing(f, p)
  BY ListingExists
<1>2. Len(p) \in Nat /\ Listing(p) = f[Len(p)]
  BY <1>1, ListingIs, LenProperties
<1> QED
  BY <1>1, <1>2 DEF IsListing

LEMMA ListingNothing == Listing(<<>>) = <<>>
<1>1. <<>> \in Seq(Texts) /\ Len(<<>>) = 0
  BY EmptySeq
<1>2. PICK f : IsListing(f, <<>>)
  BY <1>1, ListingExists
<1>3. Listing(<<>>) = f[Len(<<>>)]
  BY <1>1, <1>2, ListingIs
<1> QED
  BY <1>1, <1>2, <1>3 DEF IsListing

LEMMA ListingNext ==
  ASSUME NEW p \in Seq(Texts), NEW s \in Texts
  PROVE  Listing(Append(p, s)) = WithEntry(Listing(p), s)
<1> DEFINE q == Append(p, s)
           n == Len(p)
<1>1. /\ n \in Nat /\ q \in Seq(Texts) /\ Len(q) = n + 1 /\ q[n + 1] = s
      /\ \A i \in 1 .. n : q[i] = p[i]
  BY LenProperties, AppendProperties
<1> HIDE DEF q
<1>2. PICK f : IsListing(f, q)
  BY <1>1, ListingExists
<1>3. /\ f \in [0 .. n + 1 -> Seq(Entry)] /\ f[0] = <<>>
      /\ \A i \in 1 .. n + 1 : f[i] = WithEntry(f[i - 1], q[i])
  BY <1>1, <1>2 DEF IsListing
<1> DEFINE g == [i \in 0 .. n |-> f[i]]
<1>4. IsListing(g, p)
  <2>1. g \in [0 .. n -> Seq(Entry)] /\ g[0] = <<>>
    BY <1>1, <1>3
  <2>2. ASSUME NEW i \in 1 .. n PROVE g[i] = WithEntry(g[i - 1], p[i])
    <3>1. i \in 1 .. n + 1 /\ g[i] = f[i] /\ g[i - 1] = f[i - 1]
      BY <1>1
    <3> QED
      BY <1>1, <1>3, <3>1
  <2> HIDE DEF g
  <2> QED
    BY <1>1, <2>1, <2>2 DEF IsListing
<1>5. g[n] = f[n]
  BY <1>1
<1> HIDE DEF g
<1>6. Listing(q) = f[n + 1] /\ Listing(p) = f[n]
  BY <1>1, <1>2, <1>4, <1>5, ListingIs
<1>7. n + 1 \in 1 .. n + 1 /\ n + 1 - 1 = n
  BY <1>1
<1> QED
  BY <1>1, <1>3, <1>6, <1>7 DEF q

-----------------------------------------------------------------------------
(* A text ends in a piece that grows, until a separator begins the next.   *)
LEMMA LastGrows ==
  ASSUME NEW q \in Seq(Texts), NEW r \in Texts, NEW c \in Char, NEW separator
  PROVE  Extended(Append(q, r), c, separator) =
           IF c = separator THEN Append(Append(q, r), <<>>) ELSE Append(q, Append(r, c))
<1> DEFINE p == Append(q, r)
           x == Append(r, c)
           u == [p EXCEPT ![Len(p)] = x]
           v == Append(q, x)
           n == Len(q)
<1>1. x \in Texts
  BY AppendProperties DEF Texts
<1> HIDE DEF x
<1>2. /\ p \in Seq(Texts) /\ Len(p) = n + 1 /\ n \in Nat /\ p[n + 1] = r
      /\ \A i \in 1 .. n : p[i] = q[i]
  BY AppendProperties, LenProperties
<1>3. /\ v \in Seq(Texts) /\ Len(v) = n + 1 /\ v[n + 1] = x
      /\ \A i \in 1 .. n : v[i] = q[i]
  BY <1>1, AppendProperties, LenProperties
<1> HIDE DEF p, v
<1>4. Len(p) \in 1 .. Len(p)
  BY <1>2
<1>5. /\ u \in Seq(Texts) /\ Len(u) = n + 1
      /\ \A i \in 1 .. n + 1 : u[i] = IF i = n + 1 THEN x ELSE p[i]
  BY <1>1, <1>2, <1>4, ExceptSeq
<1> HIDE DEF u
<1>6. \A i \in 1 .. Len(u) : u[i] = v[i]
  BY <1>2, <1>3, <1>5
<1>7. u = v
  BY <1>3, <1>5, <1>6, SeqEqual
<1>8. [p EXCEPT ![Len(p)] = Append(@, c)] = u
  BY <1>2 DEF u, x
<1> QED
  BY <1>7, <1>8 DEF Extended, p, v, x

LEMMA SplitGrows ==
  ASSUME NEW t \in Texts, NEW m \in 1 .. Len(t), NEW separator,
         NEW q \in Seq(Texts), NEW r \in Texts,
         SplitAt(SubSeq(t, 1, m - 1), separator) = Append(q, r)
  PROVE  SplitAt(SubSeq(t, 1, m), separator) =
           IF t[m] = separator THEN Append(Append(q, r), <<>>)
           ELSE Append(q, Append(r, t[m]))
<1>1. t[m] \in Char
  BY ElementOfSeq DEF Texts
<1>2. SplitAt(SubSeq(t, 1, m), separator) = Extended(Append(q, r), t[m], separator)
  BY SplitNext
<1> DEFINE c == t[m]
<1> HIDE DEF c
<1>4. c \in Char
  BY <1>1 DEF c
<1>3. Extended(Append(q, r), c, separator) =
        IF c = separator THEN Append(Append(q, r), <<>>) ELSE Append(q, Append(r, c))
  BY <1>4, LastGrows
<1> QED
  BY <1>2, <1>3 DEF c

LEMMA PieceGrows ==
  ASSUME NEW t \in Texts, NEW a \in 1 .. Len(t), NEW b \in a .. Len(t)
  PROVE  SubSeq(t, a, b) = Append(SubSeq(t, a, b - 1), t[b])
<1> DEFINE y == b - 1
           s == SubSeq(t, a, y)
           u == SubSeq(t, a, b)
           v == Append(s, t[b])
           n == b - a
<1>0. Len(t) \in Nat /\ t[b] \in Char
  BY LenProperties, ElementOfSeq DEF Texts
<1>1. /\ a \in Int /\ b \in Int /\ y \in Int /\ 1 <= a /\ b <= Len(t) /\ y <= Len(t)
      /\ (IF a <= b THEN b - a + 1 ELSE 0) = n + 1 /\ (IF a <= y THEN y - a + 1 ELSE 0) = n
      /\ n \in Nat /\ y - a + 1 = n /\ b - a + 1 = n + 1 /\ a + (n + 1) - 1 = b
  BY <1>0
<1> HIDE DEF y
<1>2. /\ u \in Texts /\ Len(u) = n + 1 /\ \A i \in 1 .. n + 1 : u[i] = t[a + i - 1]
      /\ s \in Texts /\ Len(s) = n /\ \A i \in 1 .. n : s[i] = t[a + i - 1]
  <2>1. u \in Texts /\ Len(u) = n + 1 /\ \A i \in 1 .. b - a + 1 : u[i] = t[a + i - 1]
    BY <1>1, PieceIs
  <2>2. s \in Texts /\ Len(s) = n /\ \A i \in 1 .. y - a + 1 : s[i] = t[a + i - 1]
    BY <1>1, PieceIs
  <2> QED
    BY <1>1, <2>1, <2>2
<1> HIDE DEF s, u
<1>3. /\ v \in Texts /\ Len(v) = n + 1 /\ v[n + 1] = t[b]
      /\ \A i \in 1 .. n : v[i] = s[i]
  <2> DEFINE c == t[b]
  <2> HIDE DEF c
  <2>1. s \in Seq(Char) /\ c \in Char
    BY <1>0, <1>2 DEF Texts, c
  <2>2. /\ Append(s, c) \in Seq(Char) /\ Len(Append(s, c)) = Len(s) + 1
        /\ \A i \in 1 .. Len(s) : Append(s, c)[i] = s[i]
        /\ Append(s, c)[Len(s) + 1] = c
    BY <2>1, AppendProperties
  <2> QED
    BY <1>2, <2>2 DEF Texts, c
<1> HIDE DEF v
<1>4. \A i \in 1 .. n + 1 : u[i] = v[i]
  BY <1>1, <1>2, <1>3
<1>5. u = v
  BY <1>2, <1>3, <1>4, SeqEqual DEF Texts
<1> QED
  BY <1>5 DEF u, v, s, y

(* At the beginning of a line and inside of it.                            *)
LEMMA LineSplit ==
  ASSUME NEW t \in Texts, NEW b \in 1 .. Len(t) + 1, NEW separator,
         b = 1 \/ t[b - 1] = separator
  PROVE  \E q \in Seq(Texts) :
           \A i \in b - 1 .. Len(t) :
             (\A k \in b .. i : t[k] # separator) =>
               SplitAt(SubSeq(t, 1, i), separator) = Append(q, SubSeq(t, b, i))
<1> DEFINE n == Len(t)
           Sp(i) == SplitAt(SubSeq(t, 1, i), separator)
<1>0. n \in Nat /\ b \in Int /\ <<>> \in Texts
  BY LenProperties, EmptySeq DEF Texts
<1>1. \E q \in Seq(Texts) : Sp(b - 1) = Append(q, <<>>)
  <2>1. CASE b = 1
    <3>1. SubSeq(t, 1, b - 1) = <<>> /\ <<>> \in Seq(Texts) /\ << <<>> >> = Append(<<>>, <<>>)
      BY <2>1, SubSeqEmpty, EmptySeq
    <3>2. Sp(b - 1) = << <<>> >>
      BY <3>1, SplitNothing
    <3> HIDE DEF Sp
    <3> QED
      BY <3>1, <3>2
  <2>2. CASE b # 1
    <3>1. b - 1 \in 1 .. n /\ t[b - 1] = separator /\ b - 1 - 1 \in 0 .. n
      BY <1>0, <2>2
    <3> DEFINE m == b - 1
               s == SubSeq(t, 1, m - 1)
    <3>2. s \in Texts
      BY <3>1, BeginningIs
    <3>3. Sp(m - 1) \in Pieces
      BY <3>2, SplitType
    <3> HIDE DEF s
    <3>4. Sp(m) = Extended(Sp(m - 1), t[m], separator)
      BY <3>1, SplitNext
    <3> HIDE DEF Sp
    <3>5. Sp(m) = Append(Sp(m - 1), <<>>) /\ Sp(m - 1) \in Seq(Texts)
      BY <3>1, <3>3, <3>4 DEF Extended, Pieces
    <3> QED
      BY <3>5
  <2> QED
    BY <2>1, <2>2
<1>2. PICK q \in Seq(Texts) : Sp(b - 1) = Append(q, <<>>)
  BY <1>1
<1> DEFINE c == b - 1
           z == n - c
           Good(i) == (\A k \in b .. i : t[k] # separator) => Sp(i) = Append(q, SubSeq(t, b, i))
           T == {x \in 0 .. z : Good(c + x)}
<1>3. z \in Nat /\ c \in Int
  BY <1>0
<1>4. 0 \in T
  <2>1. SubSeq(t, b, c) = <<>> /\ c + 0 = c
    BY <1>0, SubSeqEmpty
  <2> HIDE DEF Sp
  <2>2. Good(c + 0)
    BY <1>2, <2>1
  <2> QED
    BY <1>3, <2>2
<1>5. ASSUME NEW x \in 1 .. z, x - 1 \in T PROVE x \in T
  <2> DEFINE i == c + x
  <2>1. /\ i \in 1 .. n /\ b \in 1 .. n /\ i \in b .. n /\ i - 1 = c + (x - 1)
        /\ i \in Int /\ i - 1 \in Int /\ i - 1 <= n
    BY <1>0, <1>3
  <2>2. Good(i - 1)
    BY <1>5, <2>1
  <2> HIDE DEF i
  <2>3. ASSUME \A k \in b .. i : t[k] # separator PROVE Sp(i) = Append(q, SubSeq(t, b, i))
    <3>1. Sp(i - 1) = Append(q, SubSeq(t, b, i - 1))
      <4>1. \A k \in b .. i - 1 : t[k] # separator
        BY <2>1, <2>3
      <4> HIDE DEF Sp
      <4> QED
        BY <2>2, <4>1
    <3> DEFINE y == i - 1
               r == SubSeq(t, b, y)
    <3>2. r \in Texts
      <4>1. y \in Int /\ 1 <= b /\ y <= n
        BY <1>0, <2>1
      <4> HIDE DEF y
      <4> QED
        BY <1>0, <4>1, PieceIs
    <3>3. t[i] # separator
      BY <2>1, <2>3
    <3>4. SubSeq(t, b, i) = Append(r, t[i])
      BY <2>1, PieceGrows
    <3>5. Sp(i - 1) = Append(q, r)
      BY <3>1
    <3> HIDE DEF r
    <3>6. Sp(i) = IF t[i] = separator THEN Append(Append(q, r), <<>>) ELSE Append(q, Append(r, t[i]))
      BY <2>1, <3>2, <3>5, SplitGrows
    <3> HIDE DEF Sp
    <3> QED
      BY <3>3, <3>4, <3>6
  <2>4. Good(i)
    BY <2>3
  <2> HIDE DEF Good
  <2> QED
    BY <2>4 DEF i
<1> HIDE DEF T
<1>6. \A x \in 0 .. z : x \in T
  BY <1>3, <1>4, <1>5, UpTo
<1>7. ASSUME NEW i \in b - 1 .. n PROVE Good(i)
  <2>1. i - c \in 0 .. z /\ c + (i - c) = i
    BY <1>0, <1>3
  <2> HIDE DEF Good, z, c
  <2>2. i - c \in T
    BY <1>6, <2>1
  <2>3. Good(c + (i - c))
    BY <2>2 DEF T
  <2> QED
    BY <2>1, <2>3
<1> QED
  BY <1>7

-----------------------------------------------------------------------------
(* The list grows line by line.                                            *)
LEMMA NothingAdded ==
  ASSUME NEW entries
  PROVE  WithEntry(entries, <<>>) = entries
<1>1. EntryOf(<<>>).relname = <<>>
  BY NothingSaid DEF NoText
<1> QED
  BY <1>1 DEF WithEntry

LEMMA ListedIsListing ==
  ASSUME NEW t
  PROVE  ListedBy(t) = Listing(SplitAt(t, "\n"))
BY DEF ListedBy, Listing

LEMMA LineStart ==
  ASSUME NEW t \in Texts, NEW b \in 1 .. Len(t) + 1, b = 1 \/ t[b - 1] = "\n"
  PROVE  \E q \in Seq(Texts) :
           /\ ListedBy(SubSeq(t, 1, b - 1)) = Listing(q)
           /\ \A i \in b - 1 .. Len(t) :
                (\A k \in b .. i : t[k] # "\n") =>
                  SplitAt(SubSeq(t, 1, i), "\n") = Append(q, SubSeq(t, b, i))
<1>0. Len(t) \in Nat /\ b \in Int /\ <<>> \in Texts
  BY LenProperties, EmptySeq DEF Texts
<1>1. PICK q \in Seq(Texts) :
        \A i \in b - 1 .. Len(t) :
          (\A k \in b .. i : t[k] # "\n") =>
            SplitAt(SubSeq(t, 1, i), "\n") = Append(q, SubSeq(t, b, i))
  BY LineSplit
<1>2. SplitAt(SubSeq(t, 1, b - 1), "\n") = Append(q, <<>>)
  <2>1. b - 1 \in b - 1 .. Len(t) /\ \A k \in b .. b - 1 : t[k] # "\n"
    BY <1>0
  <2>2. SubSeq(t, b, b - 1) = <<>>
    BY <1>0, SubSeqEmpty
  <2> QED
    BY <1>1, <2>1, <2>2
<1>3. ListedBy(SubSeq(t, 1, b - 1)) = Listing(Append(q, <<>>))
  BY <1>2, ListedIsListing
<1>4. Listing(Append(q, <<>>)) = Listing(q)
  BY <1>0, ListingNext, NothingAdded
<1> QED
  BY <1>1, <1>3, <1>4

LEMMA ListedLine ==
  ASSUME NEW t \in Texts, NEW b \in 1 .. Len(t) + 1, b = 1 \/ t[b - 1] = "\n",
         NEW e \in b .. Len(t) + 1, e = Len(t) + 1 \/ t[e] = "\n",
         \A k \in b .. e - 1 : t[k] # "\n"
  PROVE  ListedBy(SubSeq(t, 1, IF e > Len(t) THEN Len(t) ELSE e))
           = WithEntry(ListedBy(SubSeq(t, 1, b - 1)), SubSeq(t, b, e - 1))
<1> DEFINE n == Len(t)
           s == SubSeq(t, b, e - 1)
<1>0. n \in Nat /\ b \in Int /\ e \in Int /\ <<>> \in Texts
  BY LenProperties, EmptySeq DEF Texts
<1>1. PICK q \in Seq(Texts) :
        /\ ListedBy(SubSeq(t, 1, b - 1)) = Listing(q)
        /\ \A i \in b - 1 .. n :
             (\A k \in b .. i : t[k] # "\n") =>
               SplitAt(SubSeq(t, 1, i), "\n") = Append(q, SubSeq(t, b, i))
  BY LineStart
<1>2. SplitAt(SubSeq(t, 1, e - 1), "\n") = Append(q, s)
  <2>1. e - 1 \in b - 1 .. n
    BY <1>0
  <2> QED
    BY <1>1, <2>1
<1>3. s \in Texts
  <2> DEFINE y == e - 1
  <2>1. y \in Int /\ 1 <= b /\ y <= n
    BY <1>0
  <2> HIDE DEF y
  <2>2. SubSeq(t, b, y) \in Texts
    BY <1>0, <2>1, PieceIs
  <2> QED
    BY <2>2 DEF y
<1> HIDE DEF s
<1>4. Append(q, s) \in Seq(Texts) /\ Listing(Append(q, s)) = WithEntry(Listing(q), s)
  BY <1>3, AppendProperties, ListingNext
<1>5. CASE e > n
  <2>1. e - 1 = n
    BY <1>0, <1>5
  <2>2. ListedBy(SubSeq(t, 1, n)) = Listing(Append(q, s))
    BY <1>2, <2>1, ListedIsListing
  <2> QED
    BY <1>1, <1>4, <1>5, <2>2 DEF s
<1>6. CASE e <= n
  <2>1. e \in 1 .. n /\ t[e] = "\n" /\ ~(e > n)
    BY <1>0, <1>6
  <2>2. SplitAt(SubSeq(t, 1, e), "\n") = Append(Append(q, s), <<>>)
    <3>1. SplitAt(SubSeq(t, 1, e), "\n") =
            IF t[e] = "\n" THEN Append(Append(q, s), <<>>) ELSE Append(q, Append(s, t[e]))
      <4>1. q \in Seq(Texts) /\ s \in Texts /\ e \in 1 .. Len(t) /\ t \in Texts
            /\ SplitAt(SubSeq(t, 1, e - 1), "\n") = Append(q, s)
        BY <1>2, <1>3, <2>1
      <4> QED
        BY <4>1, SplitGrows
    <3> QED
      BY <2>1, <3>1
  <2>3. ListedBy(SubSeq(t, 1, e)) = Listing(Append(Append(q, s), <<>>))
    BY <2>2, ListedIsListing
  <2>4. Listing(Append(Append(q, s), <<>>)) = Listing(Append(q, s))
    BY <1>0, <1>4, ListingNext, NothingAdded
  <2> QED
    BY <1>1, <1>4, <2>1, <2>3, <2>4 DEF s
<1> QED
  BY <1>0, <1>5, <1>6

(* A row that begins with another one.                                     *)
Starts(x, y) == Len(x) <= Len(y) /\ \A i \in 1 .. Len(x) : y[i] = x[i]

LEMMA MoreStarts ==
  ASSUME NEW a \in Seq(Entry), NEW x \in Seq(Entry), NEW s \in Texts, Starts(a, x)
  PROVE  Starts(a, WithEntry(x, s))
<1>1. EntryOf(s) \in Entry
  BY EntryType
<1>2. /\ Len(a) \in Nat /\ Len(x) \in Nat /\ Len(Append(x, EntryOf(s))) = Len(x) + 1
      /\ \A i \in 1 .. Len(x) : Append(x, EntryOf(s))[i] = x[i]
  BY <1>1, AppendProperties, LenProperties
<1>3. Starts(a, Append(x, EntryOf(s)))
  BY <1>2 DEF Starts
<1> QED
  BY <1>3 DEF WithEntry

(* What the lines of a beginning list is listed first.                     *)
LEMMA ListedOnward ==
  ASSUME NEW t \in Texts, NEW m \in 0 .. Len(t), m = 0 \/ t[m] = "\n" \/ m = Len(t)
  PROVE  /\ ListedBy(SubSeq(t, 1, m)) \in Seq(Entry) /\ ListedBy(t) \in Seq(Entry)
         /\ Starts(ListedBy(SubSeq(t, 1, m)), ListedBy(t))
<1> DEFINE n == Len(t)
           Sp(i) == SplitAt(SubSeq(t, 1, i), "\n")
           L(i) == ListedBy(SubSeq(t, 1, i))
<1>0. n \in Nat /\ m \in Int
  BY LenProperties DEF Texts
<1>9. <<>> \in Texts
  BY EmptySeq DEF Texts
<1>1. ASSUME NEW i \in 0 .. n PROVE L(i) \in Seq(Entry)
  <2>1. SubSeq(t, 1, i) \in Texts
    BY BeginningIs
  <2>2. Sp(i) \in Seq(Texts)
    BY <2>1, SplitType DEF Pieces
  <2>3. L(i) = Listing(Sp(i))
    BY ListedIsListing
  <2> HIDE DEF Sp, L
  <2> QED
    BY <2>2, <2>3, ListingType
<1>2. Starts(L(m), L(n))
  <2>1. CASE m = n
    <3>1. L(m) = L(n) /\ L(n) \in Seq(Entry)
      BY <1>0, <1>1, <2>1
    <3> HIDE DEF L
    <3>2. Len(L(n)) \in Nat
      BY <3>1, LenProperties
    <3> QED
      BY <3>1, <3>2 DEF Starts
  <2>2. CASE m # n
    <3> DEFINE b == m + 1
               z == n - m
    <3>1. b \in 1 .. n + 1 /\ b - 1 = m /\ (b = 1 \/ t[b - 1] = "\n") /\ z \in Nat
      BY <1>0, <2>2
    <3>2. PICK q \in Seq(Texts) :
            /\ ListedBy(SubSeq(t, 1, b - 1)) = Listing(q)
            /\ \A i \in b - 1 .. n :
                 (\A k \in b .. i : t[k] # "\n") =>
                   SplitAt(SubSeq(t, 1, i), "\n") = Append(q, SubSeq(t, b, i))
      <4> HIDE DEF b
      <4> QED
        BY <3>1, LineStart
    <3>3. L(m) = Listing(q) /\ Listing(q) \in Seq(Entry)
      BY <3>1, <3>2, ListingType
    <3> DEFINE T == {x \in 0 .. z : \E p \in Seq(Texts) : \E r \in Texts :
                                      Sp(m + x) = Append(p, r) /\ Starts(Listing(q), Listing(p))}
    <3>4. 0 \in T
      <4>1. Sp(m) = Append(q, <<>>)
        <5>1. m \in b - 1 .. n /\ \A k \in b .. m : t[k] # "\n"
          BY <1>0, <3>1
        <5>2. SubSeq(t, b, m) = <<>>
          BY <1>0, SubSeqEmpty
        <5> QED
          BY <3>2, <5>1, <5>2
      <4>2. Starts(Listing(q), Listing(q))
        <5>1. Len(Listing(q)) \in Nat
          BY <3>3, LenProperties
        <5> QED
          BY <5>1 DEF Starts
      <4>3. m + 0 = m /\ 0 \in 0 .. z
        BY <1>0, <3>1
      <4> HIDE DEF Sp
      <4> QED
        BY <1>9, <4>1, <4>2, <4>3
    <3>5. ASSUME NEW x \in 1 .. z, x - 1 \in T PROVE x \in T
      <4> DEFINE i == m + x
      <4>1. i \in 1 .. n /\ i - 1 = m + (x - 1)
        BY <1>0, <3>1
      <4>2. PICK p \in Seq(Texts), r \in Texts :
              Sp(i - 1) = Append(p, r) /\ Starts(Listing(q), Listing(p))
        BY <3>5, <4>1
      <4>3. t[i] \in Char
        BY <4>1, ElementOfSeq DEF Texts
      <4> HIDE DEF i
      <4>4. Sp(i) = IF t[i] = "\n" THEN Append(Append(p, r), <<>>) ELSE Append(p, Append(r, t[i]))
        BY <4>1, <4>2, SplitGrows
      <4> HIDE DEF Sp
      <4>5. CASE t[i] = "\n"
        <5>1. Append(p, r) \in Seq(Texts) /\ Listing(Append(p, r)) = WithEntry(Listing(p), r)
              /\ Listing(p) \in Seq(Entry)
          BY AppendProperties, ListingNext, ListingType
        <5>2. Starts(Listing(q), Listing(Append(p, r)))
          BY <3>3, <4>2, <5>1, MoreStarts
        <5>3. Sp(i) = Append(Append(p, r), <<>>)
          BY <4>4, <4>5
        <5>4. NoText \in Texts /\ Sp(i) = Append(Append(p, r), NoText)
          BY <1>9, <5>3 DEF NoText
        <5>5. \E p1 \in Seq(Texts) : \E r1 \in Texts :
                Sp(i) = Append(p1, r1) /\ Starts(Listing(q), Listing(p1))
          BY <5>1, <5>2, <5>4
        <5> QED
          BY <5>5 DEF i
      <4>6. CASE t[i] # "\n"
        <5> DEFINE c == t[i]
                   u == Append(r, c)
        <5>1. u \in Texts
          <6> HIDE DEF c
          <6>1. c \in Char /\ r \in Seq(Char)
            BY <4>3 DEF c, Texts
          <6>2. Append(r, c) \in Seq(Char)
            BY <6>1, AppendProperties
          <6> QED
            BY <6>2 DEF Texts
        <5>2. Sp(i) = Append(p, u)
          BY <4>4, <4>6
        <5> HIDE DEF u
        <5> QED
          BY <4>2, <5>1, <5>2 DEF i
      <4> QED
        BY <4>5, <4>6
    <3> HIDE DEF T
    <3>6. \A x \in 0 .. z : x \in T
      <4> HIDE DEF z
      <4> QED
        BY <3>1, <3>4, <3>5, UpTo
    <3>7. PICK p \in Seq(Texts), r \in Texts :
            Sp(n) = Append(p, r) /\ Starts(Listing(q), Listing(p))
      <4>1. z \in T /\ m + z = n
        BY <1>0, <3>1, <3>6
      <4> HIDE DEF Sp, z
      <4> QED
        BY <4>1 DEF T
    <3>8. L(n) = Listing(Sp(n))
      BY ListedIsListing
    <3>9. L(n) = WithEntry(Listing(p), r) /\ Listing(p) \in Seq(Entry)
      <4> HIDE DEF L, Sp
      <4> QED
        BY <3>7, <3>8, ListingNext, ListingType
    <3> HIDE DEF L, Sp
    <3> QED
      BY <3>3, <3>7, <3>9, MoreStarts
  <2> QED
    BY <2>1, <2>2
<1>3. L(m) \in Seq(Entry) /\ L(n) \in Seq(Entry)
  BY <1>0, <1>1
<1>4. SubSeq(t, 1, n) = t
  BY SubSeqFull DEF Texts
<1> QED
  BY <1>2, <1>3, <1>4

-----------------------------------------------------------------------------
(* The list, line by line.                                                 *)
Done == IF line > Len(table_text) THEN Len(table_text) ELSE line - 1

LineBegins == line = 1 \/ line = Len(list) + 1 \/ table_text[line - 1] = "\n"

(* A pointer into a line that is cut has its NUL there.                    *)
Ends(i, text, b) == i \in 1 .. b - 1 /\ \E j \in i .. b - 1 : text[j] = ListNul

Pointers ==
  /\ tables \in Seq(Nat) /\ queries \in Seq(Nat) /\ Len(queries) = Len(tables)
  /\ \A k \in 1 .. Len(tables) :
       Ends(tables[k], list, line) /\ (queries[k] = 0 \/ Ends(queries[k], list, line))

(* Nothing is looked at but the text and the place behind it.              *)
Reached == reach \in 0 .. Len(list) + 1

(* What is pointed to is what the lines say.                               *)
Task(k) == [relname |-> StringAt(list, tables[k]), query |-> StringAt(list, queries[k])]

Listed ==
  LET said == ListedBy(SubSeq(table_text, 1, Done))
  IN Len(said) = Len(tables) /\ \A k \in 1 .. Len(tables) : said[k] = Task(k)

(* No line has two entries.                                                *)
Breaks(m) == {i \in 1 .. Len(table_text) : table_text[i] = "\n" /\ i < m}
Counted ==
  /\ slots = Cardinality({i \in DOMAIN table_text : table_text[i] = "\n"}) + 1 + 1
  /\ Len(tables) <= Cardinality(Breaks(line)) + (IF line > Len(list) THEN 1 ELSE 0)

ListCut == ListRead /\ LineBegins /\ Pointers /\ Reached /\ Listed /\ Counted

(* A string keeps what it is while later lines are cut.                    *)
LEMMA StringKeeps ==
  ASSUME NEW d \in Texts, NEW c \in Texts, Len(c) = Len(d), NEW b \in 1 .. Len(d) + 1,
         \A i \in 1 .. b - 1 : c[i] = d[i],
         NEW i \in 1 .. b - 1, NEW j \in i .. b - 1, d[j] = ListNul
  PROVE  StringAt(c, i) = StringAt(d, i)
<1> DEFINE k == Find(d, i, j, {ListNul})
<1>0. Len(d) \in Nat /\ b \in Int /\ i \in Int /\ j \in Int /\ i <= j /\ j <= b - 1 /\ 1 <= i /\ b - 1 <= Len(d)
  BY LenProperties DEF Texts
<1>1. /\ k \in i .. j /\ (k = j \/ d[k] = ListNul)
      /\ \A m \in i .. k - 1 : d[m] # ListNul
  BY <1>0, FindIs
<1> HIDE DEF k
<1>2. k \in i .. Len(d) /\ i \in 1 .. Len(d) /\ d[k] = ListNul /\ c[k] = ListNul
  <2>1. k \in 1 .. b - 1 /\ k \in i .. Len(d) /\ i \in 1 .. Len(d)
    BY <1>0, <1>1
  <2> QED
    BY <1>1, <2>1
<1>3. \A m \in i .. k - 1 : c[m] = d[m]
  BY <1>0, <1>1
<1>4. \A m \in i .. k - 1 : c[m] # ListNul
  BY <1>1, <1>3
<1>5. StringAt(d, i) = SubSeq(d, i, k - 1)
  BY <1>1, <1>2, StringIs
<1>6. StringAt(c, i) = SubSeq(c, i, k - 1)
  BY <1>2, <1>4, StringIs
<1>7. SubSeq(c, i, k - 1) = SubSeq(d, i, k - 1)
  <2> DEFINE y == k - 1
  <2>1. y \in Int /\ y <= Len(d) /\ y <= Len(c)
    BY <1>0, <1>1
  <2>2. \A m \in i .. y : c[m] = d[m]
    BY <1>3
  <2> HIDE DEF y
  <2>3. SubSeq(c, i, y) = SubSeq(d, i, y)
    BY <1>0, <2>1, <2>2, SamePiece
  <2> QED
    BY <2>3 DEF y
<1> QED
  BY <1>5, <1>6, <1>7

LEMMA BreaksGrow ==
  ASSUME table_text \in Texts, NEW b \in 1 .. Len(table_text) + 1,
         NEW e \in b .. Len(table_text) + 1
  PROVE  /\ Cardinality(Breaks(b)) \in Nat /\ Cardinality(Breaks(e + 1)) \in Nat
         /\ Cardinality(Breaks(b)) <= Cardinality(Breaks(e + 1))
         /\ e <= Len(table_text) /\ table_text[e] = "\n" =>
              Cardinality(Breaks(b)) + 1 <= Cardinality(Breaks(e + 1))
<1>0. Len(table_text) \in Nat /\ b \in Int /\ e \in Int
  BY LenProperties DEF Texts
<1>1. IsFiniteSet(1 .. Len(table_text))
  BY <1>0, FS_Interval
<1>2. IsFiniteSet(Breaks(b)) /\ IsFiniteSet(Breaks(e + 1))
  BY <1>1, FS_Subset DEF Breaks
<1>3. Breaks(b) \subseteq Breaks(e + 1)
  BY <1>0 DEF Breaks
<1>4. /\ Cardinality(Breaks(b)) \in Nat /\ Cardinality(Breaks(e + 1)) \in Nat
      /\ Cardinality(Breaks(b)) <= Cardinality(Breaks(e + 1))
  BY <1>2, <1>3, FS_CardinalityType, FS_Subset
<1>5. ASSUME e <= Len(table_text), table_text[e] = "\n"
      PROVE  Cardinality(Breaks(b)) + 1 <= Cardinality(Breaks(e + 1))
  <2> DEFINE x == Breaks(b) \union {e}
  <2>1. e \notin Breaks(b) /\ x \subseteq Breaks(e + 1)
    BY <1>0, <1>3, <1>5 DEF Breaks
  <2>2. Cardinality(x) = Cardinality(Breaks(b)) + 1
    BY <1>2, <2>1, FS_AddElement
  <2>3. Cardinality(x) <= Cardinality(Breaks(e + 1))
    BY <1>2, <2>1, FS_Subset
  <2> QED
    BY <2>2, <2>3
<1> QED
  BY <1>4, <1>5

(* A line that is cut leaves all this true.                                *)
LEMMA CutKeeps ==
  ASSUME CharAssumption, ListCut, CutLine, UNCHANGED table_text
  PROVE  ListCut'
<1> DEFINE n == Len(table_text)
           said == ListedBy(SubSeq(table_text, 1, Done))
           said1 == ListedBy(SubSeq(table_text, 1, Done'))
<1>0. /\ n \in Nat /\ Len(list) = n + 1 /\ table_text \in Texts /\ list \in Texts
      /\ Len(tables) \in Nat /\ tables \in Seq(Nat) /\ queries \in Seq(Nat)
      /\ Len(queries) = Len(tables) /\ line \in 1 .. n + 1 /\ line \in Int
  <2>1. n \in Nat /\ Len(list) = n + 1 /\ Len(tables) \in Nat
    BY LenProperties DEF ListCut, ListRead, Pointers, Texts
  <2>2. ~(line > n + 1) /\ line \in 1 .. n + 1 + 1
    BY <2>1 DEF CutLine, AtListEnd, Tail0, ListCut, ListRead
  <2> QED
    BY <2>1, <2>2 DEF ListCut, ListRead, Pointers
<1>1. PICK e \in line .. Len(list) : LineCut(e)
  BY CutIs DEF ListCut
<1>2. e \in line .. n + 1 /\ e \in Int /\ line <= e
  BY <1>0, <1>1
<1>3. /\ e = n + 1 \/ table_text[e] = "\n"
      /\ \A i \in line .. e - 1 : table_text[i] # "\n"
      /\ line' = e + 1 /\ slots' = slots /\ list' \in Texts /\ Len(list') = n + 1
      /\ \A i \in 1 .. n + 1 : i \notin line .. e => list'[i] = list[i]
      /\ list'[n + 1] = ListNul
  BY <1>0, <1>1 DEF LineCut
<1>4. ListRead'
  <2>1. \A i \in line' .. n : list'[i] = list[i] /\ list[i] = table_text[i]
    <3> SUFFICES ASSUME NEW i \in e + 1 .. n PROVE list'[i] = list[i] /\ list[i] = table_text[i]
      BY <1>3
    <3>1. i \in 1 .. n + 1 /\ i \notin line .. e /\ i \in line .. n
      BY <1>0, <1>2
    <3> QED
      BY <1>3, <3>1 DEF ListCut, ListRead
  <2>2. line' \in 1 .. n + 1 + 1
    BY <1>0, <1>2, <1>3
  <2> QED
    BY <1>0, <1>3, <2>1, <2>2 DEF ListCut, ListRead
<1>5. LineBegins' /\ Reached'
  <2>1. LineBegins'
    BY <1>0, <1>2, <1>3 DEF LineBegins
  <2>2. reach' \in e .. e + 1 /\ Len(list') = n + 1
    BY <1>1, <1>3 DEF LineCut
  <2>3. reach' \in 0 .. Len(list') + 1
    BY <1>0, <1>2, <2>2
  <2> QED
    BY <2>1, <2>3 DEF Reached
<1>6. /\ line = 1 \/ table_text[line - 1] = "\n"
      /\ SubSeq(table_text, 1, Done) = SubSeq(table_text, 1, line - 1)
      /\ Done' = IF e > n THEN n ELSE e
  <2>1. line = 1 \/ table_text[line - 1] = "\n"
    BY <1>0 DEF ListCut, LineBegins
  <2>2. Done = line - 1
    BY <1>0 DEF Done
  <2>3. Done' = IF e > n THEN n ELSE e
    BY <1>0, <1>2, <1>3 DEF Done
  <2> QED
    BY <2>1, <2>2, <2>3
<1> DEFINE s == SubSeq(table_text, line, e - 1)
<1>7. said1 = WithEntry(said, s)
  <2>1. ListedBy(SubSeq(table_text, 1, IF e > n THEN n ELSE e))
          = WithEntry(ListedBy(SubSeq(table_text, 1, line - 1)), s)
    <3>1. e \in line .. Len(table_text) + 1 /\ (e = Len(table_text) + 1 \/ table_text[e] = "\n")
      BY <1>2, <1>3
    <3> QED
      BY <1>0, <1>3, <1>6, <3>1, ListedLine
  <2> QED
    BY <1>6, <2>1
<1>8. said \in Seq(Entry) /\ s \in Texts
  <2>1. line - 1 \in 0 .. n /\ (line - 1 = 0 \/ table_text[line - 1] = "\n")
    BY <1>0, <1>6
  <2> DEFINE z == line - 1
             y == e - 1
  <2>2. y \in Int /\ 1 <= line /\ y <= n
    BY <1>0, <1>2
  <2> HIDE DEF y, z
  <2>3. ListedBy(SubSeq(table_text, 1, z)) \in Seq(Entry)
    BY <1>0, <2>1, ListedOnward DEF z
  <2>4. SubSeq(table_text, line, y) \in Texts
    BY <1>0, <2>2, PieceIs
  <2> QED
    BY <1>6, <2>3, <2>4 DEF y, z
<1>9. Len(said) = Len(tables) /\ \A k \in 1 .. Len(tables) : said[k] = Task(k)
  BY DEF ListCut, Listed
<1>10. ASSUME NEW i \in 1 .. line - 1, NEW j \in i .. line - 1, list[j] = ListNul
       PROVE  /\ i \in 1 .. line' - 1 /\ \E k \in i .. line' - 1 : list'[k] = ListNul
              /\ StringAt(list', i) = StringAt(list, i)
  <2>1. \A k \in 1 .. line - 1 : list'[k] = list[k]
    <3> SUFFICES ASSUME NEW k \in 1 .. line - 1 PROVE list'[k] = list[k]
      OBVIOUS
    <3>1. k \in 1 .. n + 1 /\ k \notin line .. e
      BY <1>0, <1>2
    <3> QED
      BY <1>3, <3>1
  <2>2. j \in 1 .. line - 1 /\ j \in i .. line' - 1 /\ i \in 1 .. line' - 1
    BY <1>0, <1>2, <1>3
  <2>3. list'[j] = ListNul
    BY <1>10, <2>1, <2>2
  <2>4. line \in 1 .. Len(list) + 1 /\ Len(list') = Len(list)
    BY <1>0, <1>3
  <2>5. StringAt(list', i) = StringAt(list, i)
    BY <1>0, <1>3, <1>10, <2>1, <2>4, StringKeeps
  <2> QED
    BY <2>2, <2>3, <2>5
<1>11. ASSUME NEW k \in 1 .. Len(tables)
       PROVE  /\ Ends(tables[k], list', line') /\ (queries[k] = 0 \/ Ends(queries[k], list', line'))
              /\ StringAt(list', tables[k]) = StringAt(list, tables[k])
              /\ StringAt(list', queries[k]) = StringAt(list, queries[k])
  <2>0. Ends(tables[k], list, line) /\ (queries[k] = 0 \/ Ends(queries[k], list, line))
    BY DEF ListCut, Pointers
  <2> DEFINE a == tables[k]
             q == queries[k]
  <2>1. ASSUME NEW i, Ends(i, list, line)
        PROVE  /\ i \in 1 .. line' - 1 /\ \E j \in i .. line' - 1 : list'[j] = ListNul
               /\ StringAt(list', i) = StringAt(list, i)
    BY <1>10, <2>1 DEF Ends
  <2>2. StringAt(list', 0) = StringAt(list, 0)
    BY DEF StringAt
  <2> QED
    BY <2>0, <2>1, <2>2 DEF Ends
<1> HIDE DEF said, said1, s
<1> DEFINE entry == EntryOf(s)
<1>12. LineEntry(e)
  BY <1>1 DEF LineCut
<1>13. CASE entry.relname = <<>>
  <2>1. tables' = tables /\ queries' = queries
    BY <1>12, <1>13 DEF LineEntry, s
  <2>2. said1 = said
    BY <1>7, <1>13 DEF WithEntry
  <2>3. Pointers'
    BY <1>0, <1>11, <2>1 DEF Pointers, Ends
  <2>4. \A k \in 1 .. Len(tables) : Task(k)' = Task(k)
    BY <1>11, <2>1 DEF Task
  <2>5. Listed'
    <3>1. Len(said1) = Len(tables') /\ \A k \in 1 .. Len(tables') : said1[k] = Task(k)'
      BY <1>9, <2>1, <2>2, <2>4
    <3> QED
      BY <3>1 DEF Listed, said1
  <2>6. Counted'
    <3>1. Cardinality(Breaks(line)) <= Cardinality(Breaks(e + 1))
          /\ Cardinality(Breaks(line)) \in Nat /\ Cardinality(Breaks(e + 1)) \in Nat
      BY <1>0, <1>2, BreaksGrow
    <3>2. Breaks(line)' = Breaks(e + 1)
      BY <1>3 DEF Breaks
    <3>3. Len(tables) <= Cardinality(Breaks(line))
      BY <1>0, <3>1 DEF ListCut, Counted
    <3> QED
      BY <1>0, <1>3, <2>1, <3>1, <3>2, <3>3 DEF ListCut, Counted
  <2> QED
    BY <1>4, <1>5, <2>3, <2>5, <2>6 DEF ListCut
<1>14. CASE entry.relname # <<>>
  <2>1. PICK a \in line .. e, q \in {0} \union (line .. e) :
          /\ tables' = Append(tables, a) /\ queries' = Append(queries, q)
          /\ StringAt(list', a) = entry.relname
          /\ StringAt(list', q) = entry.query
          /\ \E k \in a .. e : list'[k] = ListNul
          /\ q # 0 => \E k \in q .. e : list'[k] = ListNul
    BY <1>12, <1>14 DEF LineEntry, s
  <2> DEFINE m == Len(tables)
  <2>2. /\ tables' \in Seq(Nat) /\ Len(tables') = m + 1 /\ tables'[m + 1] = a
        /\ \A k \in 1 .. m : tables'[k] = tables[k]
        /\ queries' \in Seq(Nat) /\ Len(queries') = m + 1 /\ queries'[m + 1] = q
        /\ \A k \in 1 .. m : queries'[k] = queries[k]
    <3>1. a \in Nat /\ q \in Nat
      BY <1>0, <1>2
    <3> QED
      BY <1>0, <2>1, <3>1, AppendProperties
  <2>3. /\ entry \in Entry /\ said1 = Append(said, entry)
        /\ Len(said1) = m + 1 /\ said1[m + 1] = entry /\ \A k \in 1 .. m : said1[k] = said[k]
    <3>1. entry \in Entry
      BY <1>8, EntryType
    <3>2. said1 = Append(said, entry)
      BY <1>7, <1>14 DEF WithEntry
    <3> HIDE DEF entry
    <3> QED
      BY <1>8, <1>9, <3>1, <3>2, AppendProperties
  <2>4. Ends(a, list', line') /\ (q = 0 \/ Ends(q, list', line'))
    BY <1>0, <1>2, <1>3, <2>1 DEF Ends
  <2>5. Pointers'
    <3>1. ASSUME NEW k \in 1 .. m + 1
          PROVE  Ends(tables'[k], list', line') /\ (queries'[k] = 0 \/ Ends(queries'[k], list', line'))
      <4>1. CASE k = m + 1
        BY <2>2, <2>4, <4>1 DEF Ends
      <4>2. CASE k # m + 1
        <5>1. k \in 1 .. m
          BY <1>0, <4>2
        <5> QED
          BY <1>11, <2>2, <5>1 DEF Ends
      <4> QED
        BY <4>1, <4>2
    <3> QED
      BY <2>2, <3>1 DEF Pointers, Ends
  <2>6. Listed'
    <3>1. ASSUME NEW k \in 1 .. m + 1 PROVE said1[k] = Task(k)'
      <4>1. CASE k = m + 1
        <5>1. entry = [relname |-> entry.relname, query |-> entry.query]
          <6> HIDE DEF entry
          <6> QED
            BY <2>3 DEF Entry
        <5> QED
          BY <2>1, <2>2, <2>3, <4>1, <5>1 DEF Task
      <4>2. CASE k # m + 1
        <5>1. k \in 1 .. m
          BY <1>0, <4>2
        <5> QED
          BY <1>9, <1>11, <2>2, <2>3, <5>1 DEF Task
      <4> QED
        BY <4>1, <4>2
    <3> QED
      BY <2>2, <2>3, <3>1 DEF Listed, said1
  <2>7. Counted'
    <3>0. Breaks(line)' = Breaks(e + 1)
      BY <1>3 DEF Breaks
    <3>1. /\ Cardinality(Breaks(line)) \in Nat /\ Cardinality(Breaks(e + 1)) \in Nat
          /\ Cardinality(Breaks(line)) <= Cardinality(Breaks(e + 1))
          /\ (e <= n /\ table_text[e] = "\n" =>
                Cardinality(Breaks(line)) + 1 <= Cardinality(Breaks(e + 1)))
      BY <1>0, <1>2, BreaksGrow
    <3>2. m <= Cardinality(Breaks(line))
      BY <1>0, <3>1 DEF ListCut, Counted
    <3>3. m + 1 <= Cardinality(Breaks(e + 1)) + (IF e + 1 > n + 1 THEN 1 ELSE 0)
      BY <1>0, <1>2, <1>3, <3>1, <3>2
    <3> QED
      BY <1>0, <1>3, <2>2, <3>0, <3>3 DEF ListCut, Counted
  <2> QED
    BY <1>4, <1>5, <2>5, <2>6, <2>7 DEF ListCut
<1> QED
  BY <1>13, <1>14

-----------------------------------------------------------------------------
(* The main functions.                                                     *)
Typed ==
  /\ program \in Program
  /\ main \in {"options", "config", "split", "check", "list", "cut", "ready", "started", "exit"}
  /\ get_ddl_only \in BOOLEAN /\ table_list_file \in BOOLEAN /\ num_thread \in Int
  /\ DOMAIN value = WantedHere

NoList ==
  /\ list = <<>> /\ table_text = <<>> /\ line = 1 /\ slots = 0
  /\ tables = <<>> /\ queries = <<>> /\ reach = 0

ListStage ==
  \/ main # "cut" /\ NoList
  \/ main \in {"cut", "ready", "started"} /\ ListCut /\ (main # "cut" => line > Len(list))

Prepared == Typed /\ Inside /\ ListStage

LEMMA LoadedInside ==
  ASSUME CharAssumption, NEW text \in Texts, Load(text)
  PROVE  Inside'
<1>1. NUL \in Char
  BY DEF CharAssumption
<1>2. /\ Append(text, NUL) \in Seq(Char) /\ Len(Append(text, NUL)) = Len(text) + 1
      /\ Append(text, NUL)[Len(text) + 1] = NUL /\ Len(text) \in Nat
  <2> DEFINE c == NUL
  <2>1. c \in Char /\ text \in Seq(Char)
    BY <1>1 DEF Texts
  <2> HIDE DEF c
  <2>2. /\ Append(text, c) \in Seq(Char) /\ Len(Append(text, c)) = Len(text) + 1
        /\ Append(text, c)[Len(text) + 1] = c /\ Len(text) \in Nat
    BY <2>1, AppendProperties, LenProperties
  <2> QED
    BY <2>2 DEF c
<1>3. data' = Append(text, NUL) /\ at' = 1
  BY DEF Load
<1>4. End' = Len(text) + 1
  BY <1>2, <1>3 DEF End
<1> QED
  BY <1>2, <1>3, <1>4 DEF Inside, Terminated, Texts

LEMMA NothingInside ==
  ASSUME CharAssumption, data' = <<NUL>>, at' = 1
  PROVE  Inside'
<1> DEFINE c == NUL
<1>1. c \in Char
  BY DEF CharAssumption
<1> HIDE DEF c
<1>2. <<c>> \in Seq(Char) /\ Len(<<c>>) = 1 /\ <<c>>[1] = c
  BY <1>1, OneElement
<1> QED
  BY <1>2 DEF c, Inside, Terminated, Texts, End

LEMMA NothingListed == ListedBy(<<>>) = <<>>
<1>1. SplitAt(<<>>, "\n") = Append(<<>>, <<>>)
  <2>1. << <<>> >> = Append(<<>>, <<>>)
    OBVIOUS
  <2> QED
    BY <2>1, SplitNothing
<1>2. <<>> \in Seq(Texts) /\ <<>> \in Texts
  BY EmptySeq DEF Texts
<1>3. ListedBy(<<>>) = Listing(Append(<<>>, <<>>))
  BY <1>1, ListedIsListing
<1>4. Listing(Append(<<>>, <<>>)) = Listing(<<>>)
  BY <1>2, ListingNext, NothingAdded
<1> QED
  BY <1>3, <1>4, ListingNothing

(* Nothing is read yet, of the list nor of its lines.                      *)
LEMMA ReadCut ==
  ASSUME CharAssumption, NEW text \in Texts, \A i \in DOMAIN text : text[i] # ListNul,
         table_text' = text, ReadList(text), tables = <<>>, queries = <<>>, reach = 0
  PROVE  ListCut'
<1> DEFINE n == Len(text)
           c == ListNul
<1>0. n \in Nat /\ DOMAIN text = 1 .. n /\ text \in Seq(Char) /\ c \in Char
  BY LenProperties DEF Texts, CharAssumption, ListNul, NUL
<1> HIDE DEF c
<1>1. /\ Append(text, c) \in Seq(Char) /\ Len(Append(text, c)) = n + 1
      /\ Append(text, c)[n + 1] = c /\ \A i \in 1 .. n : Append(text, c)[i] = text[i]
  BY <1>0, AppendProperties
<1>2. /\ list' = Append(text, c) /\ line' = 1 /\ tables' = <<>> /\ queries' = <<>> /\ reach' = 0
      /\ slots' = Cardinality({i \in DOMAIN text : text[i] = "\n"}) + 1 + 1
  <2>1. list' = Append(text, c)
    BY DEF ReadList, c
  <2>2. line' = 1 /\ UNCHANGED <<tables, queries>> /\ reach' = reach
    BY DEF ReadList
  <2>3. slots' = Cardinality({i \in DOMAIN text : text[i] = "\n"}) + 1 + 1
    BY DEF ReadList
  <2> QED
    BY <2>1, <2>2, <2>3
<1>3. ListRead'
  BY <1>0, <1>1, <1>2 DEF ListRead, Texts, c
<1>4. LineBegins' /\ Reached'
  BY <1>0, <1>1, <1>2 DEF LineBegins, Reached
<1>5. <<>> \in Seq(Nat) /\ Len(<<>>) = 0
  BY EmptySeq
<1>6. Pointers'
  BY <1>2, <1>5 DEF Pointers
<1>7. Listed'
  <2>1. Done' = 0
    BY <1>0, <1>2 DEF Done
  <2>2. SubSeq(text, 1, 0) = <<>>
    BY SubSeqEmpty
  <2>3. ListedBy(<<>>) = <<>>
    BY NothingListed
  <2>4. ListedBy(SubSeq(table_text', 1, Done')) = <<>>
    BY <2>1, <2>2, <2>3
  <2> QED
    BY <1>2, <1>5, <2>4 DEF Listed
<1>8. Counted'
  <2>1. IsFiniteSet(1 .. n) /\ Breaks(1)' \subseteq 1 .. n
    BY <1>0, FS_Interval DEF Breaks
  <2>2. Cardinality(Breaks(1)') \in Nat
    BY <2>1, FS_Subset, FS_CardinalityType
  <2>3. Breaks(line)' = Breaks(1)'
    BY <1>2 DEF Breaks
  <2>4. Len(list') = n + 1 /\ ~(line' > Len(list')) /\ Len(tables') = 0
    BY <1>0, <1>1, <1>2, <1>5
  <2> QED
    BY <1>2, <2>2, <2>3, <2>4 DEF Counted
<1> QED
  BY <1>3, <1>4, <1>6, <1>7, <1>8 DEF ListCut

LEMMA InitPrepared ==
  ASSUME CharAssumption, StartupInit
  PROVE  Prepared
<1>1. Typed
  <2>1. program \in Program /\ main = "options" /\ num_thread = 5
    BY DEF StartupInit
  <2>2. get_ddl_only \in BOOLEAN /\ table_list_file \in BOOLEAN
    BY DEF StartupInit
  <2>3. value = [k \in WantedHere |-> <<>>]
    BY DEF StartupInit
  <2>4. DOMAIN value = WantedHere
    BY <2>3
  <2> QED
    BY <2>1, <2>2, <2>4 DEF Typed
<1>2. Inside
  <2> DEFINE c == NUL
  <2>1. c \in Char
    BY DEF CharAssumption
  <2> HIDE DEF c
  <2>2. <<c>> \in Seq(Char) /\ Len(<<c>>) = 1 /\ <<c>>[1] = c
    BY <2>1, OneElement
  <2>3. data = <<c>> /\ at = 1
    BY DEF StartupInit, c
  <2> QED
    BY <2>2, <2>3 DEF c, Inside, Terminated, Texts, End
<1>3. ListStage
  BY DEF StartupInit, ListInit, ListStage, NoList
<1> QED
  BY <1>1, <1>2, <1>3 DEF Prepared

LEMMA UnchangedList ==
  ASSUME UNCHANGED listVars, UNCHANGED table_text
  PROVE  (ListCut' <=> ListCut) /\ (NoList' <=> NoList) /\ Len(list') = Len(list) /\ line' = line
BY DEF listVars, ListCut, ListRead, LineBegins, Pointers, Reached, Ends, Listed, Done, Task, Counted,
       Breaks, NoList, StringAt, Find

LEMMA UnchangedIni ==
  ASSUME UNCHANGED iniVars, Inside
  PROVE  Inside'
BY DEF iniVars, Inside, Terminated, End

LEMMA NextPrepared ==
  ASSUME CharAssumption, FilesAssumption, ThreadsAssumption, Prepared, [StartupNext]_startupVars
  PROVE  Prepared'
<1> USE DEF Prepared
<1>1. CASE Options
  <2>1. /\ UNCHANGED <<listVars, iniVars, table_text, program, value>>
        /\ main = "options" /\ main' \in {"config", "exit"}
    BY <1>1 DEF Options
  <2>2. get_ddl_only' \in BOOLEAN /\ table_list_file' \in BOOLEAN
    BY <1>1 DEF Options, Typed
  <2>3. num_thread' \in Threads \union {5} \/ num_thread' = num_thread
    BY <1>1 DEF Options
  <2>4. num_thread' \in Int
    <3>1. num_thread \in Int
      BY DEF Typed
    <3>2. \A x \in Threads \union {5} : x \in Int
      BY DEF ThreadsAssumption
    <3> QED
      BY <2>3, <3>1, <3>2
  <2>5. Typed'
    BY <2>1, <2>2, <2>4 DEF Typed, WantedHere
  <2> QED
    BY <2>1, <2>5, UnchangedList, UnchangedIni DEF ListStage
<1>2. CASE NoOptions
  <2>1. Typed' /\ UNCHANGED <<listVars, iniVars, table_text>> /\ main = "options" /\ main' # "cut"
    BY <1>2 DEF NoOptions, optionVars, Typed, WantedHere
  <2> QED
    BY <2>1, UnchangedList, UnchangedIni DEF ListStage
<1>3. CASE OpenConfig
  <2>1. Typed' /\ UNCHANGED <<listVars, table_text>> /\ main = "config" /\ main' = "split"
    BY <1>3 DEF OpenConfig, optionVars, Typed, WantedHere
  <2>2. PICK text \in ConfigFiles : Load(text)
    BY <1>3 DEF OpenConfig
  <2>3. Inside'
    BY <2>2, LoadedInside DEF FilesAssumption, Texts
  <2> QED
    BY <2>1, <2>3, UnchangedList DEF ListStage
<1>4. CASE NoConfig
  <2>1. Typed' /\ UNCHANGED <<listVars, iniVars, table_text>> /\ main = "config" /\ main' # "cut"
    BY <1>4 DEF NoConfig, optionVars, Typed, WantedHere
  <2> QED
    BY <2>1, UnchangedList, UnchangedIni DEF ListStage
<1>5. CASE SplitConfig
  <2>1. Typed' /\ UNCHANGED <<listVars, table_text>> /\ main = "split" /\ main' = main /\ Split
    BY <1>5 DEF SplitConfig, optionVars, Typed, WantedHere
  <2> QED
    BY <2>1, UnchangedList, TurnInside DEF ListStage
<1>6. CASE GetConfig
  <2>1. UNCHANGED <<listVars, iniVars, table_text>> /\ main = "split" /\ main' # "cut"
    BY <1>6 DEF GetConfig
  <2>2. Typed'
    <3>1. /\ UNCHANGED <<program, get_ddl_only, table_list_file, num_thread>> /\ main' = "check"
          /\ value' = [k \in WantedHere |-> Lookup(data, k[1], k[2])]
      BY <1>6 DEF GetConfig, optionVars
    <3>2. DOMAIN value' = WantedHere
      BY <3>1
    <3> QED
      BY <3>1, <3>2 DEF Typed, WantedHere
  <2> QED
    BY <2>1, <2>2, UnchangedList, UnchangedIni DEF ListStage
<1>7. CASE RefuseConfig
  <2>1. Typed' /\ UNCHANGED <<listVars, iniVars, table_text>> /\ main = "check" /\ main' # "cut"
    BY <1>7 DEF RefuseConfig, optionVars, Typed, WantedHere
  <2> QED
    BY <2>1, UnchangedList, UnchangedIni DEF ListStage
<1>8. CASE AcceptConfig
  <2>1. Typed' /\ UNCHANGED <<listVars, table_text>> /\ main = "check" /\ main' # "cut"
    BY <1>8 DEF AcceptConfig, optionVars, Typed, WantedHere
  <2>2. Inside'
    BY <1>8, NothingInside DEF AcceptConfig
  <2> QED
    BY <2>1, <2>2, UnchangedList DEF ListStage
<1>9. CASE OpenList
  <2>1. Typed' /\ UNCHANGED iniVars /\ main = "list" /\ main' = "cut"
    BY <1>9 DEF OpenList, optionVars, Typed, WantedHere
  <2>2. PICK text \in ListFiles : /\ \A i \in DOMAIN text : text[i] # ListNul
                                  /\ table_text' = text /\ ReadList(text)
    BY <1>9 DEF OpenList
  <2>3. tables = <<>> /\ queries = <<>> /\ reach = 0
    BY <2>1 DEF ListStage, NoList
  <2>4. text \in Texts
    BY DEF FilesAssumption, Texts
  <2>5. ListCut'
    BY <2>2, <2>3, <2>4, ReadCut
  <2> QED
    BY <2>1, <2>5, UnchangedIni DEF ListStage
<1>10. CASE RefuseList
  <2>1. Typed' /\ UNCHANGED <<listVars, iniVars, table_text>> /\ main = "list" /\ main' # "cut"
    BY <1>10 DEF RefuseList, optionVars, Typed, WantedHere
  <2> QED
    BY <2>1, UnchangedList, UnchangedIni DEF ListStage
<1>11. CASE CutList
  <2>1. Typed' /\ UNCHANGED <<iniVars, table_text>> /\ main = "cut" /\ main' = main /\ CutLine
    BY <1>11 DEF CutList, optionVars, Typed, WantedHere
  <2> QED
    BY <2>1, CutKeeps, UnchangedIni DEF ListStage
<1>12. CASE ListDone
  <2>1. /\ Typed' /\ UNCHANGED <<listVars, iniVars, table_text>>
        /\ main = "cut" /\ main' = "ready" /\ line > Len(list)
    BY <1>12 DEF ListDone, optionVars, Typed, WantedHere, AtListEnd, Tail0
  <2> QED
    BY <2>1, UnchangedList, UnchangedIni DEF ListStage
<1>13. CASE StartWork
  <2>1. Typed' /\ UNCHANGED <<listVars, iniVars, table_text>> /\ main = "ready" /\ main' = "started"
    BY <1>13 DEF StartWork, optionVars, Typed, WantedHere
  <2> QED
    BY <2>1, UnchangedList, UnchangedIni DEF ListStage
<1>14. CASE UNCHANGED startupVars
  <2>1. Typed' /\ UNCHANGED <<listVars, iniVars, table_text, main>>
    BY <1>14 DEF startupVars, optionVars, Typed, WantedHere
  <2> QED
    BY <2>1, UnchangedList, UnchangedIni DEF ListStage
<1> QED
  BY <1>1, <1>2, <1>3, <1>4, <1>5, <1>6, <1>7, <1>8, <1>9, <1>10, <1>11, <1>12, <1>13, <1>14
     DEF StartupNext, Ended

THEOREM StartPrepared == StartupSpec => []Prepared
<1>1. StartupInit => Prepared
  BY CharAssumption, InitPrepared
<1>2. Prepared /\ [StartupNext]_startupVars => Prepared'
  BY CharAssumption, FilesAssumption, ThreadsAssumption, NextPrepared
<1> QED
  BY <1>1, <1>2, PTL DEF StartupSpec

(* ListEnds of Startup, for any list of tables: an entry of table_array    *)
(* stays free for the NULL that ends it.                                   *)
THEOREM RoomForNull == StartupSpec => []ListEnds
<1>1. Prepared => ListEnds
  <2> SUFFICES ASSUME Prepared PROVE ListEnds
    OBVIOUS
  <2>1. CASE ~ListCut
    BY <2>1 DEF Prepared, ListStage, NoList, ListEnds
  <2>2. CASE ListCut
    <3> DEFINE n == Len(table_text)
               all == {i \in DOMAIN table_text : table_text[i] = "\n"}
    <3>1. /\ n \in Nat /\ DOMAIN table_text = 1 .. n /\ Len(tables) \in Nat
          /\ line \in 1 .. n + 1 + 1
      BY <2>2, LenProperties DEF ListCut, ListRead, Pointers, Texts
    <3>2. IsFiniteSet(1 .. n) /\ all \subseteq 1 .. n /\ Breaks(line) \subseteq all
      <4>1. IsFiniteSet(1 .. n)
        BY <3>1, FS_Interval
      <4>2. all \subseteq 1 .. n /\ Breaks(line) \subseteq all
        BY <3>1 DEF Breaks
      <4> QED
        BY <4>1, <4>2
    <3>3. IsFiniteSet(all) /\ IsFiniteSet(Breaks(line))
      BY <3>2, FS_Subset
    <3>4. /\ Cardinality(all) \in Nat /\ Cardinality(Breaks(line)) \in Nat
          /\ Cardinality(Breaks(line)) <= Cardinality(all)
      BY <3>2, <3>3, FS_Subset, FS_CardinalityType
    <3>5. /\ slots = Cardinality(all) + 1 + 1
          /\ Len(tables) <= Cardinality(Breaks(line)) + (IF line > Len(list) THEN 1 ELSE 0)
      BY <2>2 DEF ListCut, Counted
    <3> HIDE DEF all
    <3> DEFINE last == IF line > Len(list) THEN 1 ELSE 0
    <3>6. last \in 0 .. 1
      OBVIOUS
    <3>7. Len(tables) <= Cardinality(Breaks(line)) + last
      BY <3>5
    <3> HIDE DEF last
    <3> DEFINE a == Cardinality(all)
               b == Cardinality(Breaks(line))
               k == Len(tables)
    <3>8. a \in Nat /\ b \in Nat /\ b <= a /\ k \in Nat /\ k <= b + last /\ slots = a + 1 + 1
      BY <3>1, <3>4, <3>5, <3>7
    <3> HIDE DEF a, b, k
    <3>9. k < slots
      BY <3>6, <3>8
    <3> QED
      BY <3>9 DEF ListEnds, k
  <2> QED
    BY <2>1, <2>2
<1> QED
  BY <1>1, StartPrepared, PTL

(* StartupTypeOK, for any two files: the types hold, the reader of the     *)
(* configuration stays inside of its text, and that of the list looks at   *)
(* no more than the one place behind its own.                              *)
THEOREM StartTyping == StartupSpec => []StartupTypeOK
<1>1. Prepared /\ ListEnds => StartupTypeOK
  <2> SUFFICES ASSUME Prepared, ListEnds PROVE StartupTypeOK
    OBVIOUS
  <2>1. at \in 1 .. End /\ data[End] = NUL
    BY DEF Prepared, Inside, Terminated, End
  <2>2. list # <<>> => line \in 1 .. Len(list) + 1
    BY DEF Prepared, ListStage, NoList, ListCut, ListRead
  <2>3. reach \in 0 .. Len(list) + 1
    <3>1. CASE ListCut
      BY <3>1 DEF ListCut, Reached
    <3>2. CASE NoList
      <4>1. Len(list) = 0 /\ reach = 0
        BY <3>2, EmptySeq DEF NoList
      <4> QED
        BY <4>1
    <3> QED
      BY <3>1, <3>2 DEF Prepared, ListStage
  <2> QED
    BY <2>1, <2>2, <2>3 DEF Prepared, Typed, StartupTypeOK
<1> QED
  BY <1>1, StartPrepared, RoomForNull, PTL

LEMMA StartsIsPrefix ==
  ASSUME NEW x \in Seq(Entry), NEW y \in Seq(Entry), Starts(x, y)
  PROVE  IsPrefix(x, y)
<1> DEFINE n == Len(x)
           u == SubSeq(x, 1, n)
           v == SubSeq(y, 1, n)
<1>0. n \in Nat /\ Len(y) \in Nat /\ n <= Len(y)
  BY LenProperties DEF Starts
<1>1. u = x
  BY SubSeqFull
<1>2. v \in Seq(Entry) /\ Len(v) = n /\ \A i \in 1 .. n : v[i] = y[i]
  <2>1. \A i \in 1 .. n : y[i] \in Entry
    BY <1>0, ElementOfSeq
  <2>2. (IF 1 <= n THEN n - 1 + 1 ELSE 0) = n /\ \A i \in 1 .. n : i \in 1 .. n - 1 + 1 /\ 1 + i - 1 = i
    BY <1>0
  <2>3. /\ v \in Seq(Entry) /\ Len(v) = IF 1 <= n THEN n - 1 + 1 ELSE 0
        /\ \A i \in 1 .. n - 1 + 1 : v[i] = y[1 + i - 1]
    BY <1>0, <2>1, SubSeqProperties
  <2> QED
    BY <2>2, <2>3
<1> HIDE DEF u, v
<1>3. \A i \in 1 .. Len(x) : x[i] = v[i]
  BY <1>2 DEF Starts
<1>4. x = v
  BY <1>2, <1>3, SeqEqual
<1> QED
  BY <1>0, <1>1, <1>4 DEF IsPrefix, u, v

LEMMA TasksAreListed ==
  ASSUME ListCut
  PROVE  /\ TaskList = ListedBy(SubSeq(table_text, 1, Done))
         /\ IsPrefix(TaskList, ListedBy(table_text))
         /\ line > Len(list) => TaskList = ListedBy(table_text)
<1> DEFINE n == Len(table_text)
           said == ListedBy(SubSeq(table_text, 1, Done))
<1>0. /\ n \in Nat /\ line \in 1 .. n + 1 + 1 /\ Len(list) = n + 1 /\ table_text \in Texts
      /\ Len(tables) \in Nat /\ DOMAIN tables = 1 .. Len(tables)
  BY LenProperties DEF ListCut, ListRead, Pointers, Texts
<1>1. Done \in 0 .. n /\ (Done = 0 \/ table_text[Done] = "\n" \/ Done = n)
  BY <1>0 DEF Done, ListCut, LineBegins
<1>2. said \in Seq(Entry) /\ ListedBy(table_text) \in Seq(Entry) /\ Starts(said, ListedBy(table_text))
  BY <1>0, <1>1, ListedOnward
<1>3. Len(said) = Len(tables) /\ \A k \in 1 .. Len(tables) : said[k] = Task(k)
  BY DEF ListCut, Listed
<1> HIDE DEF said
<1>4. TaskList = said
  <2>1. TaskList = [k \in 1 .. Len(tables) |-> Task(k)]
    BY <1>0 DEF TaskList, Task
  <2>2. said = [k \in 1 .. Len(tables) |-> said[k]]
    BY <1>2, <1>3, LenProperties
  <2>3. [k \in 1 .. Len(tables) |-> said[k]] = [k \in 1 .. Len(tables) |-> Task(k)]
    BY <1>3
  <2> QED
    BY <2>1, <2>2, <2>3
<1>5. ASSUME line > Len(list) PROVE said = ListedBy(table_text)
  <2>1. Done = n
    BY <1>0, <1>5 DEF Done
  <2>2. SubSeq(table_text, 1, n) = table_text
    BY <1>0, SubSeqFull DEF Texts
  <2> QED
    BY <2>1, <2>2 DEF said
<1> QED
  BY <1>2, <1>4, <1>5, StartsIsPrefix DEF said

LEMMA NoTasks ==
  ASSUME NoList
  PROVE  TaskList = ListedBy(table_text) /\ IsPrefix(TaskList, ListedBy(table_text))
<1>1. ListedBy(<<>>) = <<>>
  BY NothingListed
<1>2. TaskList = <<>>
  <2>1. DOMAIN tables = {}
    BY DEF NoList
  <2> QED
    BY <2>1 DEF TaskList
<1>3. <<>> \in Seq(Entry) /\ Len(<<>>) = 0
  BY EmptySeq
<1>4. IsPrefix(<<>>, <<>>)
  BY <1>3 DEF IsPrefix
<1> QED
  BY <1>1, <1>2, <1>4 DEF NoList

(* ListIsLineWise of Startup, for any list of tables and of any length:    *)
(* after each line the tasks are what the lines so far say, and in the end *)
(* what the file says.                                                     *)
THEOREM TasksFollowLines == StartupSpec => []ListIsLineWise
<1>1. Prepared => ListIsLineWise
  <2> SUFFICES ASSUME Prepared PROVE ListIsLineWise
    OBVIOUS
  <2>1. CASE NoList /\ main # "cut"
    BY <2>1, NoTasks DEF ListIsLineWise
  <2>2. CASE ListCut /\ (main # "cut" => line > Len(list))
    BY <2>2, TasksAreListed DEF ListIsLineWise
  <2> QED
    BY <2>1, <2>2 DEF Prepared, ListStage
<1> QED
  BY <1>1, StartPrepared, PTL

-----------------------------------------------------------------------------
(* What a start does.                                                      *)
USE BoundAssumption, SwitchAssumption

(* Every table was loaded or given up, in some run.                        *)
CopyOver == \A t \in Table : loads[t] > 0 \/ t \in gaveUp

(* What this run did with a table is recorded for the later ones.          *)
LoadRecorded ==
  \A t \in Table :
    /\ load[t] = "done" => loads[t] > 0
    /\ load[t] = "lost" => t \in gaveUp

(* Between the creation of the copy threads and the wait, each table is    *)
(* with a thread or done with, and at no other time is one to be copied.   *)
CopyUnderWay ==
  /\ pc \in {"mark_start", "wait"} \/ (pc = "decoder" /\ need_full_sync) =>
       \A t \in Table : load[t] # "none"
  /\ \A t \in Table :
       load[t] = "todo" => pc \in {"mark_start", "wait"} \/ (pc = "decoder" /\ need_full_sync)

(* A copy is started only where one is due.                                *)
CopyDecided == pc \in {"snapshot", "spawn", "mark_start"} => need_full_sync

(* A run that is past the decision and does not copy found an end.         *)
SkipHasEnd ==
  pc \in {"slot", "decoder"} /\ ~need_full_sync => status.end

(* After the wait, and when an end is recorded, the copy is over.          *)
EndsAreReal ==
  status.end \/ pc \in {"mark_end", "stream", "running"} => CopyOver

(* A source with logical slots has its slot before any table is loaded.    *)
SlotFirst ==
  replication_sync /\ slot = NoPos =>
    /\ \A t \in Table : loads[t] = 0
    /\ pc \in {"off", "status", "slot", "ended"}

(* Without logical slots there is none, and nothing is ever streamed.      *)
NoSlotNoStream ==
  ~replication_sync => slot = NoPos /\ pc # "running"

(* The copy threads do not read a snapshot that is older than the slot.    *)
SnapshotAfterSlot ==
  /\ pc \in {"status", "slot"} => th_snapshot = NoPos
  /\ th_snapshot # NoPos => slot <= th_snapshot

(* A table that was loaded has at the target all the rows that were        *)
(* committed before the slot.                                              *)
LoadCoversSlot ==
  \A t \in Table : loads[t] > 0 =>
    \A c \in 1 .. Len(wal) : c <= slot /\ wal[c] = t => copied[c] > 0

IInv ==
  /\ TypeOK
  /\ LoadRecorded
  /\ CopyUnderWay
  /\ CopyDecided
  /\ SkipHasEnd
  /\ EndsAreReal
  /\ SlotFirst
  /\ NoSlotNoStream
  /\ SnapshotAfterSlot
  /\ LoadCoversSlot
  /\ StreamAfterCopy

-----------------------------------------------------------------------------
(* Types are kept, and the stream does not overtake the source.            *)
LEMMA TypingStep ==
  ASSUME IInv, [Next]_vars
  PROVE  TypeOK'
<1> USE DEF IInv, TypeOK, NoPos, Commit, source, targetVars, mainVars
<1>1. CASE SourceCommit
  BY <1>1 DEF SourceCommit
<1>2. CASE Start
  <2>1. starts' \in 0 .. MaxStart
    BY <1>2 DEF Start
  <2>2. /\ need_full_sync' = FALSE /\ local_ok' = FALSE
        /\ snapshot' = NoPos /\ th_snapshot' = NoPos
        /\ load' = [t \in Table |-> "none"] /\ pc' = "status"
        /\ UNCHANGED <<source, slot, status, staged, targetVars, gaveUp, receiving>>
    BY <1>2 DEF Start
  <2> QED
    BY <2>1, <2>2
<1>3. CASE NoLocal
  BY <1>3 DEF NoLocal
<1>4. CASE ReadStatus
  BY <1>4 DEF ReadStatus
<1>5. CASE EnsureSlot
  BY <1>5 DEF EnsureSlot, CreateSlot, SlotExists
<1>6. CASE OpenSnapshot
  BY <1>6 DEF OpenSnapshot
<1>7. CASE SpawnCopy
  BY <1>7 DEF SpawnCopy
<1>8. CASE MarkStart
  BY <1>8 DEF MarkStart, Mark
<1>9. CASE SpawnReceive
  BY <1>9 DEF SpawnReceive
<1>10. CASE WaitCopy
  BY <1>10 DEF WaitCopy
<1>11. CASE MarkEnd
  BY <1>11 DEF MarkEnd, Mark
<1>12. CASE SpawnApply
  BY <1>12 DEF SpawnApply
<1>13. CASE Stage
  BY <1>13 DEF Stage
<1>14. CASE Apply
  BY SMTT(60), <1>14 DEF Apply
<1>15. CASE Crash
  BY <1>15 DEF Crash
<1>19. CASE ReceiverEnds
  BY <1>19 DEF ReceiverEnds
<1>16. ASSUME NEW t \in Table, LoadTable(t) PROVE TypeOK'
  BY <1>16 DEF LoadTable, ReadAt
<1>17. ASSUME NEW t \in Table, GiveUpTable(t) PROVE TypeOK'
  BY <1>17 DEF GiveUpTable
<1>18. CASE UNCHANGED vars
  BY <1>18 DEF vars
<1> QED
  BY <1>1, <1>2, <1>3, <1>4, <1>5, <1>6, <1>7, <1>8, <1>9,
     <1>10, <1>11, <1>12, <1>13, <1>14, <1>15, <1>16, <1>17, <1>18, <1>19
     DEF Next, Main, Copy, Waiting

(* A table that a thread is done with was loaded or given up, and neither  *)
(* is ever taken back.                                                     *)
LEMMA LoadRecordedStep ==
  ASSUME IInv, [Next]_vars
  PROVE  LoadRecorded'
<1> USE DEF IInv, LoadRecorded, TypeOK, NoPos, Commit, source, targetVars, mainVars
<1>1. CASE SourceCommit
  BY <1>1 DEF SourceCommit
<1>2. CASE Start
  BY <1>2 DEF Start
<1>3. CASE NoLocal
  BY <1>3 DEF NoLocal
<1>4. CASE ReadStatus
  BY <1>4 DEF ReadStatus
<1>5. CASE EnsureSlot
  BY <1>5 DEF EnsureSlot, CreateSlot, SlotExists
<1>6. CASE OpenSnapshot
  BY <1>6 DEF OpenSnapshot
<1>7. CASE SpawnCopy
  BY <1>7 DEF SpawnCopy
<1>8. CASE MarkStart
  BY <1>8 DEF MarkStart, Mark
<1>9. CASE SpawnReceive
  BY <1>9 DEF SpawnReceive
<1>10. CASE WaitCopy
  BY <1>10 DEF WaitCopy
<1>11. CASE MarkEnd
  BY <1>11 DEF MarkEnd, Mark
<1>12. CASE SpawnApply
  BY <1>12 DEF SpawnApply
<1>13. CASE Stage
  BY <1>13 DEF Stage
<1>14. CASE Apply
  BY <1>14 DEF Apply
<1>15. CASE Crash
  BY <1>15 DEF Crash
<1>19. CASE ReceiverEnds
  BY <1>19 DEF ReceiverEnds
<1>16. ASSUME NEW t \in Table, LoadTable(t) PROVE LoadRecorded'
  BY <1>16 DEF LoadTable, ReadAt
<1>17. ASSUME NEW t \in Table, GiveUpTable(t) PROVE LoadRecorded'
  BY <1>17 DEF GiveUpTable
<1>18. CASE UNCHANGED vars
  BY <1>18 DEF vars
<1> QED
  BY <1>1, <1>2, <1>3, <1>4, <1>5, <1>6, <1>7, <1>8, <1>9,
     <1>10, <1>11, <1>12, <1>13, <1>14, <1>15, <1>16, <1>17, <1>18, <1>19
     DEF Next, Main, Copy, Waiting

(* The tables are handed out by the creation of the copy threads, which    *)
(* the decision precedes, and a crash takes them back with the program     *)
(* counter.                                                                *)
LEMMA CopyUnderWayStep ==
  ASSUME IInv, [Next]_vars
  PROVE  (CopyUnderWay /\ CopyDecided)'
<1> USE DEF IInv, CopyUnderWay, CopyDecided, TypeOK, NoPos, Commit, source, targetVars, mainVars
<1>1. CASE SourceCommit
  BY <1>1 DEF SourceCommit
<1>2. CASE Start
  BY <1>2 DEF Start
<1>3. CASE NoLocal
  BY <1>3 DEF NoLocal
<1>4. CASE ReadStatus
  BY <1>4 DEF ReadStatus
<1>5. CASE EnsureSlot
  BY <1>5 DEF EnsureSlot, CreateSlot, SlotExists
<1>6. CASE OpenSnapshot
  BY <1>6 DEF OpenSnapshot
<1>7. CASE SpawnCopy
  BY <1>7 DEF SpawnCopy
<1>8. CASE MarkStart
  BY <1>8 DEF MarkStart, Mark
<1>9. CASE SpawnReceive
  BY <1>9 DEF SpawnReceive
<1>10. CASE WaitCopy
  BY <1>10 DEF WaitCopy
<1>11. CASE MarkEnd
  BY <1>11 DEF MarkEnd, Mark
<1>12. CASE SpawnApply
  BY <1>12 DEF SpawnApply
<1>13. CASE Stage
  BY <1>13 DEF Stage
<1>14. CASE Apply
  BY <1>14 DEF Apply
<1>15. CASE Crash
  BY <1>15 DEF Crash
<1>19. CASE ReceiverEnds
  BY <1>19 DEF ReceiverEnds
<1>16. ASSUME NEW t \in Table, LoadTable(t) PROVE (CopyUnderWay /\ CopyDecided)'
  BY <1>16 DEF LoadTable, ReadAt
<1>17. ASSUME NEW t \in Table, GiveUpTable(t) PROVE (CopyUnderWay /\ CopyDecided)'
  BY <1>17 DEF GiveUpTable
<1>18. CASE UNCHANGED vars
  BY <1>18 DEF vars
<1> QED
  BY <1>1, <1>2, <1>3, <1>4, <1>5, <1>6, <1>7, <1>8, <1>9,
     <1>10, <1>11, <1>12, <1>13, <1>14, <1>15, <1>16, <1>17, <1>18, <1>19
     DEF Next, Main, Copy, Waiting

(* The decision to skip the copy is made on the end that was read, and an  *)
(* end is never unwritten.                                                 *)
LEMMA SkipStep ==
  ASSUME IInv, [Next]_vars
  PROVE  SkipHasEnd'
<1> USE DEF IInv, SkipHasEnd, TypeOK, CopyDecided, NoPos, Commit, source, targetVars, mainVars
<1>1. CASE SourceCommit
  BY <1>1 DEF SourceCommit
<1>2. CASE Start
  BY <1>2 DEF Start
<1>3. CASE NoLocal
  BY <1>3 DEF NoLocal
<1>4. CASE ReadStatus
  BY <1>4 DEF ReadStatus
<1>5. CASE EnsureSlot
  BY <1>5 DEF EnsureSlot, CreateSlot, SlotExists
<1>6. CASE OpenSnapshot
  BY <1>6 DEF OpenSnapshot
<1>7. CASE SpawnCopy
  BY <1>7 DEF SpawnCopy
<1>8. CASE MarkStart
  BY <1>8 DEF MarkStart, Mark
<1>9. CASE SpawnReceive
  BY <1>9 DEF SpawnReceive
<1>10. CASE WaitCopy
  BY <1>10 DEF WaitCopy
<1>11. CASE MarkEnd
  BY <1>11 DEF MarkEnd, Mark
<1>12. CASE SpawnApply
  BY <1>12 DEF SpawnApply
<1>13. CASE Stage
  BY <1>13 DEF Stage
<1>14. CASE Apply
  BY <1>14 DEF Apply
<1>15. CASE Crash
  BY <1>15 DEF Crash
<1>19. CASE ReceiverEnds
  BY <1>19 DEF ReceiverEnds
<1>16. ASSUME NEW t \in Table, LoadTable(t) PROVE SkipHasEnd'
  BY <1>16 DEF LoadTable, ReadAt
<1>17. ASSUME NEW t \in Table, GiveUpTable(t) PROVE SkipHasEnd'
  BY <1>17 DEF GiveUpTable
<1>18. CASE UNCHANGED vars
  BY <1>18 DEF vars
<1> QED
  BY <1>1, <1>2, <1>3, <1>4, <1>5, <1>6, <1>7, <1>8, <1>9,
     <1>10, <1>11, <1>12, <1>13, <1>14, <1>15, <1>16, <1>17, <1>18, <1>19
     DEF Next, Main, Copy, Waiting

(* The wait ends when each table is done with, and only then an end is     *)
(* written; a run that does not wait found one.                            *)
LEMMA EndsStep ==
  ASSUME IInv, [Next]_vars
  PROVE  EndsAreReal'
<1> USE DEF IInv, EndsAreReal, CopyOver, SkipHasEnd, CopyUnderWay, LoadRecorded, TypeOK,
            NoPos, Commit, source, targetVars, mainVars
<1>1. CASE SourceCommit
  BY <1>1 DEF SourceCommit
<1>2. CASE Start
  BY <1>2 DEF Start
<1>3. CASE NoLocal
  BY <1>3 DEF NoLocal
<1>4. CASE ReadStatus
  BY <1>4 DEF ReadStatus
<1>5. CASE EnsureSlot
  BY <1>5 DEF EnsureSlot, CreateSlot, SlotExists
<1>6. CASE OpenSnapshot
  BY <1>6 DEF OpenSnapshot
<1>7. CASE SpawnCopy
  BY <1>7 DEF SpawnCopy
<1>8. CASE MarkStart
  BY <1>8 DEF MarkStart, Mark
<1>9. CASE SpawnReceive
  BY <1>9 DEF SpawnReceive
<1>10. CASE WaitCopy
  BY <1>10 DEF WaitCopy
<1>11. CASE MarkEnd
  BY <1>11 DEF MarkEnd, Mark
<1>12. CASE SpawnApply
  BY <1>12 DEF SpawnApply
<1>13. CASE Stage
  BY <1>13 DEF Stage
<1>14. CASE Apply
  BY <1>14 DEF Apply
<1>15. CASE Crash
  BY <1>15 DEF Crash
<1>19. CASE ReceiverEnds
  BY <1>19 DEF ReceiverEnds
<1>16. ASSUME NEW t \in Table, LoadTable(t) PROVE EndsAreReal'
  BY <1>16 DEF LoadTable, ReadAt
<1>17. ASSUME NEW t \in Table, GiveUpTable(t) PROVE EndsAreReal'
  BY <1>17 DEF GiveUpTable
<1>18. CASE UNCHANGED vars
  BY <1>18 DEF vars
<1> QED
  BY <1>1, <1>2, <1>3, <1>4, <1>5, <1>6, <1>7, <1>8, <1>9,
     <1>10, <1>11, <1>12, <1>13, <1>14, <1>15, <1>16, <1>17, <1>18, <1>19
     DEF Next, Main, Copy, Waiting

(* The slot is ensured on the way to the copy.                             *)
LEMMA SlotStep ==
  ASSUME IInv, [Next]_vars
  PROVE  (SlotFirst /\ NoSlotNoStream)'
<1> USE DEF IInv, SlotFirst, NoSlotNoStream, CopyUnderWay, TypeOK, NoPos, Commit, source,
            targetVars, mainVars
<1>1. CASE SourceCommit
  BY <1>1 DEF SourceCommit
<1>2. CASE Start
  BY <1>2 DEF Start
<1>3. CASE NoLocal
  BY <1>3 DEF NoLocal
<1>4. CASE ReadStatus
  BY <1>4 DEF ReadStatus
<1>5. CASE EnsureSlot
  BY <1>5 DEF EnsureSlot, CreateSlot, SlotExists
<1>6. CASE OpenSnapshot
  BY <1>6 DEF OpenSnapshot
<1>7. CASE SpawnCopy
  BY <1>7 DEF SpawnCopy
<1>8. CASE MarkStart
  BY <1>8 DEF MarkStart, Mark
<1>9. CASE SpawnReceive
  BY <1>9 DEF SpawnReceive
<1>10. CASE WaitCopy
  BY <1>10 DEF WaitCopy
<1>11. CASE MarkEnd
  BY <1>11 DEF MarkEnd, Mark
<1>12. CASE SpawnApply
  BY <1>12 DEF SpawnApply
<1>13. CASE Stage
  BY <1>13 DEF Stage
<1>14. CASE Apply
  BY <1>14 DEF Apply
<1>15. CASE Crash
  BY <1>15 DEF Crash
<1>19. CASE ReceiverEnds
  BY <1>19 DEF ReceiverEnds
<1>16. ASSUME NEW t \in Table, LoadTable(t) PROVE (SlotFirst /\ NoSlotNoStream)'
  BY <1>16 DEF LoadTable, ReadAt
<1>17. ASSUME NEW t \in Table, GiveUpTable(t) PROVE (SlotFirst /\ NoSlotNoStream)'
  BY <1>17 DEF GiveUpTable
<1>18. CASE UNCHANGED vars
  BY <1>18 DEF vars
<1> QED
  BY <1>1, <1>2, <1>3, <1>4, <1>5, <1>6, <1>7, <1>8, <1>9,
     <1>10, <1>11, <1>12, <1>13, <1>14, <1>15, <1>16, <1>17, <1>18, <1>19
     DEF Next, Main, Copy, Waiting

(* The slot is created before the snapshot that the threads get.           *)
LEMMA SnapshotStep ==
  ASSUME IInv, [Next]_vars
  PROVE  SnapshotAfterSlot'
<1> USE DEF IInv, SnapshotAfterSlot, TypeOK, NoPos, Commit, source, targetVars, mainVars
<1>1. CASE SourceCommit
  BY <1>1 DEF SourceCommit
<1>2. CASE Start
  BY <1>2 DEF Start
<1>3. CASE NoLocal
  BY <1>3 DEF NoLocal
<1>4. CASE ReadStatus
  BY <1>4 DEF ReadStatus
<1>5. CASE EnsureSlot
  BY <1>5 DEF EnsureSlot, CreateSlot, SlotExists
<1>6. CASE OpenSnapshot
  BY <1>6 DEF OpenSnapshot
<1>7. CASE SpawnCopy
  BY <1>7 DEF SpawnCopy
<1>8. CASE MarkStart
  BY <1>8 DEF MarkStart, Mark
<1>9. CASE SpawnReceive
  BY <1>9 DEF SpawnReceive
<1>10. CASE WaitCopy
  BY <1>10 DEF WaitCopy
<1>11. CASE MarkEnd
  BY <1>11 DEF MarkEnd, Mark
<1>12. CASE SpawnApply
  BY <1>12 DEF SpawnApply
<1>13. CASE Stage
  BY <1>13 DEF Stage
<1>14. CASE Apply
  BY <1>14 DEF Apply
<1>15. CASE Crash
  BY <1>15 DEF Crash
<1>19. CASE ReceiverEnds
  BY <1>19 DEF ReceiverEnds
<1>16. ASSUME NEW t \in Table, LoadTable(t) PROVE SnapshotAfterSlot'
  BY <1>16 DEF LoadTable, ReadAt
<1>17. ASSUME NEW t \in Table, GiveUpTable(t) PROVE SnapshotAfterSlot'
  BY <1>17 DEF GiveUpTable
<1>18. CASE UNCHANGED vars
  BY <1>18 DEF vars
<1> QED
  BY <1>1, <1>2, <1>3, <1>4, <1>5, <1>6, <1>7, <1>8, <1>9,
     <1>10, <1>11, <1>12, <1>13, <1>14, <1>15, <1>16, <1>17, <1>18, <1>19
     DEF Next, Main, Copy, Waiting

(* A load copies all rows up to its snapshot or, without one, all there    *)
(* are; both are at least up to the slot, which is there by then and does  *)
(* not move.                                                               *)
LEMMA CoversStep ==
  ASSUME IInv, [Next]_vars
  PROVE  LoadCoversSlot'
<1> USE DEF IInv, LoadCoversSlot, SlotFirst, NoSlotNoStream, SnapshotAfterSlot, CopyUnderWay,
            TypeOK, NoPos, Commit, source, targetVars, mainVars
<1>1. CASE SourceCommit
  BY SMTT(60), <1>1 DEF SourceCommit
<1>2. CASE Start
  BY <1>2 DEF Start
<1>3. CASE NoLocal
  BY <1>3 DEF NoLocal
<1>4. CASE ReadStatus
  BY <1>4 DEF ReadStatus
<1>5. CASE EnsureSlot
  BY <1>5 DEF EnsureSlot, CreateSlot, SlotExists
<1>6. CASE OpenSnapshot
  BY <1>6 DEF OpenSnapshot
<1>7. CASE SpawnCopy
  BY <1>7 DEF SpawnCopy
<1>8. CASE MarkStart
  BY <1>8 DEF MarkStart, Mark
<1>9. CASE SpawnReceive
  BY <1>9 DEF SpawnReceive
<1>10. CASE WaitCopy
  BY <1>10 DEF WaitCopy
<1>11. CASE MarkEnd
  BY <1>11 DEF MarkEnd, Mark
<1>12. CASE SpawnApply
  BY <1>12 DEF SpawnApply
<1>13. CASE Stage
  BY <1>13 DEF Stage
<1>14. CASE Apply
  BY <1>14 DEF Apply
<1>15. CASE Crash
  BY <1>15 DEF Crash
<1>19. CASE ReceiverEnds
  BY <1>19 DEF ReceiverEnds
<1>16. ASSUME NEW t \in Table, LoadTable(t) PROVE LoadCoversSlot'
  BY SMTT(60), <1>16 DEF LoadTable, ReadAt
<1>17. ASSUME NEW t \in Table, GiveUpTable(t) PROVE LoadCoversSlot'
  BY <1>17 DEF GiveUpTable
<1>18. CASE UNCHANGED vars
  BY <1>18 DEF vars
<1> QED
  BY <1>1, <1>2, <1>3, <1>4, <1>5, <1>6, <1>7, <1>8, <1>9,
     <1>10, <1>11, <1>12, <1>13, <1>14, <1>15, <1>16, <1>17, <1>18, <1>19
     DEF Next, Main, Copy, Waiting

(* The apply thread runs after the wait for the copy only.                 *)
LEMMA StreamStep ==
  ASSUME IInv, [Next]_vars
  PROVE  StreamAfterCopy'
<1> USE DEF IInv, StreamAfterCopy, EndsAreReal, CopyOver, NoSlotNoStream, TypeOK, NoPos,
            Commit, source, targetVars, mainVars
<1>1. CASE SourceCommit
  BY <1>1 DEF SourceCommit
<1>2. CASE Start
  BY <1>2 DEF Start
<1>3. CASE NoLocal
  BY <1>3 DEF NoLocal
<1>4. CASE ReadStatus
  BY <1>4 DEF ReadStatus
<1>5. CASE EnsureSlot
  BY <1>5 DEF EnsureSlot, CreateSlot, SlotExists
<1>6. CASE OpenSnapshot
  BY <1>6 DEF OpenSnapshot
<1>7. CASE SpawnCopy
  BY <1>7 DEF SpawnCopy
<1>8. CASE MarkStart
  BY <1>8 DEF MarkStart, Mark
<1>9. CASE SpawnReceive
  BY <1>9 DEF SpawnReceive
<1>10. CASE WaitCopy
  BY <1>10 DEF WaitCopy
<1>11. CASE MarkEnd
  BY <1>11 DEF MarkEnd, Mark
<1>12. CASE SpawnApply
  BY <1>12 DEF SpawnApply
<1>13. CASE Stage
  BY <1>13 DEF Stage
<1>14. CASE Apply
  BY <1>14 DEF Apply
<1>15. CASE Crash
  BY <1>15 DEF Crash
<1>19. CASE ReceiverEnds
  BY <1>19 DEF ReceiverEnds
<1>16. ASSUME NEW t \in Table, LoadTable(t) PROVE StreamAfterCopy'
  BY <1>16 DEF LoadTable, ReadAt
<1>17. ASSUME NEW t \in Table, GiveUpTable(t) PROVE StreamAfterCopy'
  BY <1>17 DEF GiveUpTable
<1>18. CASE UNCHANGED vars
  BY <1>18 DEF vars
<1> QED
  BY <1>1, <1>2, <1>3, <1>4, <1>5, <1>6, <1>7, <1>8, <1>9,
     <1>10, <1>11, <1>12, <1>13, <1>14, <1>15, <1>16, <1>17, <1>18, <1>19
     DEF Next, Main, Copy, Waiting
-----------------------------------------------------------------------------
(* The inductive invariant.                                                *)
THEOREM Inductive == Safety => []IInv
<1>1. Init => IInv
  <2> USE DEF Init, NoPos, Commit
  <2>1. ASSUME Init PROVE TypeOK
    <3>1. wal \in Seq(Table) /\ Len(wal) = 0
      BY <2>1, EmptySeq
    <3>2. slot = -1 /\ staged = -1 /\ applied = -1 /\ snapshot = -1 /\ th_snapshot = -1
      BY <2>1
    <3>3. /\ {slot, staged, applied, snapshot, th_snapshot} \subseteq {NoPos} \union (0 .. MaxCommit)
          /\ slot <= applied /\ applied <= staged /\ staged <= Len(wal) /\ Len(wal) <= MaxCommit
      BY <3>1, <3>2
    <3>4. status \in [start : BOOLEAN, end : BOOLEAN]
      BY <2>1
    <3>5. {replication_sync, exports, need_full_sync, local_ok, receiving} \subseteq BOOLEAN
      BY <2>1
    <3>6. copied \in [Commit -> Nat] /\ loads \in [Table -> Nat] /\ starts \in 0 .. MaxStart
      BY <2>1
    <3> QED
      BY <2>1, <3>1, <3>3, <3>4, <3>5, <3>6 DEF TypeOK
  <2>2. Init => LoadRecorded /\ CopyUnderWay /\ CopyDecided /\ SkipHasEnd /\ EndsAreReal
    BY DEF LoadRecorded, CopyUnderWay, CopyDecided, SkipHasEnd, EndsAreReal
  <2>3. Init => SlotFirst /\ NoSlotNoStream /\ SnapshotAfterSlot
    BY DEF SlotFirst, NoSlotNoStream, SnapshotAfterSlot
  <2>4. Init => LoadCoversSlot /\ StreamAfterCopy
    BY DEF LoadCoversSlot, StreamAfterCopy
  <2> QED
    BY <2>1, <2>2, <2>3, <2>4 DEF IInv
<1>2. IInv /\ [Next]_vars => IInv'
  BY TypingStep, LoadRecordedStep, CopyUnderWayStep, SkipStep, EndsStep, SlotStep,
     SnapshotStep, CoversStep, StreamStep DEF IInv
<1> QED
  BY <1>1, <1>2, PTL DEF Safety

(* Every variable keeps its type, and applying never overtakes staging,    *)
(* nor staging the source.                                                 *)
THEOREM Typing == Safety => []TypeOK
<1>1. IInv => TypeOK
  BY DEF IInv
<1> QED
  BY <1>1, Inductive, PTL

(* full_s_end is true: wherever earlier runs died, once it is written each *)
(* table was loaded or given up by a thread.                               *)
THEOREM EndMeansOver == Safety => []EndAfterCopy
<1>1. IInv => EndAfterCopy
  BY DEF IInv, EndsAreReal, CopyOver, EndAfterCopy
<1> QED
  BY <1>1, Inductive, PTL

(* No change is applied before the copy of every table is over.            *)
THEOREM StreamWaits == Safety => []StreamAfterCopy
<1>1. IInv => StreamAfterCopy
  BY DEF IInv
<1> QED
  BY <1>1, Inductive, PTL

(* When the stream is applied, each row was copied, or is after the slot's *)
(* position, or is of a table that was given up, although the threads copy *)
(* from other snapshots than the slot's.                                   *)
THEOREM NothingBetween == Safety => []NoGap
<1>1. ASSUME IInv, pc = "running", NEW c \in 1 .. Len(wal), ~(c > slot)
      PROVE  copied[c] > 0 \/ wal[c] \in gaveUp
  <2>1. wal[c] \in Table
    BY <1>1 DEF IInv, TypeOK
  <2>2. loads[wal[c]] > 0 \/ wal[c] \in gaveUp
    BY <1>1, <2>1 DEF IInv, EndsAreReal, CopyOver
  <2>3. slot \in Int
    BY <1>1 DEF IInv, TypeOK, NoPos
  <2>4. c <= slot
    BY <1>1, <2>3
  <2> QED
    BY <1>1, <2>1, <2>2, <2>4 DEF IInv, LoadCoversSlot
<1>2. IInv => NoGap
  BY <1>1 DEF NoGap
<1> QED
  BY <1>2, Inductive, PTL
=============================================================================
