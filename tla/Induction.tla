------------------------------ MODULE Induction ------------------------------
(***************************************************************************)
(* Induction as the proofs of this project need it, from a least element,  *)
(* since the sets of the counterexamples are ordinary values: over the     *)
(* naturals, for functions that are defined step by step, and over the     *)
(* subsets of a finite set, for the sums that the copy prints.             *)
(***************************************************************************)
EXTENDS Integers, SequenceTheorems, FiniteSetTheorems, WellFoundedInduction, TLAPS

(* A set of naturals has a least element.                                  *)
LEMMA LeastNat ==
  ASSUME NEW T, T \subseteq Nat, T # {}
  PROVE  \E x \in T : \A y \in T : x <= y
<1> DEFINE R == {p \in Nat \X Nat : p[1] < p[2]}
<1>1. IsWellFoundedOn(R, Nat)
  <2>1. R = OpToRel(<, Nat)
    BY DEF OpToRel
  <2>2. IsWellFoundedOn(OpToRel(<, Nat), Nat)
    BY NatLessThanWellFounded
  <2> QED
    BY <2>1, <2>2
<1>2. \A x, y \in Nat : x < y => <<x, y>> \in R
  OBVIOUS
<1> HIDE DEF R
<1>3. PICK x \in T : \A y \in T : ~(<<y, x>> \in R)
  BY <1>1, WFMin
<1>4. \A y \in T : x \in Nat /\ y \in Nat /\ ~(y < x)
  BY <1>2, <1>3
<1>5. \A y \in T : x <= y
  BY <1>4
<1> QED
  BY <1>5

(* What holds at 0, and at a number if at the one before, holds up to n.   *)
LEMMA UpTo ==
  ASSUME NEW n \in Nat, NEW T, 0 \in T,
         \A i \in 1 .. n : i - 1 \in T => i \in T
  PROVE  \A i \in 0 .. n : i \in T
<1> DEFINE B == {i \in 0 .. n : i \notin T}
<1> SUFFICES ASSUME B # {} PROVE FALSE
  OBVIOUS
<1>1. B \subseteq Nat
  OBVIOUS
<1> HIDE DEF B
<1>2. PICK x \in B : \A y \in B : x <= y
  BY <1>1, LeastNat
<1>3. x \in 0 .. n /\ x \notin T
  BY DEF B
<1>4. x \in 1 .. n
  BY <1>3
<1>5. x - 1 \in 0 .. n /\ ~(x <= x - 1)
  BY <1>4
<1>6. x - 1 \in T
  BY <1>2, <1>5 DEF B
<1> QED
  BY <1>3, <1>4, <1>6

(* f goes from a through n steps of F.                                     *)
IsRun(f, a, F, n, S) ==
  f \in [0 .. n -> S] /\ f[0] = a /\ \A i \in 1 .. n : f[i] = F[<<i, f[i - 1]>>]

LEMMA RunExists ==
  ASSUME NEW S, NEW a \in S, NEW n \in Nat, NEW F \in [(1 .. n) \X S -> S]
  PROVE  \E f : IsRun(f, a, F, n, S)
<1> DEFINE T == {m \in 0 .. n : \E f : IsRun(f, a, F, m, S)}
<1>1. 0 \in T
  <2> DEFINE f == [i \in 0 .. 0 |-> a]
  <2>1. IsRun(f, a, F, 0, S)
    BY DEF IsRun
  <2> QED
    BY <2>1
<1>2. ASSUME NEW m \in 1 .. n, m - 1 \in T PROVE m \in T
  <2>1. PICK f : IsRun(f, a, F, m - 1, S)
    BY <1>2
  <2>2. f \in [0 .. m - 1 -> S] /\ m - 1 \in 0 .. m - 1 /\ <<m, f[m - 1]>> \in (1 .. n) \X S
    BY <2>1 DEF IsRun
  <2>3. F[<<m, f[m - 1]>>] \in S
    BY <2>2
  <2> DEFINE g == [i \in 0 .. m |-> IF i = m THEN F[<<m, f[m - 1]>>] ELSE f[i]]
  <2>4. g \in [0 .. m -> S]
    BY <2>2, <2>3
  <2>5. g[m] = F[<<m, f[m - 1]>>] /\ \A i \in 0 .. m - 1 : g[i] = f[i]
    OBVIOUS
  <2>6. g[0] = a
    BY <2>1, <2>5 DEF IsRun
  <2>7. ASSUME NEW i \in 1 .. m PROVE g[i] = F[<<i, g[i - 1]>>]
    <3>1. g[i - 1] = f[i - 1]
      BY <2>5
    <3>2. CASE i = m
      BY <2>5, <3>1, <3>2
    <3>3. CASE i # m
      <4>1. i \in 1 .. m - 1 /\ i \in 0 .. m - 1
        BY <3>3
      <4> QED
        BY <2>1, <2>5, <3>1, <4>1 DEF IsRun
    <3> QED
      BY <3>2, <3>3
  <2> HIDE DEF g
  <2>8. IsRun(g, a, F, m, S)
    BY <2>4, <2>6, <2>7 DEF IsRun
  <2> QED
    BY <2>8
<1> HIDE DEF T
<1>3. n \in T
  BY <1>1, <1>2, UpTo
<1> QED
  BY <1>3 DEF T

LEMMA RunIsUnique ==
  ASSUME NEW S, NEW a, NEW n \in Nat, NEW F, NEW f, NEW g,
         IsRun(f, a, F, n, S), IsRun(g, a, F, n, S)
  PROVE  f = g
<1> DEFINE T == {i \in 0 .. n : f[i] = g[i]}
<1>1. 0 \in T
  BY DEF IsRun
<1>2. ASSUME NEW i \in 1 .. n, i - 1 \in T PROVE i \in T
  <2>1. i \in 0 .. n /\ f[i - 1] = g[i - 1]
    BY <1>2
  <2>2. f[i] = F[<<i, f[i - 1]>>] /\ g[i] = F[<<i, g[i - 1]>>]
    BY DEF IsRun
  <2> QED
    BY <2>1, <2>2
<1> HIDE DEF T
<1>3. \A i \in 0 .. n : i \in T
  BY <1>1, <1>2, UpTo
<1>4. \A i \in 0 .. n : f[i] = g[i]
  BY <1>3 DEF T
<1> QED
  BY <1>4 DEF IsRun

(* What stands where in a concatenation.                                   *)
LEMMA ConcatRows ==
  ASSUME NEW S, NEW s \in Seq(S), NEW t \in Seq(S)
  PROVE  /\ s \o t \in Seq(S)
         /\ Len(s \o t) = Len(s) + Len(t)
         /\ \A i \in 1 .. Len(s) : (s \o t)[i] = s[i]
         /\ \A i \in 1 .. Len(t) : (s \o t)[Len(s) + i] = t[i]
<1>1. Len(s) \in Nat /\ Len(t) \in Nat
  BY LenProperties
<1>2. /\ s \o t \in Seq(S) /\ Len(s \o t) = Len(s) + Len(t)
      /\ \A i \in 1 .. Len(s) + Len(t) :
           (s \o t)[i] = IF i <= Len(s) THEN s[i] ELSE t[i - Len(s)]
  BY ConcatProperties
<1> DEFINE m == Len(s)
           n == Len(t)
           st == s \o t
<1> HIDE DEF m, n, st
<1>3. ASSUME NEW i \in 1 .. m PROVE st[i] = s[i]
  BY <1>1, <1>2 DEF m, n, st
<1>4. ASSUME NEW i \in 1 .. n PROVE st[m + i] = t[i]
  <2>1. m + i \in 1 .. m + n /\ ~(m + i <= m) /\ m + i - m = i
    BY <1>1 DEF m, n
  <2> QED
    BY <1>2, <2>1 DEF m, n, st
<1> QED
  BY <1>2, <1>3, <1>4 DEF m, n, st

LEMMA OneElement ==
  ASSUME NEW S, NEW e \in S
  PROVE  <<e>> \in Seq(S) /\ Len(<<e>>) = 1 /\ <<e>>[1] = e
OBVIOUS

LEMMA TwoElements ==
  ASSUME NEW S, NEW e \in S
  PROVE  <<e, e>> = <<e>> \o <<e>>
OBVIOUS

-----------------------------------------------------------------------------
(* What holds of a set when it holds of the set without any of its         *)
(* elements, holds of every subset of a finite set.                        *)
LEMMA SubsetsUp ==
  ASSUME NEW S, IsFiniteSet(S), NEW T,
         \A s \in SUBSET S : (\A x \in s : s \ {x} \in T) => s \in T
  PROVE  \A s \in SUBSET S : s \in T
<1> DEFINE B == {s \in SUBSET S : s \notin T}
<1> SUFFICES ASSUME B # {} PROVE FALSE
  OBVIOUS
<1>0. FiniteSubsetsOf(S) = SUBSET S
  BY FS_FiniteSubsetsOfFinite
<1>1. IsWellFoundedOn(StrictSubsetOrdering(S), SUBSET S)
  <2>1. IsWellFoundedOn(StrictSubsetOrdering(S), FiniteSubsetsOf(S))
    BY FS_StrictSubsetOrderingWellFounded
  <2> QED
    BY <1>0, <2>1
<1>2. B \subseteq SUBSET S
  OBVIOUS
<1> HIDE DEF B
<1>3. PICK s \in B : \A u \in B : ~(<<u, s>> \in StrictSubsetOrdering(S))
  BY <1>1, <1>2, WFMin
<1>4. s \in SUBSET S /\ s \notin T
  BY DEF B
<1>5. ASSUME NEW x \in s PROVE s \ {x} \in T
  <2>1. s \ {x} \in SUBSET S /\ s \ {x} \subseteq s /\ s \ {x} # s
    BY <1>4
  <2>2. <<s \ {x}, s>> \in StrictSubsetOrdering(S)
    BY <1>4, <2>1 DEF StrictSubsetOrdering
  <2> QED
    BY <1>3, <2>1, <2>2 DEF B
<1> QED
  BY <1>4, <1>5

(* h gives the sum of f over each subset of S as SumFunctionOnSet does: an *)
(* element at a time.                                                      *)
SumsOf(h, f, S) ==
  h = [s \in SUBSET S |->
         IF s = {} THEN 0
         ELSE LET x == CHOOSE x \in s : TRUE IN f[x] + h[s \ {x}]]

AnyOf(s) == CHOOSE x \in s : TRUE

LEMMA SumIsSum ==
  ASSUME NEW f, NEW S
  PROVE  SumFunctionOnSet(f, S) = (CHOOSE h : SumsOf(h, f, S))[S]
BY DEF SumFunctionOnSet, FoldFunctionOnSet, MapThenFoldSet, SumsOf

LEMMA SumsAre ==
  ASSUME NEW S, NEW f, NEW h, h \in [SUBSET S -> Int],
         \A s \in SUBSET S : h[s] = IF s = {} THEN 0 ELSE f[AnyOf(s)] + h[s \ {AnyOf(s)}]
  PROVE  SumsOf(h, f, S)
<1>1. h = [s \in SUBSET S |-> h[s]]
  OBVIOUS
<1>2. h = [s \in SUBSET S |-> IF s = {} THEN 0 ELSE f[AnyOf(s)] + h[s \ {AnyOf(s)}]]
  BY <1>1
<1> QED
  BY <1>2, Zenon DEF SumsOf, AnyOf

LEMMA AnyOfIn == \A s : s # {} => AnyOf(s) \in s
BY DEF AnyOf

(* A set has one sum, whichever larger set it is taken in.                 *)
LEMMA SumsAgree ==
  ASSUME NEW S, IsFiniteSet(S), NEW U, S \subseteq U, NEW f, NEW h, NEW g,
         SumsOf(h, f, S), SumsOf(g, f, U)
  PROVE  \A s \in SUBSET S : h[s] = g[s]
<1> DEFINE T == {s \in SUBSET S : h[s] = g[s]}
<1>3. \A s \in SUBSET S : h[s] = IF s = {} THEN 0 ELSE f[AnyOf(s)] + h[s \ {AnyOf(s)}]
  BY DEF SumsOf, AnyOf
<1>4. \A s \in SUBSET U : g[s] = IF s = {} THEN 0 ELSE f[AnyOf(s)] + g[s \ {AnyOf(s)}]
  BY DEF SumsOf, AnyOf
<1>1. ASSUME NEW s \in SUBSET S, \A x \in s : s \ {x} \in T PROVE s \in T
  <2>1. /\ h[s] = IF s = {} THEN 0 ELSE f[AnyOf(s)] + h[s \ {AnyOf(s)}]
        /\ g[s] = IF s = {} THEN 0 ELSE f[AnyOf(s)] + g[s \ {AnyOf(s)}]
    <3>1. s \in SUBSET U
      OBVIOUS
    <3> QED
      BY <3>1, <1>3, <1>4
  <2>2. CASE s = {}
    BY <2>1, <2>2
  <2>3. CASE s # {}
    <3>1. AnyOf(s) \in s
      BY <2>3, AnyOfIn
    <3>2. h[s \ {AnyOf(s)}] = g[s \ {AnyOf(s)}]
      BY <1>1, <3>1
    <3> QED
      BY <2>1, <2>3, <3>2
  <2> QED
    BY <2>2, <2>3
<1> HIDE DEF T
<1>2. \A s \in SUBSET S : s \in T
  BY <1>1, SubsetsUp
<1> QED
  BY <1>2 DEF T

(* The sums exist: those of the smaller sets give those of the larger.     *)
LEMMA SumsExist ==
  ASSUME NEW S, IsFiniteSet(S), NEW f \in [S -> Int]
  PROVE  \E h \in [SUBSET S -> Int] : SumsOf(h, f, S)
<1> DEFINE Right(h, k) == \A s \in SUBSET S : Cardinality(s) <= k =>
                 h[s] = IF s = {} THEN 0 ELSE f[AnyOf(s)] + h[s \ {AnyOf(s)}]
           n == Cardinality(S)
           T == {k \in 0 .. n : \E h \in [SUBSET S -> Int] : Right(h, k)}
<1>1. n \in Nat /\ \A s \in SUBSET S : Cardinality(s) \in Nat /\ Cardinality(s) <= n
                        /\ (Cardinality(s) = 0 <=> s = {})
                        /\ \A x \in s : Cardinality(s \ {x}) = Cardinality(s) - 1
  BY FS_Subset, FS_CardinalityType, FS_EmptySet, FS_RemoveElement
<1>2. 0 \in T
  <2> DEFINE h == [s \in SUBSET S |-> 0]
  <2>1. h \in [SUBSET S -> Int] /\ Right(h, 0)
    <3>1. ASSUME NEW s \in SUBSET S, Cardinality(s) <= 0 PROVE s = {}
      BY <1>1, <3>1
    <3> QED
      BY <3>1
  <2> HIDE DEF Right, h
  <2> QED
    BY <1>1, <2>1
<1>3. ASSUME NEW k \in 1 .. n, k - 1 \in T PROVE k \in T
  <2>1. PICK h \in [SUBSET S -> Int] : Right(h, k - 1)
    BY <1>3
  <2> DEFINE V(s) == IF s = {} THEN 0 ELSE f[AnyOf(s)] + h[s \ {AnyOf(s)}]
             g == [s \in SUBSET S |-> V(s)]
  <2>2. \A s \in SUBSET S : V(s) \in Int
    BY AnyOfIn
  <2>3. g \in [SUBSET S -> Int]
    BY <2>2
  <2>4. ASSUME NEW s \in SUBSET S, Cardinality(s) <= k - 1 PROVE g[s] = h[s]
    BY <2>1, <2>4
  <2>5. ASSUME NEW s \in SUBSET S, Cardinality(s) <= k
        PROVE  g[s] = IF s = {} THEN 0 ELSE f[AnyOf(s)] + g[s \ {AnyOf(s)}]
    <3>1. CASE s = {}
      BY <3>1
    <3>2. CASE s # {}
      <4>1. AnyOf(s) \in s /\ s \ {AnyOf(s)} \in SUBSET S
        BY <3>2, AnyOfIn
      <4>2. Cardinality(s \ {AnyOf(s)}) <= k - 1
        BY <1>1, <2>5, <4>1
      <4>3. g[s \ {AnyOf(s)}] = h[s \ {AnyOf(s)}]
        BY <2>4, <4>1, <4>2
      <4>4. g[s] = f[AnyOf(s)] + h[s \ {AnyOf(s)}]
        BY <3>2
      <4> HIDE DEF g, V
      <4> QED
        BY <3>2, <4>3, <4>4
    <3> QED
      BY <3>1, <3>2
  <2>6. Right(g, k)
    BY <2>5
  <2> HIDE DEF Right, g
  <2> QED
    BY <2>3, <2>6
<1> HIDE DEF T
<1>4. n \in T
  BY <1>1, <1>2, <1>3, UpTo
<1>5. PICK h \in [SUBSET S -> Int] : Right(h, n)
  BY <1>4 DEF T
<1>6. \A s \in SUBSET S : h[s] = IF s = {} THEN 0 ELSE f[AnyOf(s)] + h[s \ {AnyOf(s)}]
  BY <1>1, <1>5
<1> QED
  BY <1>6, SumsAre

(* The sum over a set is that of any one of its elements and the rest.     *)
LEMMA SumOfRest ==
  ASSUME NEW S, IsFiniteSet(S), NEW f \in [S -> Int]
  PROVE  \A s \in SUBSET S :
           /\ SumFunctionOnSet(f, s) \in Int
           /\ s = {} => SumFunctionOnSet(f, s) = 0
           /\ \A x \in s : SumFunctionOnSet(f, s) = f[x] + SumFunctionOnSet(f, s \ {x})
<1>1. PICK h \in [SUBSET S -> Int] : SumsOf(h, f, S)
  BY SumsExist
<1>2. ASSUME NEW s \in SUBSET S PROVE SumFunctionOnSet(f, s) = h[s]
  <2>1. IsFiniteSet(s) /\ [x \in s |-> f[x]] \in [s -> Int]
    BY FS_Subset
  <2>2. PICK g : SumsOf(g, f, s)
    <3> DEFINE h0 == [u \in SUBSET s |-> h[u]]
    <3>1. h0 \in [SUBSET s -> Int]
      OBVIOUS
    <3>2. ASSUME NEW u \in SUBSET s
          PROVE  h0[u] = IF u = {} THEN 0 ELSE f[AnyOf(u)] + h0[u \ {AnyOf(u)}]
      BY <1>1 DEF SumsOf, AnyOf
    <3> HIDE DEF h0
    <3>3. SumsOf(h0, f, s)
      BY <3>1, <3>2, SumsAre
    <3> QED
      BY <3>3
  <2>3. SumsOf(CHOOSE k : SumsOf(k, f, s), f, s)
    BY <2>2
  <2> DEFINE c == CHOOSE k : SumsOf(k, f, s)
  <2>4. SumsOf(c, f, s) /\ SumFunctionOnSet(f, s) = c[s]
    BY <2>3, SumIsSum
  <2> HIDE DEF c
  <2> QED
    BY <1>1, <2>1, <2>4, SumsAgree
<1>3. \A s \in SUBSET S : h[s] = IF s = {} THEN 0 ELSE f[AnyOf(s)] + h[s \ {AnyOf(s)}]
  BY <1>1 DEF SumsOf, AnyOf
<1> DEFINE T == {s \in SUBSET S : \A x \in s : h[s] = f[x] + h[s \ {x}]}
<1>4. ASSUME NEW s \in SUBSET S, \A x \in s : s \ {x} \in T PROVE s \in T
  <2> SUFFICES ASSUME NEW x \in s PROVE h[s] = f[x] + h[s \ {x}]
    OBVIOUS
  <2> DEFINE y == AnyOf(s)
             r == s \ {x, y}
  <2>1. y \in s /\ h[s] = f[y] + h[s \ {y}]
    BY <1>3, AnyOfIn
  <2> HIDE DEF y
  <2>2. CASE x = y
    BY <2>1, <2>2
  <2>3. CASE x # y
    <3>1. x \in s \ {y} /\ y \in s \ {x}
      BY <2>1, <2>3
    <3>2. (s \ {y}) \ {x} = r /\ (s \ {x}) \ {y} = r
      OBVIOUS
    <3>3. h[s \ {y}] = f[x] + h[r] /\ h[s \ {x}] = f[y] + h[r]
      BY <1>4, <2>1, <3>1, <3>2
    <3>4. f[x] \in Int /\ f[y] \in Int /\ h[r] \in Int
      BY <2>1
    <3> QED
      BY <2>1, <3>3, <3>4
  <2> QED
    BY <2>2, <2>3
<1> HIDE DEF T
<1>5. \A s \in SUBSET S : s \in T
  BY <1>4, SubsetsUp
<1> QED
  BY ZenonT(60), <1>2, <1>3, <1>5 DEF T

(* Nothing adds up to nothing.                                             *)
LEMMA SumOfNothing ==
  ASSUME NEW S, IsFiniteSet(S), NEW f \in [S -> Int], \A x \in S : f[x] = 0
  PROVE  SumFunctionOnSet(f, S) = 0
<1> DEFINE F(s) == SumFunctionOnSet(f, s)
           T == {s \in SUBSET S : F(s) = 0}
<1>1. \A s \in SUBSET S : /\ s = {} => F(s) = 0
                          /\ \A x \in s : F(s) = f[x] + F(s \ {x})
  BY SumOfRest
<1> HIDE DEF F
<1>2. ASSUME NEW s \in SUBSET S, \A x \in s : s \ {x} \in T PROVE s \in T
  <2>1. CASE s = {}
    BY <1>1, <2>1
  <2>2. CASE s # {}
    <3>1. PICK x \in s : TRUE
      BY <2>2
    <3>2. F(s \ {x}) = 0 /\ f[x] = 0
      BY <1>2
    <3> QED
      BY <1>1, <3>2
  <2> QED
    BY <2>1, <2>2
<1> HIDE DEF T
<1>3. S \in T
  BY <1>2, SubsetsUp
<1> QED
  BY <1>3 DEF T, F

(* A sum grows with its elements and with its set.                         *)
LEMMA SumGrows ==
  ASSUME NEW S, IsFiniteSet(S), NEW f \in [S -> Int], NEW g \in [S -> Int],
         NEW U \in SUBSET S, \A x \in U : f[x] <= g[x], \A x \in S : 0 <= g[x]
  PROVE  SumFunctionOnSet(f, U) <= SumFunctionOnSet(g, S)
<1> DEFINE F(s) == SumFunctionOnSet(f, s)
           G(s) == SumFunctionOnSet(g, s)
           T == {s \in SUBSET S : F(s \cap U) <= G(s)}
<1>1. \A s \in SUBSET S : /\ F(s) \in Int /\ G(s) \in Int
                          /\ s = {} => F(s) = 0 /\ G(s) = 0
                          /\ \A x \in s : F(s) = f[x] + F(s \ {x}) /\ G(s) = g[x] + G(s \ {x})
  BY SumOfRest
<1> HIDE DEF F, G
<1>2. ASSUME NEW s \in SUBSET S, \A x \in s : s \ {x} \in T PROVE s \in T
  <2>1. CASE s = {}
    BY <1>1, <2>1
  <2>2. CASE s # {}
    <3>1. PICK x \in s : TRUE
      BY <2>2
    <3>2. F((s \ {x}) \cap U) <= G(s \ {x})
      BY <1>2
    <3>3. f[x] \in Int /\ g[x] \in Int /\ 0 <= g[x]
      OBVIOUS
    <3>4. /\ F((s \ {x}) \cap U) \in Int /\ G(s \ {x}) \in Int
          /\ G(s) = g[x] + G(s \ {x})
      BY <1>1
    <3>5. CASE x \in U
      <4>1. (s \cap U) \ {x} = (s \ {x}) \cap U /\ x \in s \cap U /\ s \cap U \in SUBSET S
        BY <3>5
      <4>2. F(s \cap U) = f[x] + F((s \ {x}) \cap U)
        BY <1>1, <4>1
      <4>3. f[x] <= g[x]
        BY <3>5
      <4>4. f[x] + F((s \ {x}) \cap U) <= g[x] + G(s \ {x})
        BY <3>2, <3>3, <3>4, <4>3
      <4> QED
        BY <3>4, <4>2, <4>4
    <3>6. CASE x \notin U
      <4>1. s \cap U = (s \ {x}) \cap U
        BY <3>6
      <4>2. F((s \ {x}) \cap U) <= g[x] + G(s \ {x})
        BY <3>2, <3>3, <3>4
      <4> QED
        BY <3>4, <4>1, <4>2
    <3> QED
      BY <3>5, <3>6
  <2> QED
    BY <2>1, <2>2
<1> HIDE DEF T
<1>3. S \in T
  BY <1>2, SubsetsUp
<1>4. S \cap U = U
  OBVIOUS
<1> QED
  BY <1>3, <1>4 DEF T, F, G

(* A sum changes by what one of its elements changes.                      *)
LEMMA SumAdds ==
  ASSUME NEW S, IsFiniteSet(S), NEW f \in [S -> Int], NEW x \in S, NEW d \in Int,
         NEW g \in [S -> Int], g[x] = f[x] + d, \A y \in S \ {x} : g[y] = f[y]
  PROVE  SumFunctionOnSet(g, S) = SumFunctionOnSet(f, S) + d
<1> DEFINE r == S \ {x}
           F(s) == SumFunctionOnSet(f, s)
           G(s) == SumFunctionOnSet(g, s)
           T == {s \in SUBSET r : F(s) = G(s)}
<1>1. \A s \in SUBSET S : /\ F(s) \in Int /\ G(s) \in Int
                          /\ s = {} => F(s) = 0 /\ G(s) = 0
                          /\ \A y \in s : F(s) = f[y] + F(s \ {y}) /\ G(s) = g[y] + G(s \ {y})
  BY SumOfRest
<1> HIDE DEF F, G
<1>2. IsFiniteSet(r)
  BY FS_Subset
<1>3. ASSUME NEW s \in SUBSET r, \A y \in s : s \ {y} \in T PROVE s \in T
  <2>1. CASE s = {}
    BY <1>1, <2>1
  <2>2. CASE s # {}
    <3>1. PICK y \in s : TRUE
      BY <2>2
    <3>2. F(s \ {y}) = G(s \ {y})
      BY <1>3
    <3>3. F(s) = f[y] + F(s \ {y}) /\ G(s) = g[y] + G(s \ {y})
      BY <1>1
    <3> QED
      BY <3>2, <3>3
  <2> QED
    BY <2>1, <2>2
<1> HIDE DEF T, r
<1>4. \A s \in SUBSET r : s \in T
  BY <1>2, <1>3, SubsetsUp
<1>5. /\ F(S) = f[x] + F(r) /\ G(S) = g[x] + G(r) /\ F(r) = G(r)
      /\ F(r) \in Int /\ f[x] \in Int
  BY <1>1, <1>4 DEF T, r
<1> QED
  BY <1>5 DEF F, G
=============================================================================
