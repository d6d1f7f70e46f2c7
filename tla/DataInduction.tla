---------------------------- MODULE DataInduction ----------------------------
(***************************************************************************)
(* Induction stated with sets instead of operators, so that the provers    *)
(* can use it: a set of naturals has a least element, and the one that     *)
(* holds 0 and every successor is Nat.  What is proved with it about the   *)
(* recursive functions of the models takes the set of those arguments for  *)
(* which the claim holds.                                                  *)
(***************************************************************************)
EXTENDS Integers, FiniteSetsExt, SequencesExt, WellFoundedInduction, TLAPS

Below == OpToRel(<, Nat)

LEMMA BelowIsLess == \A x, y \in Nat : <<y, x>> \in Below <=> y < x
<1>1. \A x, y \in Nat : <<y, x>> \in OpToRel(<, Nat) <=> y < x
  BY DEF OpToRel
<1>. QED BY <1>1, Zenon DEF Below

LEMMA BelowIsWellFounded == IsWellFoundedOn(Below, Nat)
BY NatLessThanWellFounded, Zenon DEF Below

\* a set of naturals that is not empty has a least element
LEMMA LeastElement ==
  ASSUME NEW S, S \subseteq Nat, S # {}
  PROVE  \E x \in S : \A y \in S : x <= y
<1>1. PICK x \in S : \A y \in S : ~ (<<y, x>> \in Below)
  BY BelowIsWellFounded, WFMin, Zenon
<1>2. \A y \in S : ~ (y < x)
  BY <1>1, BelowIsLess
<1>3. \A y \in S : x <= y
  BY <1>2
<1>. QED BY <1>3

LEMMA MinIsLeast ==
  ASSUME NEW S, S \subseteq Nat, S # {}
  PROVE  Min(S) \in S /\ \A y \in S : Min(S) <= y
BY LeastElement DEF Min

\* a bounded set of naturals that is not empty has a greatest element
LEMMA MaxIsGreatest ==
  ASSUME NEW S, S \subseteq Nat, S # {}, NEW n \in Nat, \A y \in S : y <= n
  PROVE  Max(S) \in S /\ \A y \in S : Max(S) >= y
<1>. DEFINE T == {n - y : y \in S}
<1>1. T \subseteq Nat /\ T # {}
  <2>1. \A y \in S : n - y \in Nat
    OBVIOUS
  <2>2. PICK y \in S : TRUE
    OBVIOUS
  <2>3. n - y \in T
    BY <2>2
  <2>. QED BY <2>1, <2>3
<1>2. PICK t \in T : \A u \in T : t <= u
  BY <1>1, LeastElement
<1>3. PICK x \in S : t = n - x
  OBVIOUS
<1>4. \A y \in S : x >= y
  <2>. SUFFICES ASSUME NEW y \in S PROVE x >= y
    OBVIOUS
  <2>1. n - x <= n - y
    BY <1>2, <1>3
  <2>. QED BY <2>1
<1>. QED BY <1>4 DEF Max

LEMMA SetInduction ==
  ASSUME NEW S, S \subseteq Nat, 0 \in S, \A n \in S : n + 1 \in S
  PROVE  S = Nat
<1>. SUFFICES ASSUME Nat \ S # {} PROVE FALSE
  OBVIOUS
<1>1. PICK x \in Nat \ S : \A y \in Nat \ S : x <= y
  BY LeastElement
<1>2. x - 1 \in Nat /\ x - 1 \notin S
  BY <1>1
<1>. QED BY <1>1, <1>2

\* the same up to a bound
LEMMA BoundedInduction ==
  ASSUME NEW m \in Nat, NEW S, 0 \in S, \A n \in S : n \in Nat /\ n < m => n + 1 \in S
  PROVE  \A n \in 0 .. m : n \in S
<1>. DEFINE T == {n \in Nat : n <= m => n \in S}
<1>1. T = Nat
  <2>1. 0 \in T
    OBVIOUS
  <2>2. ASSUME NEW n \in T PROVE n + 1 \in T
    BY <2>2
  <2>. HIDE DEF T
  <2>3. T \subseteq Nat
    BY DEF T
  <2>. QED BY <2>1, <2>2, <2>3, SetInduction
<1>. QED BY <1>1

-----------------------------------------------------------------------------
(* Recursive functions.  R[k][g] is the value at k when g has the values   *)
(* that it is computed from, which are those of greater arguments, or of   *)
(* smaller ones.  Then there is a function with these values, its values   *)
(* are in V, and every other function that satisfies the equations is the  *)
(* same.                                                                   *)

FromAbove(R, m, V) ==
  \A i \in 1 .. m : \A g, h \in [1 .. m -> V] :
    (\A j \in 1 .. m : i < j => g[j] = h[j]) => R[i][g] = R[i][h]
SolvedFromAbove(R, m, V) == \E g \in [1 .. m -> V] : \A i \in 1 .. m : g[i] = R[i][g]
SolvedFromBelow(R, m, V) == \E g \in [0 .. m -> V] : \A i \in 0 .. m : g[i] = R[i][g]
FromBelow(R, m, V) ==
  \A i \in 0 .. m : \A g, h \in [0 .. m -> V] :
    (\A j \in 0 .. m : j < i => g[j] = h[j]) => R[i][g] = R[i][h]

LEMMA DownRecursion ==
  ASSUME NEW m \in Nat, NEW V, V # {}, NEW R, R \in [1 .. m -> [[1 .. m -> V] -> V]],
         FromAbove(R, m, V)
  PROVE  SolvedFromAbove(R, m, V)
<1>. DEFINE S == {n \in Nat : \E g \in [1 .. m -> V] :
                    \A i \in 1 .. m : m - n < i => g[i] = R[i][g]}
<1>1. 0 \in S
  <2>1. PICK v \in V : TRUE
    OBVIOUS
  <2>2. [i \in 1 .. m |-> v] \in [1 .. m -> V] /\ \A i \in 1 .. m : ~(m - 0 < i)
    OBVIOUS
  <2>. QED BY <2>2
<1>2. ASSUME NEW n \in S, n \in Nat, n < m PROVE n + 1 \in S
  <2>1. PICK g \in [1 .. m -> V] : \A i \in 1 .. m : m - n < i => g[i] = R[i][g]
    OBVIOUS
  <2>2. PICK k \in 1 .. m : k = m - n
    BY <1>2
  <2>3. R[k][g] \in V
    OBVIOUS
  <2>4. PICK h \in [1 .. m -> V] : h = [g EXCEPT ![k] = R[k][g]]
    BY <2>3
  <2>5. \A j \in 1 .. m : k < j => g[j] = h[j]
    BY <2>4
  <2>6. \A i \in 1 .. m : k <= i => R[i][g] = R[i][h]
    <3>. SUFFICES ASSUME NEW i \in 1 .. m, k <= i PROVE R[i][g] = R[i][h]
      OBVIOUS
    <3>1. \A j \in 1 .. m : i < j => g[j] = h[j]
      BY <2>5
    <3>. QED BY <3>1 DEF FromAbove
  <2>7. ASSUME NEW i \in 1 .. m, m - (n + 1) < i PROVE h[i] = R[i][h]
    <3>1. CASE i = k
      <4>1. h[k] = R[k][g]
        BY <2>4
      <4>2. R[k][g] = R[k][h]
        BY <2>6
      <4>. QED BY <3>1, <4>1, <4>2
    <3>2. CASE i # k
      <4>1. k < i
        BY <1>2, <2>2, <2>7, <3>2
      <4>. QED BY <2>1, <2>2, <2>5, <2>6, <4>1
    <3>. QED BY <3>1, <3>2
  <2>. QED BY <1>2, <2>7
<1>3. m \in S
  <2>. HIDE DEF S
  <2>1. \A n \in 0 .. m : n \in S
    BY <1>1, <1>2, BoundedInduction
  <2>. QED BY <2>1
<1>4. PICK g \in [1 .. m -> V] : \A i \in 1 .. m : m - m < i => g[i] = R[i][g]
  BY <1>3
<1>. QED BY <1>4 DEF SolvedFromAbove

LEMMA UpRecursion ==
  ASSUME NEW m \in Nat, NEW V, V # {}, NEW R, R \in [0 .. m -> [[0 .. m -> V] -> V]],
         FromBelow(R, m, V)
  PROVE  SolvedFromBelow(R, m, V)
<1>. DEFINE S == {n \in Nat : \E g \in [0 .. m -> V] :
                    \A i \in 0 .. m : i < n => g[i] = R[i][g]}
<1>1. 0 \in S
  <2>1. PICK v \in V : TRUE
    OBVIOUS
  <2>2. [i \in 0 .. m |-> v] \in [0 .. m -> V] /\ \A i \in 0 .. m : ~(i < 0)
    OBVIOUS
  <2>. QED BY <2>2
<1>2. ASSUME NEW n \in S, n \in Nat, n < m + 1 PROVE n + 1 \in S
  <2>1. PICK g \in [0 .. m -> V] : \A i \in 0 .. m : i < n => g[i] = R[i][g]
    OBVIOUS
  <2>2. n \in 0 .. m
    BY <1>2
  <2>3. R[n][g] \in V
    BY <2>2
  <2>4. PICK h \in [0 .. m -> V] : h = [g EXCEPT ![n] = R[n][g]]
    BY <2>2, <2>3
  <2>5. \A j \in 0 .. m : j < n => g[j] = h[j]
    BY <2>4
  <2>6. \A i \in 0 .. m : i <= n => R[i][g] = R[i][h]
    <3>. SUFFICES ASSUME NEW i \in 0 .. m, i <= n PROVE R[i][g] = R[i][h]
      OBVIOUS
    <3>1. \A j \in 0 .. m : j < i => g[j] = h[j]
      BY <2>2, <2>5
    <3>. QED BY <3>1 DEF FromBelow
  <2>7. \A i \in 0 .. m : i < n + 1 => h[i] = R[i][h]
    <3>. SUFFICES ASSUME NEW i \in 0 .. m, i < n + 1 PROVE h[i] = R[i][h]
      OBVIOUS
    <3>1. CASE i = n
      <4>1. h[n] = R[n][g]
        BY <2>2, <2>4
      <4>2. R[n][g] = R[n][h]
        BY <2>2, <2>6
      <4>. QED BY <3>1, <4>1, <4>2
    <3>2. CASE i # n
      <4>1. i < n
        BY <1>2, <3>2
      <4>. QED BY <2>1, <2>5, <2>6, <4>1
    <3>. QED BY <3>1, <3>2
  <2>8. \E f \in [0 .. m -> V] : \A i \in 0 .. m : i < n + 1 => f[i] = R[i][f]
    BY <2>7
  <2>9. n + 1 \in Nat
    BY <1>2
  <2>. QED BY <2>8, <2>9
<1>3. m + 1 \in S
  <2>. HIDE DEF S
  <2>1. \A n \in 0 .. (m + 1) : n \in S
    BY <1>1, <1>2, BoundedInduction
  <2>. QED BY <2>1
<1>4. PICK g \in [0 .. m -> V] : \A i \in 0 .. m : i < m + 1 => g[i] = R[i][g]
  BY <1>3
<1>. QED BY <1>4 DEF SolvedFromBelow

\* f and g are equal at k if they are wherever the value at k is computed from
EqualFromAbove(f, g, m) ==
  \A i \in 1 .. m : (\A j \in 1 .. m : i < j => f[j] = g[j]) => f[i] = g[i]
EqualFromBelow(f, g, m) ==
  \A i \in 0 .. m : (\A j \in 0 .. m : j < i => f[j] = g[j]) => f[i] = g[i]

LEMMA DownUnique ==
  ASSUME NEW m \in Nat, NEW f, NEW g, EqualFromAbove(f, g, m)
  PROVE  \A i \in 1 .. m : f[i] = g[i]
<1>. DEFINE S == {n \in Nat : \A i \in 1 .. m : m - n < i => f[i] = g[i]}
<1>1. 0 \in S
  OBVIOUS
<1>2. ASSUME NEW n \in S, n \in Nat, n < m PROVE n + 1 \in S
  <2>. SUFFICES ASSUME NEW i \in 1 .. m, m - (n + 1) < i PROVE f[i] = g[i]
    BY <1>2
  <2>1. \A j \in 1 .. m : i < j => f[j] = g[j]
    BY <1>2
  <2>. QED BY <2>1 DEF EqualFromAbove
<1>3. m \in S
  <2>. HIDE DEF S
  <2>1. \A n \in 0 .. m : n \in S
    BY <1>1, <1>2, BoundedInduction
  <2>. QED BY <2>1
<1>. QED BY <1>3

LEMMA UpUnique ==
  ASSUME NEW m \in Nat, NEW f, NEW g, EqualFromBelow(f, g, m)
  PROVE  \A i \in 0 .. m : f[i] = g[i]
<1>. DEFINE S == {n \in Nat : \A i \in 0 .. m : i < n => f[i] = g[i]}
<1>1. 0 \in S
  OBVIOUS
<1>2. ASSUME NEW n \in S, n \in Nat, n < m + 1 PROVE n + 1 \in S
  <2>. SUFFICES ASSUME NEW i \in 0 .. m, i < n + 1 PROVE f[i] = g[i]
    BY <1>2
  <2>1. \A j \in 0 .. m : j < i => f[j] = g[j]
    BY <1>2
  <2>. QED BY <2>1 DEF EqualFromBelow
<1>3. m + 1 \in S
  <2>. HIDE DEF S
  <2>1. \A n \in 0 .. (m + 1) : n \in S
    BY <1>1, <1>2, BoundedInduction
  <2>. QED BY <2>1
<1>. QED BY <1>3

-----------------------------------------------------------------------------
(* Sequences of sequences, put together.  g[i] is the first i of them.     *)

FlatRow(g, ss, i) == IF i = 0 THEN <<>> ELSE g[i - 1] \o ss[i]

LEMMA FlatRowType ==
  ASSUME NEW S, NEW ss \in Seq(Seq(S)), NEW g \in [0 .. Len(ss) -> Seq(S)],
         NEW i \in 0 .. Len(ss)
  PROVE  FlatRow(g, ss, i) \in Seq(S)
<1>1. CASE i = 0
  BY <1>1 DEF FlatRow
<1>2. CASE i # 0
  <2>1. i - 1 \in 0 .. Len(ss) /\ i \in 1 .. Len(ss)
    BY <1>2
  <2>2. g[i - 1] \in Seq(S) /\ ss[i] \in Seq(S)
    BY <2>1, SMTT(30)
  <2>. QED BY <1>2, <2>2 DEF FlatRow
<1>. QED BY <1>1, <1>2

LEMMA FlatExists ==
  ASSUME NEW S, NEW ss \in Seq(Seq(S))
  PROVE  \E g \in [0 .. Len(ss) -> Seq(S)] : \A i \in 0 .. Len(ss) : g[i] = FlatRow(g, ss, i)
<1>. DEFINE m == Len(ss)
            V == Seq(S)
            R == [i \in 0 .. m |-> [g \in [0 .. m -> V] |-> FlatRow(g, ss, i)]]
<1>1. m \in Nat /\ V # {}
  <2>1. <<>> \in Seq(S)
    OBVIOUS
  <2>. QED BY <2>1
<1>2. R \in [0 .. m -> [[0 .. m -> V] -> V]]
  BY FlatRowType
<1>3. ASSUME NEW i \in 0 .. m, NEW g \in [0 .. m -> V], NEW h \in [0 .. m -> V],
             \A j \in 0 .. m : j < i => g[j] = h[j]
      PROVE  R[i][g] = R[i][h]
  <2>1. i # 0 => g[i - 1] = h[i - 1]
    BY <1>1, <1>3
  <2>. QED BY <2>1 DEF FlatRow
<1>4. \E g \in [0 .. m -> V] : \A i \in 0 .. m : g[i] = R[i][g]
  <2>. HIDE DEF m, V, R
  <2>1. FromBelow(R, m, V)
    BY <1>3 DEF FromBelow
  <2>2. SolvedFromBelow(R, m, V)
    BY <1>1, <1>2, <2>1, UpRecursion
  <2>. QED BY <2>2 DEF SolvedFromBelow
<1>. QED BY <1>4

IsFlat(g, ss, S) ==
  /\ g \in [0 .. Len(ss) -> Seq(S)]
  /\ g[0] = <<>>
  /\ \A i \in 1 .. Len(ss) : g[i] = g[i - 1] \o ss[i]
  /\ FlattenSeq(ss) = g[Len(ss)]

LEMMA FlatFacts ==
  ASSUME NEW S, NEW ss \in Seq(Seq(S))
  PROVE  \E g : IsFlat(g, ss, S)
<1>1. PICK g \in [0 .. Len(ss) -> Seq(S)] : \A i \in 0 .. Len(ss) : g[i] = FlatRow(g, ss, i)
  BY FlatExists
<1>2. /\ Len(ss) \in Nat /\ g[0] = <<>>
      /\ \A i \in 1 .. Len(ss) : g[i] = g[i - 1] \o ss[i]
  BY <1>1 DEF FlatRow
<1>3. CASE Len(ss) = 0
  <2>1. FlattenSeq(ss) = <<>>
    BY <1>3 DEF FlattenSeq
  <2>. QED BY <1>2, <1>3, <2>1 DEF IsFlat
<1>4. CASE Len(ss) # 0
  <2>. DEFINE Row(f) == [i \in 1 .. Len(ss) |-> IF i = 1 THEN ss[i] ELSE f[i - 1] \o ss[i]]
              c == CHOOSE f : f = Row(f)
  <2>1. FlattenSeq(ss) = c[Len(ss)]
    BY <1>4 DEF FlattenSeq
  <2>2. g[1] = ss[1]
    <3>1. ss[1] \in Seq(S)
      BY <1>2, <1>4
    <3>2. <<>> \o ss[1] = ss[1]
      BY <3>1
    <3>3. 1 \in 1 .. Len(ss) /\ 1 - 1 = 0
      BY <1>2, <1>4
    <3>4. g[1] = g[1 - 1] \o ss[1]
      BY <1>2, <3>3
    <3>. QED BY <1>2, <3>2, <3>3, <3>4
  <2>3. PICK h : h = [i \in 1 .. Len(ss) |-> g[i]]
    OBVIOUS
  <2>4. ASSUME NEW i \in 1 .. Len(ss)
        PROVE  h[i] = IF i = 1 THEN ss[i] ELSE h[i - 1] \o ss[i]
    <3>1. CASE i = 1
      BY <2>2, <2>3, <3>1
    <3>2. CASE i # 1
      <4>1. i - 1 \in 1 .. Len(ss)
        BY <1>2, <3>2
      <4>. QED BY <1>2, <2>3, <3>2, <4>1
    <3>. QED BY <3>1, <3>2
  <2>5. h = Row(h)
    BY <2>3, <2>4
  <2>6. c = Row(c)
    <3>. HIDE DEF Row
    <3>. QED BY <2>5
  <2>. HIDE DEF c
  <2>7. \A i \in 1 .. Len(ss) : c[i] = IF i = 1 THEN ss[i] ELSE c[i - 1] \o ss[i]
    BY <2>6
  <2>8. PICK f : f = [i \in 0 .. Len(ss) |-> IF i = 0 THEN <<>> ELSE c[i]]
    OBVIOUS
  <2>9. EqualFromBelow(f, g, Len(ss))
    <3>. SUFFICES ASSUME NEW i \in 0 .. Len(ss), \A j \in 0 .. Len(ss) : j < i => f[j] = g[j]
                  PROVE  f[i] = g[i]
      BY DEF EqualFromBelow
    <3>1. CASE i = 0
      BY <1>2, <2>8, <3>1
    <3>2. CASE i = 1
      BY <2>2, <2>7, <2>8, <3>2
    <3>3. CASE i # 0 /\ i # 1
      <4>1. i - 1 \in 1 .. Len(ss) /\ i \in 1 .. Len(ss) /\ i - 1 \in 0 .. Len(ss) /\ i - 1 < i
        BY <1>2, <3>3
      <4>2. f[i - 1] = c[i - 1] /\ f[i] = c[i] /\ f[i - 1] = g[i - 1]
        BY <2>8, <3>3, <4>1
      <4>3. c[i] = c[i - 1] \o ss[i]
        BY <2>7, <3>3, <4>1
      <4>4. g[i] = g[i - 1] \o ss[i]
        BY <1>2, <4>1
      <4>. QED BY <4>2, <4>3, <4>4
    <3>. QED BY <3>1, <3>2, <3>3
  <2>10. \A i \in 0 .. Len(ss) : f[i] = g[i]
    BY <1>2, <2>9, UpUnique, Zenon
  <2>11. Len(ss) \in 0 .. Len(ss) /\ Len(ss) \in 1 .. Len(ss)
    BY <1>2, <1>4
  <2>12. c[Len(ss)] = g[Len(ss)]
    BY <1>4, <2>8, <2>10, <2>11
  <2>. QED BY <1>1, <1>2, <2>1, <2>12 DEF IsFlat
<1>. QED BY <1>3, <1>4

LEMMA FlatType ==
  ASSUME NEW S, NEW ss \in Seq(Seq(S))
  PROVE  FlattenSeq(ss) \in Seq(S)
<1>1. PICK g : IsFlat(g, ss, S)
  BY FlatFacts
<1>. QED BY <1>1 DEF IsFlat

LEMMA FlatNone == FlattenSeq(<<>>) = <<>>
BY DEF FlattenSeq

\* one more piece goes to the end
LEMMA FlatAppend ==
  ASSUME NEW S, NEW ss \in Seq(Seq(S)), NEW s \in Seq(S)
  PROVE  FlattenSeq(Append(ss, s)) = FlattenSeq(ss) \o s
<1>1. PICK n \in Nat : n = Len(ss)
  OBVIOUS
<1>2. PICK tt : tt = Append(ss, s)
  OBVIOUS
<1>3. /\ tt \in Seq(Seq(S)) /\ Len(tt) = n + 1 /\ tt[n + 1] = s
      /\ \A i \in 1 .. n : tt[i] = ss[i]
  BY <1>1, <1>2
<1>4. PICK g : IsFlat(g, ss, S)
  BY FlatFacts
<1>5. PICK h : IsFlat(h, tt, S)
  BY <1>3, FlatFacts
<1>6. EqualFromBelow(g, h, n)
  <2>. SUFFICES ASSUME NEW i \in 0 .. n, \A j \in 0 .. n : j < i => g[j] = h[j]
                PROVE  g[i] = h[i]
    BY DEF EqualFromBelow
  <2>1. CASE i = 0
    BY <1>4, <1>5, <2>1 DEF IsFlat
  <2>2. CASE i # 0
    <3>1. i - 1 \in 0 .. n /\ i \in 1 .. n /\ i \in 1 .. n + 1 /\ i - 1 < i
      BY <2>2
    <3>2. g[i] = g[i - 1] \o ss[i] /\ h[i] = h[i - 1] \o tt[i]
      BY <1>1, <1>3, <1>4, <1>5, <3>1 DEF IsFlat
    <3>. QED BY <1>3, <3>1, <3>2
  <2>. QED BY <2>1, <2>2
<1>7. g[n] = h[n]
  <2>1. \A i \in 0 .. n : g[i] = h[i]
    BY <1>6, UpUnique, Zenon
  <2>. QED BY <2>1
<1>8. h[n + 1] = h[n] \o s
  <2>1. n + 1 \in 1 .. Len(tt) /\ (n + 1) - 1 = n
    BY <1>3
  <2>2. h[n + 1] = h[(n + 1) - 1] \o tt[n + 1]
    BY <1>5, <2>1 DEF IsFlat
  <2>. QED BY <1>3, <2>1, <2>2
<1>9. FlattenSeq(ss) = g[n] /\ FlattenSeq(tt) = h[n + 1]
  BY <1>1, <1>3, <1>4, <1>5 DEF IsFlat
<1>. QED BY <1>2, <1>7, <1>8, <1>9

\* a sequence up to k, and up to the next element
LEMMA NextPrefix ==
  ASSUME NEW S, NEW s \in Seq(S), NEW k \in Nat, k < Len(s)
  PROVE  /\ SubSeq(s, 1, k) \in Seq(S) /\ SubSeq(s, 1, k + 1) \in Seq(S)
         /\ Len(SubSeq(s, 1, k)) = k
         /\ s[k + 1] \in S
         /\ SubSeq(s, 1, k + 1) = Append(SubSeq(s, 1, k), s[k + 1])
OBVIOUS

LEMMA AllOfIt ==
  ASSUME NEW S, NEW s \in Seq(S)
  PROVE  SubSeq(s, 1, Len(s)) = s /\ SubSeq(s, 1, 0) = <<>>
OBVIOUS

LEMMA SeqInclusion ==
  ASSUME NEW T, NEW S, T \subseteq S, NEW s \in Seq(T)
  PROVE  s \in Seq(S)
OBVIOUS

LEMMA SeqOfOne ==
  ASSUME NEW S, NEW x \in S
  PROVE  <<x>> \in Seq(S) /\ Len(<<x>>) = 1 /\ <<x>>[1] = x /\ <<x>> # <<>>
OBVIOUS

LEMMA SeqOfNone == \A S : <<>> \in Seq(S) /\ Len(<<>>) = 0
OBVIOUS

LEMMA FlatNext ==
  ASSUME NEW S, NEW ss \in Seq(Seq(S)), NEW k \in Nat, k < Len(ss)
  PROVE  FlattenSeq(SubSeq(ss, 1, k + 1)) = FlattenSeq(SubSeq(ss, 1, k)) \o ss[k + 1]
<1>1. /\ SubSeq(ss, 1, k) \in Seq(Seq(S)) /\ ss[k + 1] \in Seq(S)
      /\ SubSeq(ss, 1, k + 1) = Append(SubSeq(ss, 1, k), ss[k + 1])
  BY NextPrefix
<1>. QED BY <1>1, FlatAppend
=============================================================================
