------------------------- MODULE FilterFilesProofs -------------------------
(***************************************************************************)
(* Proofs about FilterFiles, for any files, contents and options. Three    *)
(* invariants, each inductive with the ones before it: LInv (the files     *)
(* being read are distinct, and are what `visiting' holds), CInv (what has *)
(* been read is in order, and a refusal has a cause) and UInv (the rules   *)
(* are those of the pieces read so far). With them the loader is typed,    *)
(* refuses its options exactly for a cause, and leaves the rules of the    *)
(* lines with every merged file in the place of its merge line.            *)
(*                                                                         *)
(* The last part is about single patterns: the recursions of parse_class,  *)
(* tokenize and the matcher have one solution each, tokens match a text    *)
(* exactly when the text can be cut as the tokens describe, and so a       *)
(* parsed pattern matches what the documentation says of its text.         *)
(***************************************************************************)
EXTENDS FilterFiles, FiniteSetTheorems, SequenceTheorems, DataInduction, TLAPS

-----------------------------------------------------------------------------
(* Sequences that are put together, and what is left of them.              *)

LEMMA WithoutPieces ==
  ASSUME NEW c, NEW S, NEW seq \in Seq(S)
  PROVE  [k \in DOMAIN seq |-> IF seq[k] = c THEN <<>> ELSE <<seq[k]>>] \in Seq(Seq(S \ {c}))
<1>1. /\ Len(seq) \in Nat /\ DOMAIN seq = 1 .. Len(seq)
  OBVIOUS
<1>2. ASSUME NEW k \in 1 .. Len(seq)
      PROVE  (IF seq[k] = c THEN <<>> ELSE <<seq[k]>>) \in Seq(S \ {c})
  <2>1. CASE seq[k] = c
    BY <2>1, SeqOfNone
  <2>2. CASE seq[k] # c
    <3>1. seq[k] \in S \ {c}
      BY <1>1, <2>2
    <3>. QED BY <2>2, <3>1, SeqOfOne
  <2>. QED BY <2>1, <2>2
<1>. QED BY <1>1, <1>2

LEMMA WithoutType ==
  ASSUME NEW c, NEW S, NEW seq \in Seq(S)
  PROVE  Without(c, seq) \in Seq(S \ {c}) /\ Without(c, seq) \in Seq(S)
<1>1. Without(c, seq) \in Seq(S \ {c})
  BY WithoutPieces, FlatType DEF Without
<1>. QED BY <1>1

LEMMA WithoutNone ==
  ASSUME NEW c
  PROVE  Without(c, <<>>) = <<>>
<1>1. [k \in DOMAIN <<>> |-> IF <<>>[k] = c THEN <<>> ELSE <<<<>>[k]>>] = <<>>
  OBVIOUS
<1>. QED BY <1>1, FlatNone DEF Without

LEMMA WithoutAppend ==
  ASSUME NEW c, NEW S, NEW seq \in Seq(S), NEW x \in S
  PROVE  Without(c, Append(seq, x)) =
           IF x = c THEN Without(c, seq) ELSE Append(Without(c, seq), x)
<1>. DEFINE F(s) == [k \in DOMAIN s |-> IF s[k] = c THEN <<>> ELSE <<s[k]>>]
            p == IF x = c THEN <<>> ELSE <<x>>
<1>1. F(Append(seq, x)) = Append(F(seq), p)
  <2>1. PICK n \in Nat : n = Len(seq) /\ DOMAIN seq = 1 .. n
    OBVIOUS
  <2>. HIDE DEF F
  <2>a. Append(seq, x) \in Seq(S)
    OBVIOUS
  <2>2. PICK t \in Seq(S) : t = Append(seq, x)
    BY <2>a
  <2>. USE DEF F
  <2>3. Len(t) = n + 1 /\ DOMAIN t = 1 .. n + 1 /\ t[n + 1] = x /\ \A k \in 1 .. n : t[k] = seq[k]
    BY <2>1, <2>2
  <2>4. PICK u \in Seq(Seq(S)) : u = F(seq)
    <3>1. F(seq) \in Seq(Seq(S \ {c}))
      BY WithoutPieces
    <3>2. F(seq) \in Seq(Seq(S))
      <4>1. Seq(S \ {c}) \subseteq Seq(S)
        BY SeqInclusion
      <4>. HIDE DEF F
      <4>. QED BY <3>1, <4>1, SeqInclusion
    <3>. HIDE DEF F
    <3>. QED BY <3>2
  <2>5. Len(u) = n /\ DOMAIN u = 1 .. n /\ \A k \in 1 .. n : u[k] = IF seq[k] = c THEN <<>> ELSE <<seq[k]>>
    BY <2>1, <2>4
  <2>6. PICK v : v = F(t)
    OBVIOUS
  <2>7. v = [k \in 1 .. n + 1 |-> IF t[k] = c THEN <<>> ELSE <<t[k]>>]
    BY <2>3, <2>6
  <2>. HIDE DEF F
  <2>8. PICK w : w = Append(u, p)
    OBVIOUS
  <2>9. w = [k \in 1 .. n + 1 |-> IF k = n + 1 THEN p ELSE u[k]]
    BY <2>5, <2>8
  <2>10. \A k \in 1 .. n + 1 : v[k] = w[k]
    <3>. SUFFICES ASSUME NEW k \in 1 .. n + 1 PROVE v[k] = w[k]
      OBVIOUS
    <3>1. CASE k = n + 1
      BY <2>3, <2>7, <2>9, <3>1
    <3>2. CASE k # n + 1
      <4>1. k \in 1 .. n
        BY <3>2
      <4>2. v[k] = (IF seq[k] = c THEN <<>> ELSE <<seq[k]>>) /\ w[k] = u[k]
        BY <2>3, <2>7, <2>9, <3>2, <4>1
      <4>. QED BY <2>5, <4>1, <4>2
    <3>. QED BY <3>1, <3>2
  <2>11. v = w
    BY <2>7, <2>9, <2>10
  <2>. QED BY <2>2, <2>4, <2>6, <2>8, <2>11
<1>2. F(seq) \in Seq(Seq(S \ {c})) /\ p \in Seq(S \ {c})
  <2>1. CASE x = c
    BY <2>1, WithoutPieces, SeqOfNone
  <2>2. CASE x # c
    <3>1. x \in S \ {c}
      BY <2>2
    <3>. QED BY <2>2, <3>1, WithoutPieces, SeqOfOne
  <2>. QED BY <2>1, <2>2
<1>3. Without(c, Append(seq, x)) = FlattenSeq(F(Append(seq, x))) /\ Without(c, seq) = FlattenSeq(F(seq))
  BY DEF Without
<1>4. Without(c, Append(seq, x)) = Without(c, seq) \o p
  <2>. HIDE DEF F, p
  <2>. QED BY <1>1, <1>2, <1>3, FlatAppend
<1>5. Without(c, seq) \in Seq(S)
  BY WithoutType
<1>. QED BY <1>4, <1>5

\* what begins with something else than c leaves something
LEMMA WithoutSome ==
  ASSUME NEW c, NEW S, NEW seq \in Seq(S), seq # <<>>, Head(seq) # c
  PROVE  Without(c, seq) # <<>>
<1>1. PICK n \in Nat : n = Len(seq)
  OBVIOUS
<1>. DEFINE G == {k \in Nat : k = 0 \/ n < k \/ Without(c, SubSeq(seq, 1, k)) # <<>>}
<1>2. 0 \in G
  OBVIOUS
<1>3. ASSUME NEW k \in G, k \in Nat, k < n PROVE k + 1 \in G
  <2>1. PICK s \in Seq(S) : s = SubSeq(seq, 1, k)
    BY <1>1, <1>3, NextPrefix
  <2>2. PICK x \in S : x = seq[k + 1] /\ SubSeq(seq, 1, k + 1) = Append(s, x)
    BY <1>1, <1>3, <2>1, NextPrefix
  <2>3. PICK w \in Seq(S) : w = Without(c, s)
    BY WithoutType
  <2>4. Without(c, Append(s, x)) = IF x = c THEN w ELSE Append(w, x)
    BY <2>3, WithoutAppend
  <2>5. x # c \/ w # <<>>
    <3>1. CASE k = 0
      BY <2>2, <3>1
    <3>2. CASE k # 0
      BY <1>3, <2>1, <2>3, <3>2
    <3>. QED BY <3>1, <3>2
  <2>6. Append(w, x) # <<>>
    OBVIOUS
  <2>7. Without(c, Append(s, x)) # <<>>
    BY <2>4, <2>5, <2>6
  <2>8. Without(c, SubSeq(seq, 1, k + 1)) # <<>>
    BY <2>2, <2>7, Zenon
  <2>9. k + 1 \in Nat
    BY <1>3
  <2>. QED BY <2>8, <2>9
<1>4. \A k \in 0 .. n : k \in G
  <2>. HIDE DEF G
  <2>. QED BY <1>2, <1>3, BoundedInduction
<1>5. n \in G /\ n # 0
  BY <1>1, <1>4
<1>6. SubSeq(seq, 1, n) = seq
  BY <1>1, AllOfIt
<1>7. Without(c, SubSeq(seq, 1, n)) # <<>>
  <2>1. ~(n < n)
    BY <1>1
  <2>. QED BY <1>5, <2>1
<1>. QED BY <1>6, <1>7

LEMMA AppendFacts ==
  ASSUME NEW S, NEW s \in Seq(S), NEW x \in S
  PROVE  /\ Append(s, x) \in Seq(S) /\ Append(s, x) # <<>>
         /\ Len(Append(s, x)) = Len(s) + 1
         /\ Append(s, x)[Len(s) + 1] = x
         /\ \A i \in 1 .. Len(s) : Append(s, x)[i] = s[i]
         /\ Front(Append(s, x)) = s /\ Last(Append(s, x)) = x
<1>1. /\ Append(s, x) \in Seq(S) /\ Append(s, x) # <<>>
      /\ Len(Append(s, x)) = Len(s) + 1
      /\ Append(s, x)[Len(s) + 1] = x
      /\ \A i \in 1 .. Len(s) : Append(s, x)[i] = s[i]
  OBVIOUS
<1>2. SubSeq(Append(s, x), 1, (Len(s) + 1) - 1) = s
  OBVIOUS
<1>. QED BY <1>1, <1>2 DEF Front, Last

LEMMA FrontFacts ==
  ASSUME NEW S, NEW s \in Seq(S), s # <<>>
  PROVE  /\ Front(s) \in Seq(S) /\ Last(s) \in S
         /\ Len(s) > 0 /\ Len(Front(s)) = Len(s) - 1
         /\ \A i \in 1 .. Len(s) - 1 : Front(s)[i] = s[i]
         /\ Last(s) = s[Len(s)]
         /\ Append(Front(s), Last(s)) = s
<1>1. PICK n \in Nat : Len(s) = n + 1
  <2>1. Len(s) \in Nat /\ Len(s) # 0
    OBVIOUS
  <2>2. Len(s) - 1 \in Nat /\ Len(s) = (Len(s) - 1) + 1
    BY <2>1
  <2>. QED BY <2>2
<1>2. /\ SubSeq(s, 1, n) \in Seq(S) /\ Len(SubSeq(s, 1, n)) = n /\ s[n + 1] \in S
      /\ \A i \in 1 .. n : SubSeq(s, 1, n)[i] = s[i]
      /\ SubSeq(s, 1, n + 1) = Append(SubSeq(s, 1, n), s[n + 1])
  BY <1>1
<1>3. SubSeq(s, 1, n + 1) = s
  BY <1>1
<1>4. Front(s) = SubSeq(s, 1, n) /\ Last(s) = s[n + 1] /\ Len(s) - 1 = n
  BY <1>1 DEF Front, Last
<1>. QED BY <1>1, <1>2, <1>3, <1>4

LEMMA ConcatFacts ==
  ASSUME NEW S, NEW s \in Seq(S), NEW t \in Seq(S)
  PROVE  /\ s \o t \in Seq(S)
         /\ Len(s \o t) = Len(s) + Len(t)
         /\ \A i \in 1 .. Len(s) : (s \o t)[i] = s[i]
         /\ \A i \in 1 .. Len(t) : (s \o t)[Len(s) + i] = t[i]
         /\ <<>> \o s = s /\ s \o <<>> = s
         /\ (t # <<>> => s \o t # <<>>)
OBVIOUS

LEMMA ConcatAppend ==
  ASSUME NEW S, NEW s \in Seq(S), NEW t \in Seq(S), NEW x \in S
  PROVE  s \o Append(t, x) = Append(s \o t, x)
OBVIOUS

LEMMA ConcatFront ==
  ASSUME NEW S, NEW s \in Seq(S), NEW t \in Seq(S), t # <<>>
  PROVE  /\ s \o t # <<>>
         /\ Front(s \o t) = s \o Front(t)
         /\ Last(s \o t) = Last(t)
<1>1. PICK f, x : f \in Seq(S) /\ x \in S /\ f = Front(t) /\ x = Last(t) /\ t = Append(f, x)
  BY FrontFacts
<1>2. PICK u : u = s \o f /\ u \in Seq(S)
  BY <1>1, ConcatFacts
<1>3. s \o t = Append(u, x)
  BY <1>1, <1>2, ConcatAppend
<1>4. Append(u, x) # <<>> /\ Front(Append(u, x)) = u /\ Last(Append(u, x)) = x
  BY <1>1, <1>2, AppendFacts, ZenonT(30)
<1>. QED BY <1>1, <1>2, <1>3, <1>4, Zenon

-----------------------------------------------------------------------------
(* Paths: the directory a sequence of names leads to.                      *)

LEMMA EnteredType ==
  ASSUME NEW S, NEW at \in Seq(S), NEW name \in S
  PROVE  Entered(at, name) \in Seq(S)
<1>1. Append(at, name) \in Seq(S)
  BY AppendFacts
<1>2. at # <<>> => Front(at) \in Seq(S)
  BY FrontFacts
<1>. QED BY <1>1, <1>2 DEF Entered

WalkRow(g, names, k) == IF k = 0 THEN <<>> ELSE Entered(g[k - 1], names[k])

LEMMA WalkExists ==
  ASSUME NEW S, NEW names \in Seq(S)
  PROVE  \E g \in [0 .. Len(names) -> Seq(S)] :
           \A k \in 0 .. Len(names) : g[k] = WalkRow(g, names, k)
<1>. DEFINE m == Len(names)
            V == Seq(S)
            R == [k \in 0 .. m |-> [g \in [0 .. m -> V] |-> WalkRow(g, names, k)]]
<1>1. m \in Nat /\ V # {}
  BY SeqOfNone
<1>2. R \in [0 .. m -> [[0 .. m -> V] -> V]]
  <2>. SUFFICES ASSUME NEW k \in 0 .. m, NEW g \in [0 .. m -> V]
                PROVE  WalkRow(g, names, k) \in V
    OBVIOUS
  <2>1. CASE k = 0
    BY <2>1, SeqOfNone DEF WalkRow
  <2>2. CASE k # 0
    <3>1. k - 1 \in 0 .. m /\ k \in 1 .. Len(names)
      BY <1>1, <2>2
    <3>2. g[k - 1] \in Seq(S) /\ names[k] \in S
      BY <3>1
    <3>. QED BY <2>2, <3>2, EnteredType DEF WalkRow
  <2>. QED BY <2>1, <2>2
<1>3. ASSUME NEW k \in 0 .. m, NEW g \in [0 .. m -> V], NEW h \in [0 .. m -> V],
             \A j \in 0 .. m : j < k => g[j] = h[j]
      PROVE  R[k][g] = R[k][h]
  <2>1. k # 0 => g[k - 1] = h[k - 1]
    BY <1>1, <1>3
  <2>. QED BY <2>1 DEF WalkRow
<1>4. \E g \in [0 .. m -> V] : \A k \in 0 .. m : g[k] = R[k][g]
  <2>. HIDE DEF m, V, R
  <2>1. FromBelow(R, m, V)
    BY <1>3 DEF FromBelow
  <2>2. SolvedFromBelow(R, m, V)
    BY <1>1, <1>2, <2>1, UpRecursion
  <2>. QED BY <2>2 DEF SolvedFromBelow
<1>. QED BY <1>4

IsWalk(g, names, S) ==
  /\ g \in [0 .. Len(names) -> Seq(S)]
  /\ g[0] = <<>>
  /\ \A k \in 1 .. Len(names) : g[k] = Entered(g[k - 1], names[k])
  /\ Directory(names) = g[Len(names)]

LEMMA WalkFacts ==
  ASSUME NEW S, NEW names \in Seq(S)
  PROVE  \E g : IsWalk(g, names, S)
<1>. DEFINE Row(f) == [k \in 0 .. Len(names) |->
                         IF k = 0 THEN <<>> ELSE Entered(f[k - 1], names[k])]
            c == CHOOSE f : f = Row(f)
<1>1. PICK g \in [0 .. Len(names) -> Seq(S)] :
        \A k \in 0 .. Len(names) : g[k] = WalkRow(g, names, k)
  BY WalkExists
<1>2. Len(names) \in Nat
  OBVIOUS
<1>3. g = Row(g)
  BY <1>1 DEF WalkRow
<1>4. c = Row(c)
  <2>. HIDE DEF Row
  <2>. QED BY <1>3
<1>5. Directory(names) = c[Len(names)]
  BY DEF Directory
<1>. HIDE DEF c
<1>6. \A k \in 0 .. Len(names) : c[k] = WalkRow(c, names, k)
  BY <1>4 DEF WalkRow
<1>7. EqualFromBelow(c, g, Len(names))
  <2>. SUFFICES ASSUME NEW k \in 0 .. Len(names),
                       \A j \in 0 .. Len(names) : j < k => c[j] = g[j]
                PROVE  c[k] = g[k]
    BY DEF EqualFromBelow
  <2>1. k # 0 => c[k - 1] = g[k - 1]
    BY <1>2
  <2>2. WalkRow(c, names, k) = WalkRow(g, names, k)
    BY <2>1 DEF WalkRow
  <2>. QED BY <1>1, <1>6, <2>2
<1>8. \A k \in 0 .. Len(names) : c[k] = g[k]
  BY <1>2, <1>7, UpUnique
<1>9. Directory(names) = g[Len(names)]
  BY <1>2, <1>5, <1>8
<1>10. g[0] = <<>> /\ \A k \in 1 .. Len(names) : g[k] = Entered(g[k - 1], names[k])
  BY <1>1, <1>2 DEF WalkRow
<1>. QED BY <1>9, <1>10 DEF IsWalk

LEMMA DirectoryType ==
  ASSUME NEW S, NEW names \in Seq(S)
  PROVE  Directory(names) \in Seq(S)
<1>1. PICK g : IsWalk(g, names, S)
  BY WalkFacts
<1>. QED BY <1>1 DEF IsWalk

LEMMA DirectoryNone == Directory(<<>>) = <<>>
<1>1. PICK g : IsWalk(g, <<>>, {})
  BY WalkFacts, SeqOfNone
<1>. QED BY <1>1 DEF IsWalk

LEMMA DirectoryAppend ==
  ASSUME NEW S, NEW names \in Seq(S), NEW x \in S
  PROVE  Directory(Append(names, x)) = Entered(Directory(names), x)
<1>1. PICK n \in Nat : n = Len(names)
  OBVIOUS
<1>2. PICK tt : tt = Append(names, x)
  OBVIOUS
<1>3. /\ tt \in Seq(S) /\ Len(tt) = n + 1 /\ tt[n + 1] = x
      /\ \A i \in 1 .. n : tt[i] = names[i]
  BY <1>1, <1>2, AppendFacts
<1>4. PICK g : IsWalk(g, names, S)
  BY WalkFacts
<1>5. PICK h : IsWalk(h, tt, S)
  BY <1>3, WalkFacts
<1>6. EqualFromBelow(g, h, n)
  <2>. SUFFICES ASSUME NEW i \in 0 .. n, \A j \in 0 .. n : j < i => g[j] = h[j]
                PROVE  g[i] = h[i]
    BY DEF EqualFromBelow
  <2>1. CASE i = 0
    BY <1>4, <1>5, <2>1 DEF IsWalk
  <2>2. CASE i # 0
    <3>1. i - 1 \in 0 .. n /\ i \in 1 .. n /\ i \in 1 .. n + 1 /\ i - 1 < i
      BY <2>2
    <3>2. g[i] = Entered(g[i - 1], names[i]) /\ h[i] = Entered(h[i - 1], tt[i])
      BY <1>1, <1>3, <1>4, <1>5, <3>1 DEF IsWalk
    <3>. QED BY <1>3, <3>1, <3>2
  <2>. QED BY <2>1, <2>2
<1>7. g[n] = h[n]
  <2>1. \A i \in 0 .. n : g[i] = h[i]
    BY <1>6, UpUnique
  <2>. QED BY <2>1
<1>8. h[n + 1] = Entered(h[n], x)
  <2>1. n + 1 \in 1 .. Len(tt) /\ (n + 1) - 1 = n
    BY <1>3
  <2>2. h[n + 1] = Entered(h[(n + 1) - 1], tt[n + 1])
    BY <1>5, <2>1 DEF IsWalk
  <2>. QED BY <1>3, <2>1, <2>2
<1>9. Directory(names) = g[n] /\ Directory(tt) = h[n + 1]
  BY <1>1, <1>3, <1>4, <1>5 DEF IsWalk
<1>. QED BY <1>2, <1>7, <1>8, <1>9

\* a walk that came to its end: each `..' in it goes before all names
IsPlain(at) ==
  \A i \in 1 .. Len(at) : at[i] # "." /\ (at[i] = ".." /\ i > 1 => at[i - 1] = "..")

LEMMA EnteredPlain ==
  ASSUME NEW S, NEW at \in Seq(S), NEW name \in S, IsPlain(at)
  PROVE  IsPlain(Entered(at, name))
<1>1. PICK n \in Nat : n = Len(at)
  OBVIOUS
<1>2. CASE name = "."
  BY <1>2 DEF Entered
<1>3. CASE name = ".." /\ at # <<>> /\ Last(at) # ".."
  <2>1. PICK f : f = Front(at)
    OBVIOUS
  <2>2. Entered(at, name) = f
    BY <1>3, <2>1 DEF Entered
  <2>3. Len(f) = n - 1 /\ \A i \in 1 .. n - 1 : f[i] = at[i]
    BY <1>1, <1>3, <2>1, FrontFacts
  <2>4. IsPlain(f)
    BY <1>1, <2>3 DEF IsPlain
  <2>. QED BY <2>2, <2>4
<1>4. CASE name # "." /\ ~(name = ".." /\ at # <<>> /\ Last(at) # "..")
  <2>1. PICK f : f = Append(at, name)
    OBVIOUS
  <2>2. Entered(at, name) = f
    BY <1>4, <2>1 DEF Entered
  <2>3. Len(f) = n + 1 /\ f[n + 1] = name /\ \A i \in 1 .. n : f[i] = at[i]
    BY <1>1, <2>1, AppendFacts
  <2>4. name = ".." /\ n + 1 > 1 => at[n] = ".."
    BY <1>1, <1>4 DEF Last
  <2>5. ASSUME NEW i \in 1 .. n + 1
        PROVE  f[i] # "." /\ (f[i] = ".." /\ i > 1 => f[i - 1] = "..")
    <3>1. CASE i = n + 1
      BY <1>4, <2>3, <2>4, <3>1
    <3>2. CASE i # n + 1
      <4>1. i \in 1 .. n /\ (i > 1 => i - 1 \in 1 .. n)
        BY <3>2
      <4>. QED BY <1>1, <2>3, <4>1 DEF IsPlain
    <3>. QED BY <3>1, <3>2
  <2>6. IsPlain(f)
    BY <2>3, <2>5 DEF IsPlain
  <2>. QED BY <2>2, <2>6
<1>. QED BY <1>2, <1>3, <1>4

LEMMA DirectoryPlain ==
  ASSUME NEW S, NEW names \in Seq(S)
  PROVE  IsPlain(Directory(names))
<1>1. PICK n \in Nat : n = Len(names)
  OBVIOUS
<1>. DEFINE G == {k \in Nat : n < k \/ IsPlain(Directory(SubSeq(names, 1, k)))}
<1>2. 0 \in G
  <2>1. IsPlain(<<>>)
    BY DEF IsPlain
  <2>2. SubSeq(names, 1, 0) = <<>>
    BY AllOfIt
  <2>. QED BY <2>1, <2>2, DirectoryNone
<1>3. ASSUME NEW k \in G, k \in Nat, k < n PROVE k + 1 \in G
  <2>1. PICK s \in Seq(S) : s = SubSeq(names, 1, k)
    BY <1>1, <1>3, NextPrefix
  <2>2. PICK x \in S : SubSeq(names, 1, k + 1) = Append(s, x)
    BY <1>1, <1>3, <2>1, NextPrefix
  <2>a. IsPlain(Directory(SubSeq(names, 1, k)))
    BY <1>3
  <2>3. IsPlain(Directory(s)) /\ Directory(s) \in Seq(S)
    BY <2>1, <2>a, DirectoryType, Zenon
  <2>4. IsPlain(Directory(Append(s, x)))
    BY <2>3, EnteredPlain, DirectoryAppend
  <2>5. IsPlain(Directory(SubSeq(names, 1, k + 1)))
    BY <2>2, <2>4, Zenon
  <2>6. k + 1 \in Nat
    BY <1>3
  <2>. QED BY <2>5, <2>6
<1>4. \A k \in 0 .. n : k \in G
  <2>. HIDE DEF G
  <2>. QED BY <1>2, <1>3, BoundedInduction
<1>5. n \in G
  BY <1>4
<1>6. IsPlain(Directory(SubSeq(names, 1, n)))
  BY <1>5
<1>. QED BY <1>1, <1>6, AllOfIt

LEMMA PlainStays ==
  ASSUME NEW S, NEW at \in Seq(S), IsPlain(at)
  PROVE  Directory(at) = at
<1>1. PICK n \in Nat : n = Len(at)
  OBVIOUS
<1>. DEFINE G == {k \in Nat : n < k \/ Directory(SubSeq(at, 1, k)) = SubSeq(at, 1, k)}
<1>2. 0 \in G
  <2>1. SubSeq(at, 1, 0) = <<>>
    BY AllOfIt
  <2>. QED BY <2>1, DirectoryNone
<1>3. ASSUME NEW k \in G, k \in Nat, k < n PROVE k + 1 \in G
  <2>1. PICK s \in Seq(S) : s = SubSeq(at, 1, k) /\ Len(s) = k
    BY <1>1, <1>3, NextPrefix
  <2>2. PICK x \in S : x = at[k + 1] /\ SubSeq(at, 1, k + 1) = Append(s, x)
    BY <1>1, <1>3, <2>1, NextPrefix
  <2>3. Directory(s) = s
    BY <1>3, <2>1
  <2>4. x # "." /\ (x = ".." /\ k > 0 => at[k] = "..")
    <3>1. k + 1 \in 1 .. Len(at) /\ (k + 1) - 1 = k /\ (k > 0 => k + 1 > 1)
      BY <1>1, <1>3
    <3>. QED BY <2>2, <3>1 DEF IsPlain
  <2>5. k > 0 => Last(s) = at[k]
    BY <1>1, <1>3, <2>1 DEF Last
  <2>6. Entered(s, x) = Append(s, x)
    <3>1. s # <<>> => k > 0
      BY <2>1
    <3>2. ~(x = ".." /\ s # <<>> /\ Last(s) # "..") /\ x # "."
      BY <2>4, <2>5, <3>1
    <3>. QED BY <3>2 DEF Entered
  <2>7. Directory(Append(s, x)) = Append(s, x)
    BY <2>3, <2>6, DirectoryAppend
  <2>8. Directory(SubSeq(at, 1, k + 1)) = SubSeq(at, 1, k + 1)
    BY <2>2, <2>7, Zenon
  <2>9. k + 1 \in Nat
    BY <1>3
  <2>. QED BY <2>8, <2>9
<1>4. \A k \in 0 .. n : k \in G
  <2>. HIDE DEF G
  <2>. QED BY <1>2, <1>3, BoundedInduction
<1>5. n \in G
  BY <1>4
<1>6. Directory(SubSeq(at, 1, n)) = SubSeq(at, 1, n)
  BY <1>5
<1>. QED BY <1>1, <1>6, AllOfIt

\* going on from where the first names led
LEMMA DirectoryJoin ==
  ASSUME NEW S, NEW a \in Seq(S), NEW b \in Seq(S)
  PROVE  Directory(a \o b) = Directory(Directory(a) \o b)
<1>1. PICK n \in Nat : n = Len(b)
  OBVIOUS
<1>2. PICK d \in Seq(S) : d = Directory(a)
  BY DirectoryType
<1>. DEFINE G == {k \in Nat : n < k
                    \/ Directory(a \o SubSeq(b, 1, k)) = Directory(d \o SubSeq(b, 1, k))}
<1>3. 0 \in G
  <2>1. SubSeq(b, 1, 0) = <<>> /\ a \o <<>> = a /\ d \o <<>> = d
    BY AllOfIt
  <2>2. Directory(d) = d
    BY <1>2, DirectoryPlain, PlainStays
  <2>3. Directory(a \o SubSeq(b, 1, 0)) = Directory(d \o SubSeq(b, 1, 0))
    BY <1>2, <2>1, <2>2
  <2>. QED BY <2>3
<1>4. ASSUME NEW k \in G, k \in Nat, k < n PROVE k + 1 \in G
  <2>1. PICK s \in Seq(S) : s = SubSeq(b, 1, k)
    BY <1>1, <1>4, NextPrefix
  <2>2. PICK x \in S : SubSeq(b, 1, k + 1) = Append(s, x)
    BY <1>1, <1>4, <2>1, NextPrefix
  <2>3. Directory(a \o s) = Directory(d \o s)
    BY <1>4, <2>1
  <2>4. PICK p, q : p \in Seq(S) /\ q \in Seq(S) /\ p = a \o s /\ q = d \o s
    BY ConcatFacts
  <2>5. a \o Append(s, x) = Append(p, x) /\ d \o Append(s, x) = Append(q, x)
    <3>1. a \o Append(s, x) = Append(a \o s, x)
      BY <2>1, <2>2, ConcatAppend
    <3>2. d \o Append(s, x) = Append(d \o s, x)
      BY <1>2, <2>1, <2>2, ConcatAppend
    <3>. QED BY <2>4, <3>1, <3>2, Zenon
  <2>6. Directory(Append(p, x)) = Directory(Append(q, x))
    BY <2>3, <2>4, DirectoryAppend
  <2>7. Directory(a \o SubSeq(b, 1, k + 1)) = Directory(d \o SubSeq(b, 1, k + 1))
    BY <2>2, <2>5, <2>6, Zenon
  <2>8. k + 1 \in Nat
    BY <1>4
  <2>. QED BY <2>7, <2>8
<1>5. \A k \in 0 .. n : k \in G
  <2>. HIDE DEF G
  <2>. QED BY <1>3, <1>4, BoundedInduction
<1>6. n \in G
  BY <1>5
<1>7. Directory(a \o SubSeq(b, 1, n)) = Directory(d \o SubSeq(b, 1, n))
  BY <1>6
<1>. QED BY <1>1, <1>2, <1>7, AllOfIt

\* the names of a text that is not absolute
LEMMA NamesOf ==
  ASSUME NEW S, NEW text \in Seq(S), text # <<>>, Head(text) # "/"
  PROVE  Without("/", text) \in Seq(S) /\ Without("/", text) # <<>>
BY WithoutType, WithoutSome

(* A path that is joined to the one a file was opened by leads where it    *)
(* leads from the file's canonical path.                                   *)
LEMMA CanonicalJoined ==
  ASSUME NEW S, NEW path \in Seq(S), path # <<>>, NEW text \in Seq(S), text # <<>>
  PROVE  Canonical(Joined(path, text)) = Canonical(Joined(Canonical(path), text))
<1>1. CASE Head(text) = "/"
  BY <1>1 DEF Joined
<1>2. CASE Head(text) # "/"
  <2>1. PICK names \in Seq(S) : names = Without("/", text) /\ names # <<>>
    BY <1>2, NamesOf
  <2>2. PICK a, y : a \in Seq(S) /\ y \in S /\ a = Front(path) /\ y = Last(path)
    BY FrontFacts
  <2>3. PICK d \in Seq(S) : d = Directory(a)
    BY <2>2, DirectoryType
  <2>4. PICK c : c = Append(d, y)
    OBVIOUS
  <2>5. Canonical(path) = c /\ Front(c) = d
    BY <2>2, <2>3, <2>4, AppendFacts DEF Canonical
  <2>6. Joined(path, text) = a \o names /\ Joined(c, text) = d \o names
    BY <1>2, <2>1, <2>2, <2>5 DEF Joined
  <2>7. PICK b, x : b \in Seq(S) /\ x \in S /\ b = Front(names) /\ x = Last(names)
    BY <2>1, FrontFacts
  <2>8. ASSUME NEW e \in Seq(S)
        PROVE  Canonical(e \o names) = Append(Directory(e \o b), x)
    <3>1. PICK p : p = e \o names
      OBVIOUS
    <3>2. p # <<>> /\ Front(p) = e \o b /\ Last(p) = x
      BY <2>1, <2>7, <3>1, ConcatFront
    <3>. QED BY <3>1, <3>2 DEF Canonical
  <2>9. Directory(a \o b) = Directory(d \o b)
    BY <2>2, <2>3, <2>7, DirectoryJoin
  <2>10. Canonical(a \o names) = Canonical(d \o names)
    BY <2>2, <2>8, <2>9
  <2>. QED BY <2>5, <2>6, <2>10
<1>. QED BY <1>1, <1>2

-----------------------------------------------------------------------------
(* The inputs.                                                             *)

\* the texts and names, with the space that Text puts between words
Chars == STRING \cup {" "}

TextLines == [key : Chars, space : BOOLEAN, body : Seq(Chars)]
RegexTexts == [text : Seq(Chars), compiles : BOOLEAN]

TreeOK(t) ==
  /\ IsFiniteSet(DOMAIN t)
  /\ \A file \in DOMAIN t : file \in Seq(Chars) /\ file # <<>> /\ t[file] \in Seq(TextLines)

OptionsOK(c) ==
  /\ c.filter_from \in Seq(Seq(Chars)) /\ c.filter \in Seq(TextLines)
  /\ c.include_from \in Seq(Seq(Chars)) /\ c.exclude_from \in Seq(Seq(Chars))
  /\ c.regex_includes \in Seq(RegexTexts) /\ c.regex_excludes \in Seq(RegexTexts)

InputsOK == \E setup \in Setups : tree = setup.tree /\ cli = setup.cli

LEMMA InputsFacts == InputsOK => TreeOK(tree) /\ OptionsOK(cli)
<1>. SUFFICES ASSUME NEW setup \in Setups PROVE TreeOK(setup.tree) /\ OptionsOK(setup.cli)
  BY DEF InputsOK
<1>1. \A s \in Seq(STRING) : s \in Seq(Chars)
  <2>1. STRING \subseteq Chars
    BY DEF Chars
  <2>. QED BY <2>1, SeqInclusion
<1>2. \A s \in Seq(Seq(STRING)) : s \in Seq(Seq(Chars))
  BY <1>1
<1>3. \A s \in Seq(TextLine) : s \in Seq(TextLines)
  <2>1. \A line \in TextLine : line \in TextLines
    BY <1>1 DEF TextLine, TextLines, Chars
  <2>2. TextLine \subseteq TextLines
    BY <2>1
  <2>. QED BY <2>2, SeqInclusion
<1>4. \A s \in Seq([text : Seq(STRING), compiles : BOOLEAN]) : s \in Seq(RegexTexts)
  <2>1. \A r \in [text : Seq(STRING), compiles : BOOLEAN] : r \in RegexTexts
    BY <1>1 DEF RegexTexts
  <2>2. [text : Seq(STRING), compiles : BOOLEAN] \subseteq RegexTexts
    BY <2>1
  <2>. QED BY <2>2, SeqInclusion
<1>5. setup.cli \in Options
  BY SetupAssumption
<1>6. OptionsOK(setup.cli)
  BY <1>2, <1>3, <1>4, <1>5 DEF OptionsOK, Options
<1>7. /\ IsFiniteSet(DOMAIN setup.tree)
      /\ \A file \in DOMAIN setup.tree :
            file \in Seq(STRING) /\ file # <<>> /\ setup.tree[file] \in Seq(TextLine)
  BY SetupAssumption
<1>8. TreeOK(setup.tree)
  BY <1>1, <1>3, <1>7 DEF TreeOK
<1>. QED BY <1>6, <1>8

LEMMA SourceSet ==
  ToSet(Sources) = {"filter_from", "filter", "include_from", "exclude_from",
                    "regex_includes", "regex_excludes"}
BY DEF ToSet, Sources

LEMMA SourceLengths ==
  ASSUME NEW c, OptionsOK(c), NEW s \in ToSet(Sources)
  PROVE  Len(c[s]) \in Nat
<1>1. /\ Len(c.filter_from) \in Nat /\ Len(c.filter) \in Nat /\ Len(c.include_from) \in Nat
      /\ Len(c.exclude_from) \in Nat /\ Len(c.regex_includes) \in Nat
      /\ Len(c.regex_excludes) \in Nat
  BY DEF OptionsOK
<1>. QED BY <1>1, SourceSet

After(s) == CASE s = "filter_from"    -> "filter"
              [] s = "filter"         -> "include_from"
              [] s = "include_from"   -> "exclude_from"
              [] s = "exclude_from"   -> "regex_includes"
              [] s = "regex_includes" -> "regex_excludes"
              [] s = "regex_excludes" -> "done"

LEMMA NextSourceIs == pc \in ToSet(Sources) => NextSource = After(pc)
<1>. SUFFICES ASSUME pc \in ToSet(Sources) PROVE NextSource = After(pc)
  OBVIOUS
<1>. DEFINE S == Append(Sources, "done")
            k == CHOOSE k \in DOMAIN Sources : Sources[k] = pc
<1>1. /\ DOMAIN Sources = 1 .. 6
      /\ Sources[1] = "filter_from" /\ Sources[2] = "filter" /\ Sources[3] = "include_from"
      /\ Sources[4] = "exclude_from" /\ Sources[5] = "regex_includes"
      /\ Sources[6] = "regex_excludes"
  BY DEF Sources
<1>2. /\ S[2] = "filter" /\ S[3] = "include_from" /\ S[4] = "exclude_from"
      /\ S[5] = "regex_includes" /\ S[6] = "regex_excludes" /\ S[7] = "done"
  BY DEF Sources
<1>3. \E j \in DOMAIN Sources : Sources[j] = pc
  BY DEF ToSet
<1>4. k \in 1 .. 6 /\ Sources[k] = pc
  BY <1>1, <1>3
<1>5. NextSource = S[1 + k]
  BY DEF NextSource
<1>. HIDE DEF S, k
<1>. QED BY <1>1, <1>2, <1>4, <1>5 DEF After

-----------------------------------------------------------------------------
(* What the lines say.                                                     *)

Spoken  == {parse_filter_line(line) : line \in TextLines}
             \cup {ParseSideLine(line, include) : line \in TextLines, include \in BOOLEAN}
Entries == {said \in Spoken : said.kind \in {"rule", "clear"}}
RegexSet == {[syntax |-> "regex", original |-> text, include |-> include] :
               text \in Seq(Chars), include \in BOOLEAN}
RuleSet == {said.rule : said \in {e \in Entries : e.kind = "rule"}} \cup RegexSet

IsParsed(rule) ==
  \E text \in Seq(Chars), include \in BOOLEAN :
    text # <<>> /\ rule = parse(text, include) /\ ~IsMalformed(rule)

IsSpoken(said) ==
  \/ said = Nothing \/ said = Clear \/ said = Invalid \/ said = Panic
  \/ \E path \in Seq(Chars) : path # <<>> /\ said = Merge(path)
  \/ said.kind = "rule" /\ IsParsed(said.rule)

LEMMA TextType == ASSUME NEW line \in TextLines PROVE Text(line) \in Seq(Chars)
<1>1. line.key \in Chars /\ line.body \in Seq(Chars)
  BY DEF TextLines
<1>2. " " \in Chars
  BY DEF Chars
<1>3. <<line.key>> \in Seq(Chars) /\ <<" ">> \in Seq(Chars) /\ <<>> \in Seq(Chars)
  BY <1>1, <1>2, SeqOfOne, SeqOfNone
<1>. DEFINE a == IF line.key = "" THEN <<>> ELSE <<line.key>>
            b == IF line.space THEN <<" ">> ELSE <<>>
<1>4. a \in Seq(Chars) /\ b \in Seq(Chars)
  BY <1>3
<1>. HIDE DEF a, b
<1>5. (a \o b) \o line.body \in Seq(Chars)
  BY <1>1, <1>4, ConcatFacts
<1>6. Text(line) = (a \o b) \o line.body
  BY DEF Text, a, b
<1>. QED BY <1>5, <1>6

LEMMA RuleIsSpoken ==
  ASSUME NEW text \in Seq(Chars), NEW include \in BOOLEAN
  PROVE  IsSpoken(Rule(text, include)) /\ Rule(text, include).kind \in {"rule", "invalid"}
<1>. PICK rule : rule = parse(text, include)
  OBVIOUS
<1>1. CASE text = <<>> \/ IsMalformed(rule)
  <2>1. Rule(text, include) = Invalid
    BY <1>1 DEF Rule
  <2>. QED BY <2>1 DEF IsSpoken, Invalid
<1>2. CASE ~(text = <<>> \/ IsMalformed(rule))
  <2>1. Rule(text, include) = [kind |-> "rule", rule |-> rule]
    BY <1>2 DEF Rule
  <2>2. IsParsed(rule)
    BY <1>2 DEF IsParsed
  <2>3. Rule(text, include).kind = "rule" /\ Rule(text, include).rule = rule
    BY <2>1
  <2>. QED BY <2>2, <2>3 DEF IsSpoken
<1>. QED BY <1>1, <1>2

LEMMA LinesSpeak ==
  ASSUME NEW line \in TextLines
  PROVE  /\ IsSpoken(parse_filter_line(line))
         /\ parse_filter_line(line).kind = "merge" =>
              parse_filter_line(line).path = line.body /\ line.body # <<>>
<1>1. line.body \in Seq(Chars) /\ Text(line) \in Seq(Chars)
  BY TextType DEF TextLines
<1>2. CASE parse_filter_line(line) \in {Nothing, Clear, Invalid, Panic}
  BY <1>2 DEF IsSpoken, Nothing, Clear, Invalid, Panic
<1>3. CASE parse_filter_line(line) = Merge(line.body) /\ line.body # <<>>
  BY <1>1, <1>3 DEF IsSpoken, Merge
<1>4. ASSUME NEW text \in Seq(Chars), NEW include \in BOOLEAN,
             parse_filter_line(line) = Rule(text, include)
      PROVE  IsSpoken(parse_filter_line(line)) /\ parse_filter_line(line).kind # "merge"
  <2>1. IsSpoken(Rule(text, include)) /\ Rule(text, include).kind # "merge"
    BY RuleIsSpoken
  <2>. QED BY <1>4, <2>1, Zenon
<1>5. \/ parse_filter_line(line) \in {Nothing, Clear, Invalid, Panic}
      \/ parse_filter_line(line) = Merge(line.body) /\ line.body # <<>>
      \/ parse_filter_line(line) =
           Rule(IF RuleKind(line) = "bare" THEN Text(line) ELSE line.body,
                RuleKind(line) = "include")
  <2>. DEFINE p1 == IsComment(line)
              p2 == line.key \in {"!", "clear"} /\ line.body = <<>>
              k  == RuleKind(line)
              pP == k = "panicked"
              p3 == k = "merge"
              p4 == k = "ignore"
              e3 == IF line.body = <<>> THEN Invalid ELSE Merge(line.body)
              e5 == Rule(IF k = "bare" THEN Text(line) ELSE line.body, k = "include")
              c  == CASE p1 -> Nothing [] p2 -> Clear [] pP -> Panic [] p3 -> e3 [] p4 -> Nothing
                      [] OTHER -> e5
  <2>1. parse_filter_line(line) = c
    BY DEF parse_filter_line
  <2>2. c = Nothing \/ c = Clear \/ c = Panic \/ c = e3 \/ c = e5
    <3>. HIDE DEF p1, p2, pP, p3, p4, e3, e5, k
    <3>. QED OBVIOUS
  <2>. HIDE DEF c
  <2>. QED BY <2>1, <2>2
<1>6. /\ (RuleKind(line) = "include") \in BOOLEAN
      /\ (IF RuleKind(line) = "bare" THEN Text(line) ELSE line.body) \in Seq(Chars)
  BY <1>1
<1>. QED BY <1>1, <1>2, <1>3, <1>4, <1>5, <1>6

LEMMA SideLinesSpeak ==
  ASSUME NEW line \in TextLines, NEW include \in BOOLEAN
  PROVE  /\ IsSpoken(ParseSideLine(line, include))
         /\ ParseSideLine(line, include).kind \in {"none", "rule", "invalid"}
<1>1. line.body \in Seq(Chars) /\ Text(line) \in Seq(Chars) /\ (line.key = "+") \in BOOLEAN
  BY TextType DEF TextLines
<1>2. CASE ParseSideLine(line, include) = Nothing
  BY <1>2 DEF IsSpoken, Nothing
<1>3. ASSUME NEW text \in Seq(Chars), NEW plus \in BOOLEAN,
             ParseSideLine(line, include) = Rule(text, plus)
      PROVE  /\ IsSpoken(ParseSideLine(line, include))
             /\ ParseSideLine(line, include).kind \in {"none", "rule", "invalid"}
  <2>1. IsSpoken(Rule(text, plus)) /\ Rule(text, plus).kind \in {"none", "rule", "invalid"}
    BY RuleIsSpoken
  <2>. QED BY <1>3, <2>1, Zenon
<1>4. \/ ParseSideLine(line, include) = Nothing
      \/ ParseSideLine(line, include) = Rule(line.body, line.key = "+")
      \/ ParseSideLine(line, include) = Rule(Text(line), include)
  BY Zenon DEF ParseSideLine
<1>. QED BY <1>1, <1>2, <1>3, <1>4

LEMMA SpokenKinds ==
  ASSUME NEW said, IsSpoken(said)
  PROVE  /\ said.kind \in {"none", "clear", "invalid", "panicked", "merge", "rule"}
         /\ said.kind = "none" <=> said = Nothing
         /\ said.kind = "clear" <=> said = Clear
         /\ said.kind = "invalid" <=> said = Invalid
         /\ said.kind = "rule" => IsParsed(said.rule)
<1>1. CASE said \in {Nothing, Clear, Invalid, Panic}
  BY <1>1 DEF Nothing, Clear, Invalid, Panic
<1>2. CASE \E path \in Seq(Chars) : path # <<>> /\ said = Merge(path)
  BY <1>2 DEF Nothing, Clear, Invalid, Panic, Merge
<1>3. CASE said.kind = "rule" /\ IsParsed(said.rule)
  <2>1. said # Nothing /\ said # Clear /\ said # Invalid
    BY <1>3 DEF Nothing, Clear, Invalid
  <2>. QED BY <1>3, <2>1
<1>. QED BY <1>1, <1>2, <1>3 DEF IsSpoken

LEMMA EntryFacts ==
  ASSUME NEW entry \in Entries
  PROVE  /\ IsSpoken(entry) /\ entry.kind \in {"rule", "clear"}
         /\ entry.kind = "rule" => entry.rule \in RuleSet
<1>1. entry \in Spoken /\ entry.kind \in {"rule", "clear"}
  BY DEF Entries
<1>2. IsSpoken(entry)
  BY <1>1, LinesSpeak, SideLinesSpeak DEF Spoken
<1>3. entry.kind = "rule" => entry.rule \in RuleSet
  BY DEF RuleSet
<1>. QED BY <1>1, <1>2, <1>3

LEMMA RuleFacts ==
  ASSUME NEW rule \in RuleSet, rule.syntax = "rsync"
  PROVE  IsParsed(rule)
<1>1. rule \notin RegexSet
  BY DEF RegexSet
<1>2. PICK entry \in Entries : entry.kind = "rule" /\ rule = entry.rule
  BY <1>1 DEF RuleSet
<1>3. IsSpoken(entry)
  BY EntryFacts
<1>4. IsParsed(entry.rule)
  BY <1>2, <1>3, SpokenKinds
<1>. QED BY <1>2, <1>4, Zenon

LEMMA LineIsEntry ==
  ASSUME NEW line \in TextLines, parse_filter_line(line).kind \in {"rule", "clear"}
  PROVE  parse_filter_line(line) \in Entries
BY DEF Entries, Spoken

-----------------------------------------------------------------------------
(* The files being read.                                                   *)

OpenSet == [path : Seq(Chars), line : Nat]

File(frames, k) == Canonical(frames[k].path)

LineAt(t, frames, k, l) == t[File(frames, k)][l]

\* the line that was read last in frame k merges the file of the next frame
MergesNext(t, frames, k) ==
  /\ frames[k].line > 1
  /\ parse_filter_line(LineAt(t, frames, k, frames[k].line - 1)).kind = "merge"
  /\ Target(File(frames, k), LineAt(t, frames, k, frames[k].line - 1)) = File(frames, k + 1)

FramesOK(t, frames) ==
  /\ frames \in Seq(OpenSet)
  /\ \A k \in 1 .. Len(frames) :
        /\ File(frames, k) \in DOMAIN t
        /\ frames[k].line \in 1 .. Len(t[File(frames, k)]) + 1
  /\ \A j, k \in 1 .. Len(frames) : File(frames, j) = File(frames, k) => j = k
  /\ \A k \in 1 .. Len(frames) - 1 : MergesNext(t, frames, k)

Files(frames) == {File(frames, k) : k \in 1 .. Len(frames)}

LEMMA FrameTypes ==
  ASSUME NEW t, TreeOK(t), NEW frames, FramesOK(t, frames), NEW k \in 1 .. Len(frames)
  PROVE  /\ frames[k] \in OpenSet /\ frames[k].path \in Seq(Chars) /\ frames[k].path # <<>>
         /\ frames[k].line \in Nat \ {0}
         /\ File(frames, k) \in Seq(Chars) /\ File(frames, k) # <<>>
         /\ File(frames, k) \in DOMAIN t
         /\ t[File(frames, k)] \in Seq(TextLines) /\ Len(t[File(frames, k)]) \in Nat
<1>1. frames \in Seq(OpenSet)
  BY DEF FramesOK
<1>2. frames[k] \in OpenSet
  BY <1>1
<1>3. File(frames, k) \in DOMAIN t /\ frames[k].line \in 1 .. Len(t[File(frames, k)]) + 1
  BY DEF FramesOK
<1>4. /\ File(frames, k) \in Seq(Chars) /\ File(frames, k) # <<>>
      /\ t[File(frames, k)] \in Seq(TextLines)
  BY <1>3 DEF TreeOK
<1>5. frames[k].path \in Seq(Chars) /\ frames[k].line \in Nat
  BY <1>2 DEF OpenSet
<1>6. frames[k].path # <<>>
  BY <1>4 DEF File, Canonical
<1>7. Len(t[File(frames, k)]) \in Nat
  BY <1>4
<1>. QED BY <1>2, <1>3, <1>4, <1>5, <1>6, <1>7

LEMMA SteppedFacts ==
  ASSUME NEW frames \in Seq(OpenSet), frames # <<>>
  PROVE  LET s == [frames EXCEPT ![Len(frames)].line = @ + 1]
         IN  /\ s \in Seq(OpenSet) /\ Len(s) = Len(frames) /\ s # <<>>
             /\ \A k \in 1 .. Len(frames) :
                   /\ s[k].path = frames[k].path
                   /\ s[k].line = IF k = Len(frames) THEN frames[k].line + 1 ELSE frames[k].line
<1>. DEFINE s == [frames EXCEPT ![Len(frames)].line = @ + 1]
<1>1. PICK n \in Nat : n = Len(frames) /\ n > 0 /\ DOMAIN frames = 1 .. n
  OBVIOUS
<1>2. PICK top \in OpenSet : top = frames[n]
  BY <1>1
<1>3. PICK new \in OpenSet : new = [top EXCEPT !.line = @ + 1]
  <2>1. [top EXCEPT !.line = @ + 1] \in OpenSet
    BY DEF OpenSet
  <2>. QED BY <2>1
<1>4. new.path = top.path /\ new.line = top.line + 1
  BY <1>3 DEF OpenSet
<1>5. s = [frames EXCEPT ![n] = new]
  BY <1>1, <1>2, <1>3
<1>. HIDE DEF s
<1>6. s \in Seq(OpenSet) /\ Len(s) = n
  BY <1>1, <1>5
<1>7. \A k \in 1 .. n : s[k] = IF k = n THEN new ELSE frames[k]
  BY <1>1, <1>5
<1>8. s # <<>>
  BY <1>1, <1>6
<1>9. ASSUME NEW k \in 1 .. n
      PROVE  /\ s[k].path = frames[k].path
             /\ s[k].line = IF k = n THEN frames[k].line + 1 ELSE frames[k].line
  BY <1>2, <1>4, <1>7
<1>10. /\ s \in Seq(OpenSet) /\ Len(s) = Len(frames) /\ s # <<>>
       /\ \A k \in 1 .. Len(frames) :
                   /\ s[k].path = frames[k].path
                   /\ s[k].line = IF k = Len(frames) THEN frames[k].line + 1 ELSE frames[k].line
  BY <1>1, <1>6, <1>8, <1>9
<1>. QED BY <1>10 DEF s

OneOn(frames) == [frames EXCEPT ![Len(frames)].line = @ + 1]

IsOneOn(t, frames, s) ==
  /\ FramesOK(t, s) /\ Len(s) = Len(frames) /\ s # <<>> /\ Files(s) = Files(frames)
  /\ \A k \in 1 .. Len(frames) :
        /\ File(s, k) = File(frames, k)
        /\ s[k].path = frames[k].path
        /\ s[k].line = IF k = Len(frames) THEN frames[k].line + 1 ELSE frames[k].line

Begun(path) == [path |-> path, line |-> 1]

IsEntered(t, frames, path, s) ==
  /\ FramesOK(t, s) /\ Len(s) = Len(frames) + 1
  /\ Files(s) = Files(frames) \cup {Canonical(path)}
  /\ \A k \in 1 .. Len(frames) : s[k] = frames[k] /\ File(s, k) = File(frames, k)
  /\ s[Len(s)].path = path /\ s[Len(s)].line = 1 /\ File(s, Len(s)) = Canonical(path)

LEMMA FramesStep ==
  ASSUME NEW t, TreeOK(t), NEW frames, FramesOK(t, frames), frames # <<>>,
         frames[Len(frames)].line <= Len(t[File(frames, Len(frames))]),
         NEW s, s = OneOn(frames)
  PROVE  IsOneOn(t, frames, s)
<1>1. PICK n \in Nat : n = Len(frames) /\ n > 0
  BY DEF FramesOK
<1>2. /\ s \in Seq(OpenSet) /\ Len(s) = n /\ s # <<>>
      /\ \A k \in 1 .. n : /\ s[k].path = frames[k].path
                           /\ s[k].line = IF k = n THEN frames[k].line + 1 ELSE frames[k].line
  BY <1>1, SteppedFacts DEF FramesOK, OneOn
<1>3. \A k \in 1 .. n : File(s, k) = File(frames, k)
  BY <1>2 DEF File
<1>4. Files(s) = Files(frames)
  BY <1>1, <1>2, <1>3 DEF Files
<1>5. ASSUME NEW k \in 1 .. n
      PROVE  File(s, k) \in DOMAIN t /\ s[k].line \in 1 .. Len(t[File(s, k)]) + 1
  <2>1. /\ File(frames, k) \in DOMAIN t /\ frames[k].line \in 1 .. Len(t[File(frames, k)]) + 1
        /\ Len(t[File(frames, k)]) \in Nat
    BY <1>1, FrameTypes DEF FramesOK
  <2>2. CASE k = n
    <3>1. s[k].line = frames[k].line + 1
      BY <1>2, <2>2
    <3>2. frames[k].line <= Len(t[File(frames, k)])
      BY <1>1, <2>2
    <3>3. frames[k].line + 1 \in 1 .. Len(t[File(frames, k)]) + 1
      BY <2>1, <3>2
    <3>. QED BY <1>3, <2>1, <3>1, <3>3
  <2>3. CASE k # n
    BY <1>2, <1>3, <2>1, <2>3
  <2>. QED BY <2>2, <2>3
<1>6. \A j, k \in 1 .. n : File(s, j) = File(s, k) => j = k
  BY <1>1, <1>3 DEF FramesOK
<1>7. ASSUME NEW k \in 1 .. n - 1 PROVE MergesNext(t, s, k)
  <2>1. MergesNext(t, frames, k) /\ k \in 1 .. n /\ k + 1 \in 1 .. n /\ k # n
    BY <1>1 DEF FramesOK
  <2>2. s[k].line = frames[k].line /\ File(s, k) = File(frames, k) /\ File(s, k + 1) = File(frames, k + 1)
    BY <1>2, <1>3, <2>1
  <2>. QED BY <2>1, <2>2 DEF MergesNext, LineAt
<1>8. FramesOK(t, s)
  BY <1>2, <1>5, <1>6, <1>7 DEF FramesOK
<1>. QED BY <1>1, <1>2, <1>3, <1>4, <1>8 DEF IsOneOn

LEMMA FramesEnter ==
  ASSUME NEW t, TreeOK(t), NEW frames, FramesOK(t, frames), NEW path \in Seq(Chars),
         Canonical(path) \in DOMAIN t, Canonical(path) \notin Files(frames),
         NEW s, s = Append(frames, Begun(path)),
         frames # <<>> => MergesNext(t, s, Len(frames))
  PROVE  IsEntered(t, frames, path, s)
<1>1. PICK n \in Nat : n = Len(frames)
  BY DEF FramesOK
<1>2. PICK new \in OpenSet : new = Begun(path)
  BY DEF OpenSet, Begun
<1>3. new.path = path /\ new.line = 1
  BY <1>2 DEF Begun
<1>4. frames \in Seq(OpenSet)
  BY DEF FramesOK
<1>5. /\ s \in Seq(OpenSet) /\ Len(s) = n + 1 /\ s[n + 1] = new
      /\ \A k \in 1 .. n : s[k] = frames[k]
  BY <1>1, <1>2, <1>4, AppendFacts
<1>6. (\A k \in 1 .. n : File(s, k) = File(frames, k)) /\ File(s, n + 1) = Canonical(path)
  BY <1>3, <1>5 DEF File
<1>7. \A k \in 1 .. n + 1 : k \in 1 .. n \/ k = n + 1
  OBVIOUS
<1>8. Files(s) = Files(frames) \cup {Canonical(path)}
  <2>1. n + 1 \in 1 .. n + 1 /\ 1 .. n \subseteq 1 .. n + 1
    OBVIOUS
  <2>. QED BY <1>1, <1>5, <1>6, <1>7, <2>1 DEF Files
<1>9. ASSUME NEW k \in 1 .. n + 1
      PROVE  File(s, k) \in DOMAIN t /\ s[k].line \in 1 .. Len(t[File(s, k)]) + 1
  <2>1. CASE k \in 1 .. n
    BY <1>1, <1>5, <1>6, <2>1 DEF FramesOK
  <2>2. CASE k = n + 1
    <3>1. Len(t[Canonical(path)]) \in Nat
      BY DEF TreeOK
    <3>. QED BY <1>3, <1>5, <1>6, <2>2, <3>1
  <2>. QED BY <1>7, <2>1, <2>2
<1>10. ASSUME NEW j \in 1 .. n + 1, NEW k \in 1 .. n + 1, File(s, j) = File(s, k)
       PROVE  j = k
  <2>1. \A i \in 1 .. n : File(s, i) # Canonical(path)
    BY <1>1, <1>6 DEF Files
  <2>2. CASE j \in 1 .. n /\ k \in 1 .. n
    BY <1>1, <1>6, <1>10, <2>2 DEF FramesOK
  <2>. QED BY <1>6, <1>7, <1>10, <2>1, <2>2
<1>11. ASSUME NEW k \in 1 .. (n + 1) - 1 PROVE MergesNext(t, s, k)
  <2>1. CASE k = n
    <3>1. frames # <<>>
      BY <1>1, <2>1
    <3>. QED BY <1>1, <2>1, <3>1
  <2>2. CASE k # n
    <3>1. k \in 1 .. n - 1 /\ k \in 1 .. n /\ k + 1 \in 1 .. n
      BY <2>2
    <3>2. MergesNext(t, frames, k)
      BY <1>1, <3>1 DEF FramesOK
    <3>3. s[k] = frames[k] /\ File(s, k) = File(frames, k) /\ File(s, k + 1) = File(frames, k + 1)
      BY <1>5, <1>6, <3>1
    <3>. QED BY <3>2, <3>3 DEF MergesNext, LineAt
  <2>. QED BY <2>1, <2>2
<1>12. FramesOK(t, s)
  BY <1>5, <1>9, <1>10, <1>11 DEF FramesOK
<1>. QED BY <1>1, <1>3, <1>5, <1>6, <1>8, <1>12 DEF IsEntered

LEMMA FramesLeave ==
  ASSUME NEW t, TreeOK(t), NEW frames, FramesOK(t, frames), frames # <<>>,
         NEW s, s = Front(frames)
  PROVE  /\ FramesOK(t, s) /\ Len(s) = Len(frames) - 1
         /\ Files(s) = Files(frames) \ {File(frames, Len(frames))}
         /\ \A k \in 1 .. Len(s) : s[k] = frames[k] /\ File(s, k) = File(frames, k)
<1>1. PICK n \in Nat : Len(frames) = n + 1
  <2>1. Len(frames) \in Nat /\ Len(frames) # 0
    BY DEF FramesOK
  <2>2. Len(frames) - 1 \in Nat /\ Len(frames) = (Len(frames) - 1) + 1
    BY <2>1
  <2>. QED BY <2>2
<1>2. s \in Seq(OpenSet) /\ Len(s) = n /\ \A k \in 1 .. n : s[k] = frames[k]
  <2>1. frames \in Seq(OpenSet) /\ Len(frames) - 1 = n
    BY <1>1 DEF FramesOK
  <2>. QED BY <2>1, FrontFacts
<1>3. \A k \in 1 .. n : File(s, k) = File(frames, k) /\ k \in 1 .. n + 1
  BY <1>2 DEF File
<1>4. Files(s) = Files(frames) \ {File(frames, n + 1)}
  <2>1. \A k \in 1 .. n + 1 : k \in 1 .. n \/ k = n + 1
    OBVIOUS
  <2>2. \A k \in 1 .. n : File(frames, k) # File(frames, n + 1)
    <3>1. \A k \in 1 .. n : k # n + 1 /\ n + 1 \in 1 .. n + 1
      OBVIOUS
    <3>. QED BY <1>1, <1>3, <3>1 DEF FramesOK
  <2>. QED BY <1>1, <1>2, <1>3, <2>1, <2>2 DEF Files
<1>5. \A k \in 1 .. n : File(s, k) \in DOMAIN t /\ s[k].line \in 1 .. Len(t[File(s, k)]) + 1
  BY <1>1, <1>2, <1>3 DEF FramesOK
<1>6. \A j, k \in 1 .. n : File(s, j) = File(s, k) => j = k
  BY <1>1, <1>3 DEF FramesOK
<1>7. ASSUME NEW k \in 1 .. n - 1 PROVE MergesNext(t, s, k)
  <2>1. k \in 1 .. (n + 1) - 1 /\ k \in 1 .. n /\ k + 1 \in 1 .. n
    OBVIOUS
  <2>2. MergesNext(t, frames, k)
    BY <1>1, <2>1 DEF FramesOK
  <2>3. s[k] = frames[k] /\ File(s, k) = File(frames, k) /\ File(s, k + 1) = File(frames, k + 1)
    BY <1>2, <1>3, <2>1
  <2>. QED BY <2>2, <2>3 DEF MergesNext, LineAt
<1>8. FramesOK(t, s)
  BY <1>2, <1>5, <1>6, <1>7 DEF FramesOK
<1>9. Len(frames) - 1 = n /\ Len(frames) = n + 1
  BY <1>1
<1>. QED BY <1>2, <1>3, <1>4, <1>8, <1>9

LEMMA NoFrames == ASSUME NEW t PROVE FramesOK(t, <<>>) /\ Files(<<>>) = {}
<1>1. <<>> \in Seq(OpenSet) /\ Len(<<>>) = 0
  BY SeqOfNone
<1>2. \A k : k \notin 1 .. 0 /\ k \notin 1 .. (0 - 1)
  OBVIOUS
<1>. QED BY <1>1, <1>2 DEF FramesOK, Files

-----------------------------------------------------------------------------
(* The rules that lines leave.                                             *)

LEMMA CollectType ==
  ASSUME NEW collected \in Seq(RuleSet), NEW entry \in Entries
  PROVE  Collect(collected, entry) \in Seq(RuleSet)
<1>1. CASE entry.kind = "clear"
  BY <1>1, SeqOfNone DEF Collect
<1>2. CASE entry.kind = "rule"
  <2>1. entry.rule \in RuleSet
    BY <1>2, EntryFacts
  <2>2. Append(collected, entry.rule) \in Seq(RuleSet)
    BY <2>1, AppendFacts
  <2>. QED BY <1>2, <2>2 DEF Collect
<1>. QED BY <1>1, <1>2, EntryFacts

CollectRow(g, start, lines, k) == IF k = 0 THEN start ELSE Collect(g[k - 1], lines[k])

LEMMA CollectExists ==
  ASSUME NEW start \in Seq(RuleSet), NEW lines \in Seq(Entries)
  PROVE  \E g \in [0 .. Len(lines) -> Seq(RuleSet)] :
           \A k \in 0 .. Len(lines) : g[k] = CollectRow(g, start, lines, k)
<1>. DEFINE m == Len(lines)
            V == Seq(RuleSet)
            R == [k \in 0 .. m |-> [g \in [0 .. m -> V] |-> CollectRow(g, start, lines, k)]]
<1>1. m \in Nat /\ V # {}
  BY SeqOfNone
<1>2. R \in [0 .. m -> [[0 .. m -> V] -> V]]
  <2>. SUFFICES ASSUME NEW k \in 0 .. m, NEW g \in [0 .. m -> V]
                PROVE  CollectRow(g, start, lines, k) \in V
    OBVIOUS
  <2>1. CASE k = 0
    BY <2>1 DEF CollectRow
  <2>2. CASE k # 0
    <3>1. k - 1 \in 0 .. m /\ k \in 1 .. Len(lines)
      BY <1>1, <2>2
    <3>2. g[k - 1] \in Seq(RuleSet) /\ lines[k] \in Entries
      BY <3>1
    <3>. QED BY <2>2, <3>2, CollectType DEF CollectRow
  <2>. QED BY <2>1, <2>2
<1>3. ASSUME NEW k \in 0 .. m, NEW g \in [0 .. m -> V], NEW h \in [0 .. m -> V],
             \A j \in 0 .. m : j < k => g[j] = h[j]
      PROVE  R[k][g] = R[k][h]
  <2>1. k # 0 => g[k - 1] = h[k - 1]
    BY <1>1, <1>3
  <2>. QED BY <2>1 DEF CollectRow
<1>4. \E g \in [0 .. m -> V] : \A k \in 0 .. m : g[k] = R[k][g]
  <2>. HIDE DEF m, V, R
  <2>1. FromBelow(R, m, V)
    BY <1>3 DEF FromBelow
  <2>2. SolvedFromBelow(R, m, V)
    BY <1>1, <1>2, <2>1, UpRecursion
  <2>. QED BY <2>2 DEF SolvedFromBelow
<1>. QED BY <1>4

IsCollecting(g, start, lines) ==
  /\ g \in [0 .. Len(lines) -> Seq(RuleSet)]
  /\ g[0] = start
  /\ \A k \in 1 .. Len(lines) : g[k] = Collect(g[k - 1], lines[k])
  /\ Collected(start, lines) = g[Len(lines)]

LEMMA CollectFacts ==
  ASSUME NEW start \in Seq(RuleSet), NEW lines \in Seq(Entries)
  PROVE  \E g : IsCollecting(g, start, lines)
<1>. DEFINE Row(f) == [k \in 0 .. Len(lines) |->
                         IF k = 0 THEN start ELSE Collect(f[k - 1], lines[k])]
            c == CHOOSE f : f = Row(f)
<1>1. PICK g \in [0 .. Len(lines) -> Seq(RuleSet)] :
        \A k \in 0 .. Len(lines) : g[k] = CollectRow(g, start, lines, k)
  BY CollectExists
<1>2. Len(lines) \in Nat
  OBVIOUS
<1>3. g = Row(g)
  BY <1>1 DEF CollectRow
<1>4. c = Row(c)
  <2>. HIDE DEF Row
  <2>. QED BY <1>3
<1>5. Collected(start, lines) = c[Len(lines)]
  BY DEF Collected
<1>. HIDE DEF c
<1>6. \A k \in 0 .. Len(lines) : c[k] = CollectRow(c, start, lines, k)
  BY <1>4 DEF CollectRow
<1>7. EqualFromBelow(c, g, Len(lines))
  <2>. SUFFICES ASSUME NEW k \in 0 .. Len(lines),
                       \A j \in 0 .. Len(lines) : j < k => c[j] = g[j]
                PROVE  c[k] = g[k]
    BY DEF EqualFromBelow
  <2>1. k # 0 => c[k - 1] = g[k - 1]
    BY <1>2
  <2>2. CollectRow(c, start, lines, k) = CollectRow(g, start, lines, k)
    BY <2>1 DEF CollectRow
  <2>. QED BY <1>1, <1>6, <2>2
<1>8. \A k \in 0 .. Len(lines) : c[k] = g[k]
  BY <1>2, <1>7, UpUnique
<1>9. Collected(start, lines) = g[Len(lines)]
  BY <1>2, <1>5, <1>8
<1>10. g[0] = start /\ \A k \in 1 .. Len(lines) : g[k] = Collect(g[k - 1], lines[k])
  BY <1>1, <1>2 DEF CollectRow
<1>. QED BY <1>9, <1>10 DEF IsCollecting

LEMMA CollectedType ==
  ASSUME NEW start \in Seq(RuleSet), NEW lines \in Seq(Entries)
  PROVE  Collected(start, lines) \in Seq(RuleSet)
<1>1. PICK g : IsCollecting(g, start, lines)
  BY CollectFacts
<1>. QED BY <1>1 DEF IsCollecting

LEMMA CollectedNone ==
  ASSUME NEW start \in Seq(RuleSet)
  PROVE  Collected(start, <<>>) = start
<1>1. PICK g : IsCollecting(g, start, <<>>)
  BY CollectFacts, SeqOfNone
<1>. QED BY <1>1 DEF IsCollecting

LEMMA CollectedAppend ==
  ASSUME NEW start \in Seq(RuleSet), NEW lines \in Seq(Entries), NEW x \in Entries
  PROVE  Collected(start, Append(lines, x)) = Collect(Collected(start, lines), x)
<1>1. PICK n \in Nat : n = Len(lines)
  OBVIOUS
<1>2. PICK tt : tt = Append(lines, x)
  OBVIOUS
<1>3. /\ tt \in Seq(Entries) /\ Len(tt) = n + 1 /\ tt[n + 1] = x
      /\ \A i \in 1 .. n : tt[i] = lines[i]
  BY <1>1, <1>2, AppendFacts
<1>4. PICK g : IsCollecting(g, start, lines)
  BY CollectFacts
<1>5. PICK h : IsCollecting(h, start, tt)
  BY <1>3, CollectFacts
<1>6. EqualFromBelow(g, h, n)
  <2>. SUFFICES ASSUME NEW i \in 0 .. n, \A j \in 0 .. n : j < i => g[j] = h[j]
                PROVE  g[i] = h[i]
    BY DEF EqualFromBelow
  <2>1. CASE i = 0
    BY <1>4, <1>5, <2>1 DEF IsCollecting
  <2>2. CASE i # 0
    <3>1. i - 1 \in 0 .. n /\ i \in 1 .. n /\ i \in 1 .. n + 1 /\ i - 1 < i
      BY <2>2
    <3>2. g[i] = Collect(g[i - 1], lines[i]) /\ h[i] = Collect(h[i - 1], tt[i])
      BY <1>1, <1>3, <1>4, <1>5, <3>1 DEF IsCollecting
    <3>. QED BY <1>3, <3>1, <3>2
  <2>. QED BY <2>1, <2>2
<1>7. g[n] = h[n]
  <2>1. \A i \in 0 .. n : g[i] = h[i]
    BY <1>6, UpUnique
  <2>. QED BY <2>1
<1>8. h[n + 1] = Collect(h[n], x)
  <2>1. n + 1 \in 1 .. Len(tt) /\ (n + 1) - 1 = n
    BY <1>3
  <2>2. h[n + 1] = Collect(h[(n + 1) - 1], tt[n + 1])
    BY <1>5, <2>1 DEF IsCollecting
  <2>. QED BY <1>3, <2>1, <2>2
<1>9. Collected(start, lines) = g[n] /\ Collected(start, tt) = h[n + 1]
  BY <1>1, <1>3, <1>4, <1>5 DEF IsCollecting
<1>. QED BY <1>2, <1>7, <1>8, <1>9

-----------------------------------------------------------------------------
(* The invariant of the loader.                                            *)

LInv ==
  /\ InputsOK
  /\ pc \in ToSet(Sources) \cup {"done"} \cup Refusals
  /\ pc \in ToSet(Sources) => next \in 1 .. Len(cli[pc]) + 1
  /\ FramesOK(tree, open)
  /\ visiting = Files(open)
  /\ \A file \in visiting : IsText(tree[file])
  /\ open # <<>> => /\ pc \in {"filter_from"} \cup Refusals
                    /\ next \in 1 .. Len(cli.filter_from)
                    /\ open[1].path = cli.filter_from[next]
  /\ loaded \in Seq(Entries)
  /\ rules \in Seq(RuleSet)
  /\ open = <<>> => loaded = <<>>

LEMMA FilesCounted ==
  ASSUME NEW t, NEW frames, FramesOK(t, frames)
  PROVE  Cardinality(Files(frames)) = Len(frames)
<1>1. PICK n \in Nat : n = Len(frames)
  BY DEF FramesOK
<1>. DEFINE f == [k \in 1 .. n |-> File(frames, k)]
            I == Files(frames)
<1>2. f \in [1 .. n -> I]
  BY <1>1 DEF Files
<1>3. \A x \in I : \E k \in 1 .. n : f[k] = x
  BY <1>1 DEF Files
<1>4. \A j, k \in 1 .. n : f[j] = f[k] => j = k
  BY <1>1 DEF FramesOK
<1>5. f \in Bijection(1 .. n, I)
  <2>. HIDE DEF f, I
  <2>. QED BY <1>2, <1>3, <1>4 DEF Bijection, Injection, Surjection, IsInjective
<1>6. ExistsBijection(1 .. n, I)
  BY <1>5 DEF ExistsBijection
<1>7. IsFiniteSet(1 .. n) /\ Cardinality(1 .. n) = n
  BY FS_Interval
<1>8. Cardinality(I) = n
  <2>. HIDE DEF I
  <2>. QED BY <1>6, <1>7, FS_Bijection
<1>. QED BY <1>1, <1>8

LEMMA LTypeOK == LInv => TypeOK
<1>. SUFFICES ASSUME LInv PROVE TypeOK
  OBVIOUS
<1>1. open \in Seq(OpenSet) /\ DOMAIN open = 1 .. Len(open)
  BY DEF LInv, FramesOK
<1>2. ASSUME NEW k \in DOMAIN open
      PROVE  Exists(open[k].path) /\ open[k].line \in 1 .. Len(tree[Canonical(open[k].path)]) + 1
  BY <1>1 DEF LInv, FramesOK, File, Exists
<1>3. visiting = {Canonical(open[k].path) : k \in DOMAIN open}
  BY <1>1 DEF LInv, Files, File
<1>4. Cardinality(visiting) = Len(open)
  BY FilesCounted DEF LInv
<1>5. \A k \in DOMAIN loaded : loaded[k].kind \in {"rule", "clear"}
  BY EntryFacts DEF LInv
<1>. QED BY <1>2, <1>3, <1>4, <1>5 DEF TypeOK, LInv, InputsOK

-----------------------------------------------------------------------------
(* What the steps have in common.                                          *)

\* while a file is read
LEMMA ReadingFacts ==
  ASSUME LInv, Reading
  PROVE  /\ TreeOK(tree) /\ OptionsOK(cli)
         /\ open \in Seq(OpenSet) /\ open # <<>> /\ Len(open) \in 1 .. Len(open)
         /\ Len(open) \in Nat \ {0}
         /\ Frame = open[Len(open)] /\ Canonical(Frame.path) = File(open, Len(open))
         /\ Lines = tree[File(open, Len(open))] /\ Lines \in Seq(TextLines)
         /\ Frame.line \in Nat \ {0} /\ Frame.path \in Seq(Chars) /\ Frame.path # <<>>
         /\ File(open, Len(open)) \in DOMAIN tree
<1>1. TreeOK(tree) /\ OptionsOK(cli)
  BY InputsFacts DEF LInv
<1>2. open \in Seq(OpenSet) /\ open # <<>> /\ FramesOK(tree, open)
  BY DEF LInv, FramesOK, Reading
<1>3. Len(open) \in 1 .. Len(open) /\ Len(open) \in Nat \ {0}
  BY <1>2
<1>4. Frame = open[Len(open)]
  BY DEF Frame, Last
<1>5. Canonical(Frame.path) = File(open, Len(open))
  BY <1>4 DEF File
<1>6. Lines = tree[File(open, Len(open))]
  BY <1>5 DEF Lines
<1>. QED BY <1>1, <1>2, <1>3, <1>4, <1>5, <1>6, FrameTypes

LEMMA AtLineFacts ==
  ASSUME LInv, AtLine
  PROVE  /\ Frame.line \in 1 .. Len(Lines)
         /\ Lines[Frame.line] \in TextLines
         /\ Parsed = parse_filter_line(LineAt(tree, open, Len(open), Frame.line))
         /\ IsSpoken(Parsed)
         /\ Parsed.kind \in {"rule", "clear"} => Parsed \in Entries
         /\ Parsed.kind = "merge" =>
              /\ Parsed.path \in Seq(Chars) /\ Parsed.path # <<>>
              /\ Joined(Frame.path, Parsed.path) \in Seq(Chars)
              /\ Canonical(Joined(Frame.path, Parsed.path)) =
                   Target(File(open, Len(open)), LineAt(tree, open, Len(open), Frame.line))
<1>. Reading /\ Frame.line <= Len(Lines)
  BY DEF AtLine
<1>1. /\ Lines \in Seq(TextLines) /\ Frame.line \in Nat \ {0}
      /\ Lines = tree[File(open, Len(open))]
  BY ReadingFacts
<1>2. Frame.line \in 1 .. Len(Lines)
  BY <1>1
<1>3. PICK line \in TextLines : line = Lines[Frame.line]
  BY <1>1, <1>2
<1>4. LineAt(tree, open, Len(open), Frame.line) = line
  BY <1>1, <1>3 DEF LineAt
<1>5. Parsed = parse_filter_line(line)
  BY <1>3 DEF Parsed
<1>6. IsSpoken(Parsed) /\ (Parsed.kind = "merge" => Parsed.path = line.body /\ line.body # <<>>)
  BY <1>5, LinesSpeak
<1>7. Parsed.kind \in {"rule", "clear"} => Parsed \in Entries
  BY <1>5, LineIsEntry
<1>8. ASSUME Parsed.kind = "merge"
      PROVE  /\ Parsed.path \in Seq(Chars) /\ Parsed.path # <<>>
             /\ Joined(Frame.path, Parsed.path) \in Seq(Chars)
             /\ Canonical(Joined(Frame.path, Parsed.path)) = Target(File(open, Len(open)), line)
  <2>1. PICK text \in Seq(Chars) : text = line.body /\ text # <<>> /\ Parsed.path = text
    BY <1>6, <1>8 DEF TextLines
  <2>2. PICK path \in Seq(Chars) : path = Frame.path /\ path # <<>>
    BY ReadingFacts
  <2>3. Without("/", text) \in Seq(Chars) /\ Front(path) \in Seq(Chars) /\ <<>> \in Seq(Chars)
    BY <2>2, WithoutType, FrontFacts, SeqOfNone
  <2>4. Joined(path, text) \in Seq(Chars)
    <3>1. Front(path) \o Without("/", text) \in Seq(Chars) /\ <<>> \o Without("/", text) \in Seq(Chars)
      BY <2>3, ConcatFacts
    <3>. QED BY <3>1 DEF Joined
  <2>5. Canonical(Joined(path, text)) = Canonical(Joined(Canonical(path), text))
    BY <2>1, <2>2, CanonicalJoined
  <2>6. Canonical(path) = File(open, Len(open))
    BY <2>2, ReadingFacts
  <2>. QED BY <2>1, <2>2, <2>4, <2>5, <2>6 DEF Target
<1>. QED BY <1>2, <1>3, <1>4, <1>5, <1>6, <1>7, <1>8

-----------------------------------------------------------------------------
(* Every step keeps the invariant.                                         *)

LEMMA LInit == Init => LInv
<1>. SUFFICES ASSUME Init PROVE LInv
  OBVIOUS
<1>1. InputsOK
  BY DEF Init, InputsOK
<1>2. OptionsOK(cli) /\ "filter_from" \in ToSet(Sources)
  BY <1>1, InputsFacts, SourceSet
<1>3. Len(cli["filter_from"]) \in Nat
  BY <1>2, SourceLengths
<1>4. 1 \in 1 .. Len(cli["filter_from"]) + 1
  BY <1>3
<1>5. FramesOK(tree, <<>>) /\ Files(<<>>) = {}
  BY NoFrames
<1>6. <<>> \in Seq(Entries) /\ <<>> \in Seq(RuleSet)
  BY SeqOfNone
<1>. QED BY <1>1, <1>2, <1>4, <1>5, <1>6 DEF Init, LInv

LEMMA LFail == ASSUME LInv, NEW refusal \in Refusals, Fail(refusal) PROVE LInv'
<1>1. InputsOK'
  BY DEF LInv, InputsOK, Fail, inputs
<1>2. pc' \in Refusals /\ pc' \notin ToSet(Sources)
  BY SourceSet DEF Fail, Refusals
<1>. QED BY <1>1, <1>2 DEF LInv, Fail, inputs

\* a file that is not read ends the loading
LEMMA RefuseFails ==
  ASSUME NEW path, Refuse(path)
  PROVE  \E refusal \in {"recursive", "not_found", "unreadable"} : Fail(refusal)
BY DEF Refuse, NotRead

LEMMA LRefuse == ASSUME LInv, NEW path, Refuse(path) PROVE LInv'
BY RefuseFails, LFail DEF Refusals

LEMMA LOpenFile == LInv /\ OpenFile => LInv'
<1>. SUFFICES ASSUME LInv, OpenFile PROVE LInv'
  OBVIOUS
<1>1. CASE Refused(cli.filter_from[next])
  BY <1>1, LRefuse DEF OpenFile
<1>2. CASE ~Refused(cli.filter_from[next])
  <2>1. /\ pc = "filter_from" /\ open = <<>> /\ next <= Len(cli.filter_from)
        /\ Enter(cli.filter_from[next], <<>>)
    BY <1>2 DEF OpenFile
  <2>2. TreeOK(tree) /\ cli.filter_from \in Seq(Seq(Chars)) /\ "filter_from" \in ToSet(Sources)
    BY InputsFacts, SourceSet DEF LInv, OptionsOK
  <2>3. next \in 1 .. Len(cli.filter_from)
    BY <2>1, <2>2 DEF LInv
  <2>4. PICK path \in Seq(Chars) : path = cli.filter_from[next]
    BY <2>2, <2>3
  <2>5. Canonical(path) \in DOMAIN tree /\ IsText(tree[Canonical(path)])
    BY <1>2, <2>4 DEF Refused, Exists, Unreadable
  <2>6. FramesOK(tree, <<>>) /\ Files(<<>>) = {}
    BY NoFrames
  <2>7. PICK s : s = Append(<<>>, Begun(path))
    OBVIOUS
  <2>8. /\ FramesOK(tree, s) /\ Len(s) = Len(<<>>) + 1 /\ Files(s) = {} \cup {Canonical(path)}
        /\ s[Len(s)].path = path
    <3>1. Canonical(path) \notin Files(<<>>) /\ (<<>> # <<>> => MergesNext(tree, s, Len(<<>>)))
      BY <2>6
    <3>2. PICK none : none = <<>>
      OBVIOUS
    <3>3. IsEntered(tree, none, path, s)
      BY <2>2, <2>5, <2>6, <2>7, <3>1, <3>2, FramesEnter
    <3>. QED BY <2>6, <3>2, <3>3 DEF IsEntered
  <2>9. Len(s) = 1 /\ s[1].path = path
    BY <2>8
  <2>10. /\ open' = s /\ visiting' = Files(<<>>) \cup {Canonical(path)}
         /\ UNCHANGED <<tree, cli, pc, next, loaded, rules>>
    BY <2>1, <2>4, <2>6, <2>7 DEF Enter, inputs, LInv, Begun
  <2>11. InputsOK'
    BY <2>10 DEF LInv, InputsOK
  <2>12. open' # <<>>
    BY <2>9, <2>10
  <2>13. (\A file \in visiting : IsText(tree[file]))'
    BY <2>5, <2>6, <2>10
  <2>. QED BY <2>1, <2>3, <2>4, <2>6, <2>8, <2>9, <2>10, <2>11, <2>12, <2>13 DEF LInv
<1>. QED BY <1>1, <1>2

LEMMA SteppedOK ==
  ASSUME LInv, AtLine
  PROVE  /\ FramesOK(tree, Stepped) /\ Len(Stepped) = Len(open) /\ Stepped # <<>>
         /\ Files(Stepped) = Files(open)
         /\ \A k \in 1 .. Len(open) :
               /\ File(Stepped, k) = File(open, k)
               /\ Stepped[k].path = open[k].path
               /\ Stepped[k].line = IF k = Len(open) THEN open[k].line + 1 ELSE open[k].line
<1>1. Reading /\ Frame.line <= Len(Lines)
  BY DEF AtLine
<1>2. /\ TreeOK(tree) /\ open # <<>> /\ Frame = open[Len(open)]
      /\ Lines = tree[File(open, Len(open))]
  BY <1>1, ReadingFacts
<1>3. FramesOK(tree, open) /\ open[Len(open)].line <= Len(tree[File(open, Len(open))])
  BY <1>1, <1>2 DEF LInv
<1>4. Stepped = [open EXCEPT ![Len(open)].line = @ + 1]
  BY DEF Stepped
<1>5. PICK s : s = OneOn(open) /\ s = Stepped
  BY <1>4 DEF OneOn
<1>6. IsOneOn(tree, open, s)
  BY <1>2, <1>3, <1>5, FramesStep, Zenon
<1>. QED BY <1>5, <1>6, Zenon DEF IsOneOn

LEMMA LReadNothing == LInv /\ ReadNothing => LInv'
<1>. SUFFICES ASSUME LInv, ReadNothing PROVE LInv'
  OBVIOUS
<1>1. AtLine /\ open' = Stepped /\ UNCHANGED <<tree, cli, pc, next, visiting, loaded, rules>>
  BY DEF ReadNothing, inputs
<1>2. open # <<>> /\ 1 \in 1 .. Len(open)
  BY <1>1, ReadingFacts DEF AtLine
<1>3. /\ FramesOK(tree, Stepped) /\ Stepped # <<>> /\ Files(Stepped) = Files(open)
      /\ Stepped[1].path = open[1].path
  BY <1>1, <1>2, SteppedOK
<1>4. InputsOK'
  BY <1>1 DEF LInv, InputsOK
<1>. QED BY <1>1, <1>2, <1>3, <1>4 DEF LInv

LEMMA LReadRule == LInv /\ ReadRule => LInv'
<1>. SUFFICES ASSUME LInv, ReadRule PROVE LInv'
  OBVIOUS
<1>1. /\ AtLine /\ open' = Stepped /\ loaded' = Append(loaded, Parsed)
      /\ UNCHANGED <<tree, cli, pc, next, visiting, rules>>
      /\ Parsed.kind \in {"rule", "clear"}
  BY DEF ReadRule, inputs
<1>2. open # <<>> /\ 1 \in 1 .. Len(open)
  BY <1>1, ReadingFacts DEF AtLine
<1>3. /\ FramesOK(tree, Stepped) /\ Stepped # <<>> /\ Files(Stepped) = Files(open)
      /\ Stepped[1].path = open[1].path
  BY <1>1, <1>2, SteppedOK
<1>4. InputsOK'
  BY <1>1 DEF LInv, InputsOK
<1>5. loaded' \in Seq(Entries)
  <2>1. Parsed \in Entries /\ loaded \in Seq(Entries)
    BY <1>1, AtLineFacts DEF LInv
  <2>. QED BY <1>1, <2>1, AppendFacts
<1>. QED BY <1>1, <1>2, <1>3, <1>4, <1>5 DEF LInv

\* the stack after a merge line
LEMMA MergedOK ==
  ASSUME LInv, ReadMerge, NEW path, path = Joined(Frame.path, Parsed.path), ~Refused(path)
  PROVE  LET s == Append(Stepped, Begun(path))
         IN  /\ FramesOK(tree, s) /\ Len(s) = Len(open) + 1 /\ s # <<>>
             /\ open' = s /\ visiting' = Files(s) /\ visiting' = Files(open) \cup {Canonical(path)}
             /\ UNCHANGED <<tree, cli, pc, next, loaded, rules>>
             /\ \A k \in 1 .. Len(open) :
                  /\ s[k] = Stepped[k] /\ s[k].path = open[k].path /\ File(s, k) = File(open, k)
                  /\ s[k].line = IF k = Len(open) THEN open[k].line + 1 ELSE open[k].line
             /\ s[Len(open) + 1].line = 1 /\ File(s, Len(open) + 1) = Canonical(path)
             /\ IsText(tree[Canonical(path)])
             /\ Canonical(path) =
                   Target(File(open, Len(open)), LineAt(tree, open, Len(open), Frame.line))
<1>. DEFINE s == Append(Stepped, Begun(path))
<1>1. AtLine /\ Parsed.kind = "merge" /\ Enter(path, Stepped)
  BY DEF ReadMerge
<1>2. Reading /\ TreeOK(tree)
  BY <1>1, ReadingFacts DEF AtLine
<1>3. PICK n \in Nat \ {0} : n = Len(open)
  BY <1>2, ReadingFacts
<1>4. /\ FramesOK(tree, Stepped) /\ Len(Stepped) = n /\ Stepped # <<>>
      /\ Files(Stepped) = Files(open)
      /\ \A k \in 1 .. n :
            /\ File(Stepped, k) = File(open, k)
            /\ Stepped[k].path = open[k].path
            /\ Stepped[k].line = IF k = n THEN open[k].line + 1 ELSE open[k].line
  BY <1>1, <1>3, SteppedOK
<1>5. /\ path \in Seq(Chars)
      /\ Canonical(path) = Target(File(open, n), LineAt(tree, open, n, Frame.line))
      /\ Parsed = parse_filter_line(LineAt(tree, open, n, Frame.line))
  BY <1>1, <1>3, AtLineFacts
<1>6. Canonical(path) \in DOMAIN tree /\ Canonical(path) \notin Files(Stepped)
  BY <1>4 DEF Refused, Exists, LInv
<1>7. PICK new \in OpenSet : new = Begun(path) /\ new.path = path
  <2>1. Begun(path) \in OpenSet
    BY <1>5 DEF OpenSet, Begun
  <2>2. PICK new : new = Begun(path)
    OBVIOUS
  <2>3. new.path = path
    BY <2>2 DEF Begun
  <2>. QED BY <2>1, <2>2, <2>3
<1>8. Stepped \in Seq(OpenSet) /\ s = Append(Stepped, new)
  BY <1>4, <1>7 DEF FramesOK
<1>. HIDE DEF s
<1>9. s[n + 1] = new /\ \A k \in 1 .. n : s[k] = Stepped[k]
  BY <1>3, <1>4, <1>8, AppendFacts
<1>10. /\ \A k \in 1 .. n : File(s, k) = File(Stepped, k)
       /\ File(s, n + 1) = Canonical(path)
  BY <1>7, <1>9 DEF File
<1>11. MergesNext(tree, s, n)
  <2>1. n \in 1 .. n /\ Frame = open[n] /\ Frame.line \in Nat \ {0}
    BY <1>2, <1>3, ReadingFacts
  <2>2. s[n].line = Frame.line + 1
    BY <1>4, <1>9, <2>1
  <2>3. s[n].line > 1 /\ s[n].line - 1 = Frame.line
    BY <2>1, <2>2
  <2>4. File(s, n) = File(open, n)
    BY <1>4, <1>10, <2>1
  <2>5. LineAt(tree, s, n, s[n].line - 1) = LineAt(tree, open, n, Frame.line)
    BY <2>3, <2>4 DEF LineAt
  <2>. QED BY <1>1, <1>5, <1>10, <2>3, <2>4, <2>5 DEF MergesNext
<1>12. /\ FramesOK(tree, s) /\ Len(s) = n + 1
       /\ Files(s) = Files(Stepped) \cup {Canonical(path)}
       /\ s[Len(s)].line = 1
  <2>1. s = Append(Stepped, Begun(path))
    BY DEF s
  <2>2. Stepped # <<>> => MergesNext(tree, s, Len(Stepped))
    BY <1>4, <1>11
  <2>3. PICK frames : frames = Stepped
    OBVIOUS
  <2>4. IsEntered(tree, frames, path, s)
    BY <1>2, <1>4, <1>5, <1>6, <2>1, <2>2, <2>3, FramesEnter
  <2>. QED BY <1>4, <2>3, <2>4 DEF IsEntered
<1>13. open' = s /\ visiting' = Files(s) /\ visiting' = Files(open) \cup {Canonical(path)}
       /\ UNCHANGED <<tree, cli, pc, next, loaded, rules>>
  <2>1. open' = s
    BY <1>1 DEF Enter, s, Begun
  <2>2. visiting' = Files(open) \cup {Canonical(path)}
    BY <1>1 DEF Enter, LInv
  <2>. QED BY <1>1, <1>4, <1>12, <2>1, <2>2 DEF Enter, inputs
<1>14. s # <<>>
  BY <1>12
<1>15. IsText(tree[Canonical(path)])
  BY DEF Refused, Unreadable
<1>. QED BY <1>3, <1>4, <1>5, <1>9, <1>10, <1>12, <1>13, <1>14, <1>15 DEF s

LEMMA LReadMerge == LInv /\ ReadMerge => LInv'
<1>. SUFFICES ASSUME LInv, ReadMerge PROVE LInv'
  OBVIOUS
<1>1. PICK path : path = Joined(Frame.path, Parsed.path)
  OBVIOUS
<1>2. CASE Refused(path)
  BY <1>1, <1>2, LRefuse DEF ReadMerge
<1>3. CASE ~Refused(path)
  <2>1. PICK s : s = Append(Stepped, Begun(path))
    OBVIOUS
  <2>2. Reading /\ open # <<>> /\ 1 \in 1 .. Len(open)
    BY ReadingFacts DEF ReadMerge, AtLine
  <2>3. /\ FramesOK(tree, s) /\ s # <<>>
        /\ open' = s /\ visiting' = Files(s) /\ visiting' = Files(open) \cup {Canonical(path)}
        /\ UNCHANGED <<tree, cli, pc, next, loaded, rules>>
        /\ \A k \in 1 .. Len(open) : s[k].path = open[k].path
        /\ IsText(tree[Canonical(path)])
    BY <1>1, <1>3, <2>1, MergedOK
  <2>4. s[1].path = open[1].path
    BY <2>2, <2>3
  <2>5. InputsOK'
    BY <2>3 DEF LInv, InputsOK
  <2>6. (\A file \in visiting : IsText(tree[file]))'
    BY <2>3 DEF LInv
  <2>. QED BY <2>2, <2>3, <2>4, <2>5, <2>6 DEF LInv
<1>. QED BY <1>2, <1>3

LEMMA LLeaveMerged == LInv /\ LeaveMerged => LInv'
<1>. SUFFICES ASSUME LInv, LeaveMerged PROVE LInv'
  OBVIOUS
<1>1. /\ Reading /\ Len(open) > 1 /\ open' = Front(open)
      /\ visiting' = visiting \ {Canonical(Frame.path)}
      /\ UNCHANGED <<tree, cli, pc, next, loaded, rules>>
  BY DEF LeaveMerged, AtEnd, inputs
<1>2. /\ TreeOK(tree) /\ open # <<>> /\ Len(open) \in Nat
      /\ Canonical(Frame.path) = File(open, Len(open))
  BY <1>1, ReadingFacts
<1>3. PICK s : s = Front(open)
  OBVIOUS
<1>4. /\ FramesOK(tree, s) /\ Len(s) = Len(open) - 1
      /\ Files(s) = Files(open) \ {File(open, Len(open))}
      /\ \A k \in 1 .. Len(s) : s[k] = open[k]
  <2>1. FramesOK(tree, open)
    BY DEF LInv
  <2>. QED BY <1>2, <1>3, <2>1, FramesLeave
<1>5. 1 \in 1 .. Len(s) /\ s # <<>>
  BY <1>1, <1>2, <1>4
<1>6. s[1].path = open[1].path
  BY <1>4, <1>5
<1>7. InputsOK'
  BY <1>1 DEF LInv, InputsOK
<1>. QED BY <1>1, <1>2, <1>3, <1>4, <1>5, <1>6, <1>7 DEF LInv

LEMMA LLeaveFile == LInv /\ LeaveFile => LInv'
<1>. SUFFICES ASSUME LInv, LeaveFile PROVE LInv'
  OBVIOUS
<1>1. /\ Reading /\ rules' = Collected(rules, loaded) /\ open' = <<>> /\ visiting' = {}
      /\ loaded' = <<>> /\ next' = next + 1 /\ UNCHANGED <<tree, cli, pc>>
  BY DEF LeaveFile, AtEnd, inputs
<1>2. next \in 1 .. Len(cli.filter_from) /\ pc = "filter_from" /\ OptionsOK(cli)
  BY <1>1, InputsFacts DEF LInv, Reading
<1>3. Len(cli.filter_from) \in Nat
  BY <1>2 DEF OptionsOK
<1>4. next' \in 1 .. Len(cli[pc]) + 1
  BY <1>1, <1>2, <1>3
<1>5. InputsOK'
  BY <1>1 DEF LInv, InputsOK
<1>6. rules' \in Seq(RuleSet) /\ loaded' \in Seq(Entries)
  BY <1>1, CollectedType, SeqOfNone DEF LInv
<1>7. FramesOK(tree, <<>>) /\ Files(<<>>) = {}
  BY NoFrames
<1>. QED BY <1>1, <1>4, <1>5, <1>6, <1>7 DEF LInv

\* steps that read no filter file
LEMMA LAside ==
  ASSUME LInv, open = <<>>, UNCHANGED <<tree, cli, open, visiting, loaded>>,
         pc' \in ToSet(Sources) \cup {"done"},
         pc' \in ToSet(Sources) => next' \in 1 .. Len(cli[pc']) + 1,
         rules' \in Seq(RuleSet)
  PROVE  LInv'
<1>1. InputsOK'
  BY DEF LInv, InputsOK
<1>. QED BY <1>1 DEF LInv

LEMMA NextPiece ==
  ASSUME LInv, pc \in ToSet(Sources), next <= Len(cli[pc])
  PROVE  next \in 1 .. Len(cli[pc]) /\ next + 1 \in 1 .. Len(cli[pc]) + 1
<1>1. next \in 1 .. Len(cli[pc]) + 1 /\ Len(cli[pc]) \in Nat
  BY InputsFacts, SourceLengths DEF LInv
<1>. QED BY <1>1

LEMMA LFilterLine == LInv /\ FilterLine => LInv'
<1>. SUFFICES ASSUME LInv, FilterLine PROVE LInv'
  OBVIOUS
<1>1. pc = "filter" /\ next <= Len(cli.filter) /\ pc \in ToSet(Sources) /\ open = <<>>
  BY SourceSet DEF FilterLine, LInv, Refusals
<1>2. next \in 1 .. Len(cli[pc]) /\ next + 1 \in 1 .. Len(cli[pc]) + 1 /\ cli[pc] = cli.filter
  BY <1>1, NextPiece
<1>3. cli.filter[next] \in TextLines
  BY <1>1, <1>2, InputsFacts DEF LInv, OptionsOK
<1>4. PICK line : line = parse_filter_line(cli.filter[next])
  OBVIOUS
<1>5. CASE line.kind \in {"merge", "invalid", "panicked"}
  <2>1. Fail("invalid") \/ Fail("panicked")
    BY <1>4, <1>5 DEF FilterLine, Rejected
  <2>. QED BY <2>1, LFail DEF Refusals
<1>6. CASE line.kind \notin {"merge", "invalid", "panicked"}
  <2>1. /\ rules' = IF line.kind = "none" THEN rules ELSE Collect(rules, line)
        /\ next' = next + 1
        /\ UNCHANGED <<tree, cli, pc, open, visiting, loaded>>
    BY <1>4, <1>6 DEF FilterLine, Rejected, inputs
  <2>2. line.kind \in {"none", "rule", "clear"}
    BY <1>3, <1>4, <1>6, LinesSpeak, SpokenKinds
  <2>3. rules' \in Seq(RuleSet)
    <3>1. CASE line.kind = "none"
      BY <2>1, <3>1 DEF LInv
    <3>2. CASE line.kind \in {"rule", "clear"}
      <4>1. line \in Entries
        BY <1>3, <1>4, <3>2, LineIsEntry
      <4>. QED BY <2>1, <3>2, <4>1, CollectType DEF LInv
    <3>. QED BY <2>2, <3>1, <3>2
  <2>. QED BY <1>1, <1>2, <2>1, <2>3, LAside
<1>. QED BY <1>5, <1>6

\* the lines of a side file, none of which is refused
LEMMA SideLinesType ==
  ASSUME NEW lines \in Seq(TextLines), NEW include \in BOOLEAN,
         \A k \in DOMAIN lines : ParseSideLine(lines[k], include) # Invalid
  PROVE  SideLines(lines, include) \in Seq(Entries)
<1>. DEFINE parsed == [k \in DOMAIN lines |-> ParseSideLine(lines[k], include)]
            E == {said \in Spoken : said.kind \in {"none", "rule"}}
<1>1. ASSUME NEW k \in DOMAIN lines PROVE ParseSideLine(lines[k], include) \in E
  <2>1. lines[k] \in TextLines
    OBVIOUS
  <2>2. /\ IsSpoken(ParseSideLine(lines[k], include))
        /\ ParseSideLine(lines[k], include).kind \in {"none", "rule", "invalid"}
    BY <2>1, SideLinesSpeak
  <2>3. ParseSideLine(lines[k], include).kind # "invalid"
    BY <2>2, SpokenKinds
  <2>4. ParseSideLine(lines[k], include) \in Spoken
    BY <2>1 DEF Spoken
  <2>. QED BY <2>2, <2>3, <2>4
<1>2. parsed \in Seq(E)
  <2>1. Len(lines) \in Nat /\ DOMAIN lines = 1 .. Len(lines)
    OBVIOUS
  <2>. HIDE DEF E
  <2>2. parsed \in [1 .. Len(lines) -> E]
    BY <1>1, <2>1
  <2>. QED BY <2>1, <2>2, IsASeq
<1>3. Without(Nothing, parsed) \in Seq(E \ {Nothing})
  <2>. HIDE DEF parsed, E
  <2>. QED BY <1>2, WithoutType
<1>4. \A said \in E \ {Nothing} : said \in Entries
  <2>. SUFFICES ASSUME NEW said \in E \ {Nothing} PROVE said \in Entries
    OBVIOUS
  <2>1. said \in Spoken /\ said.kind \in {"none", "rule"} /\ said # Nothing
    OBVIOUS
  <2>2. IsSpoken(said)
    BY <2>1, LinesSpeak, SideLinesSpeak DEF Spoken
  <2>3. said.kind # "none"
    BY <2>1, <2>2, SpokenKinds
  <2>. QED BY <2>1, <2>3 DEF Entries
<1>5. Without(Nothing, parsed) \in Seq(Entries)
  <2>. HIDE DEF parsed, E
  <2>1. E \ {Nothing} \subseteq Entries
    BY <1>4
  <2>. QED BY <1>3, <2>1, SeqInclusion
<1>. QED BY <1>5 DEF SideLines

\* the file that SideFile reads next
LEMMA SideFacts ==
  ASSUME LInv, pc \in {"include_from", "exclude_from"}, next <= Len(cli[pc])
  PROVE  /\ pc \in ToSet(Sources) /\ open = <<>>
         /\ next \in 1 .. Len(cli[pc]) /\ next + 1 \in 1 .. Len(cli[pc]) + 1
         /\ cli[pc] \in Seq(Seq(Chars)) /\ cli[pc][next] \in Seq(Chars)
         /\ Exists(cli[pc][next]) => tree[Canonical(cli[pc][next])] \in Seq(TextLines)
<1>1. pc \in ToSet(Sources) /\ open = <<>> /\ TreeOK(tree) /\ OptionsOK(cli)
  BY SourceSet, InputsFacts DEF LInv, Refusals
<1>2. next \in 1 .. Len(cli[pc]) /\ next + 1 \in 1 .. Len(cli[pc]) + 1
  BY <1>1, NextPiece
<1>3. cli[pc] \in Seq(Seq(Chars))
  <2>1. CASE pc = "include_from"
    BY <1>1, <2>1 DEF OptionsOK
  <2>2. CASE pc = "exclude_from"
    BY <1>1, <2>2 DEF OptionsOK
  <2>. QED BY <2>1, <2>2
<1>4. cli[pc][next] \in Seq(Chars)
  BY <1>2, <1>3
<1>5. Exists(cli[pc][next]) => tree[Canonical(cli[pc][next])] \in Seq(TextLines)
  BY <1>1 DEF Exists, TreeOK
<1>. QED BY <1>1, <1>2, <1>3, <1>4, <1>5

\* what SideFile does, in terms of SideLines
LEMMA SideFileIs ==
  ASSUME LInv, SideFile
  PROVE  /\ pc \in {"include_from", "exclude_from"} /\ next <= Len(cli[pc])
         /\ LET path  == cli[pc][next]
                lines == tree[Canonical(path)]
            IN  \/ \E refusal \in Refusals :
                     Fail(refusal) /\ FaultySide(Canonical(path), pc = "include_from", refusal)
                \/ /\ Exists(path) /\ IsText(lines)
                   /\ \A k \in DOMAIN lines : ParseSideLine(lines[k], pc = "include_from") # Invalid
                   /\ rules' = Collected(rules, SideLines(lines, pc = "include_from"))
                   /\ next' = next + 1
                   /\ UNCHANGED <<tree, cli, pc, open, visiting, loaded>>
<1>. DEFINE path == cli[pc][next]
            lines == tree[Canonical(path)]
            parsed == [k \in DOMAIN lines |-> ParseSideLine(lines[k], pc = "include_from")]
<1>1. pc \in {"include_from", "exclude_from"} /\ next <= Len(cli[pc])
  BY DEF SideFile
<1>2. CASE ~Exists(path) \/ Unreadable(path)
  <2>1. NotRead(path)
    BY <1>2 DEF SideFile
  <2>2. \E refusal \in Refusals : Fail(refusal) /\ NoLines(Canonical(path), refusal)
    BY <2>1 DEF NotRead, NoLines, Exists, Unreadable, Refusals
  <2>. QED BY <1>1, <2>2 DEF FaultySide
<1>3. CASE Exists(path) /\ ~Unreadable(path)
  <2>0. IsText(lines)
    BY <1>3 DEF Unreadable
  <2>1. lines \in Seq(TextLines)
    BY <1>1, <1>3, SideFacts
  <2>2. Invalid \in ToSet(parsed) <=>
           \E k \in DOMAIN lines : ParseSideLine(lines[k], pc = "include_from") = Invalid
    <3>1. DOMAIN parsed = DOMAIN lines
      OBVIOUS
    <3>2. \A k \in DOMAIN lines : parsed[k] = ParseSideLine(lines[k], pc = "include_from")
      OBVIOUS
    <3>. HIDE DEF parsed, lines
    <3>. QED BY <3>1, <3>2 DEF ToSet
  <2>3. CASE Invalid \in ToSet(parsed)
    <3>1. Fail("invalid")
      BY <1>3, <2>3 DEF SideFile
    <3>2. FaultySide(Canonical(path), pc = "include_from", "invalid")
      <4>1. PICK k \in DOMAIN lines : ParseSideLine(lines[k], pc = "include_from") = Invalid
        BY <2>2, <2>3
      <4>2. lines[k] \in LinesOf(Canonical(path))
        BY <1>3, <2>0, <4>1 DEF ToSet, LinesOf, Exists
      <4>. QED BY <4>1, <4>2 DEF FaultySide
    <3>3. "invalid" \in Refusals
      BY DEF Refusals
    <3>. QED BY <1>1, <3>1, <3>2, <3>3
  <2>4. CASE Invalid \notin ToSet(parsed)
    <3>1. /\ rules' = Collected(rules, Without(Nothing, parsed))
          /\ next' = next + 1
          /\ UNCHANGED <<tree, cli, pc, open, visiting, loaded>>
      BY <1>3, <2>4 DEF SideFile, inputs
    <3>2. SideLines(lines, pc = "include_from") = Without(Nothing, parsed)
      BY DEF SideLines
    <3>. QED BY <1>1, <1>3, <2>0, <2>2, <2>4, <3>1, <3>2
  <2>. QED BY <2>3, <2>4
<1>. QED BY <1>2, <1>3

LEMMA LSideFile == LInv /\ SideFile => LInv'
<1>. SUFFICES ASSUME LInv, SideFile PROVE LInv'
  OBVIOUS
<1>. DEFINE path == cli[pc][next]
            lines == tree[Canonical(path)]
            include == pc = "include_from"
<1>1. CASE \E refusal \in Refusals : Fail(refusal)
  BY <1>1, LFail
<1>2. CASE ~\E refusal \in Refusals : Fail(refusal)
  <2>1. /\ pc \in {"include_from", "exclude_from"} /\ next <= Len(cli[pc])
        /\ Exists(path)
        /\ \A k \in DOMAIN lines : ParseSideLine(lines[k], include) # Invalid
        /\ rules' = Collected(rules, SideLines(lines, include))
        /\ next' = next + 1
        /\ UNCHANGED <<tree, cli, pc, open, visiting, loaded>>
    BY <1>2, SideFileIs
  <2>2. /\ pc \in ToSet(Sources) /\ open = <<>> /\ next + 1 \in 1 .. Len(cli[pc]) + 1
        /\ lines \in Seq(TextLines) /\ include \in BOOLEAN
    BY <2>1, SideFacts
  <2>3. SideLines(lines, include) \in Seq(Entries)
    <3>. HIDE DEF lines, include
    <3>. QED BY <2>1, <2>2, SideLinesType
  <2>4. rules' \in Seq(RuleSet)
    BY <2>1, <2>3, CollectedType DEF LInv
  <2>. QED BY <2>1, <2>2, <2>4, LAside
<1>. QED BY <1>1, <1>2

LEMMA LRegex == LInv /\ Regex => LInv'
<1>. SUFFICES ASSUME LInv, Regex PROVE LInv'
  OBVIOUS
<1>1. pc \in {"regex_includes", "regex_excludes"} /\ next <= Len(cli[pc])
  BY DEF Regex
<1>2. pc \in ToSet(Sources) /\ open = <<>> /\ OptionsOK(cli)
  BY <1>1, SourceSet, InputsFacts DEF LInv, Refusals
<1>3. next \in 1 .. Len(cli[pc]) /\ next + 1 \in 1 .. Len(cli[pc]) + 1
  BY <1>1, <1>2, NextPiece
<1>4. CASE ~cli[pc][next].compiles
  BY <1>4, LFail DEF Regex, Refusals
<1>5. CASE cli[pc][next].compiles
  <2>1. PICK rule : rule = [syntax |-> "regex", original |-> cli[pc][next].text,
                            include |-> pc = "regex_includes"]
    OBVIOUS
  <2>2. /\ rules' = Append(rules, rule) /\ next' = next + 1
        /\ UNCHANGED <<tree, cli, pc, open, visiting, loaded>>
    BY <1>5, <2>1 DEF Regex, inputs
  <2>3. cli[pc] \in Seq(RegexTexts)
    <3>1. CASE pc = "regex_includes"
      BY <1>2, <3>1 DEF OptionsOK
    <3>2. CASE pc = "regex_excludes"
      BY <1>2, <3>2 DEF OptionsOK
    <3>. QED BY <1>1, <3>1, <3>2
  <2>4. cli[pc][next] \in RegexTexts
    BY <1>3, <2>3
  <2>5. cli[pc][next].text \in Seq(Chars) /\ (pc = "regex_includes") \in BOOLEAN
    BY <2>4 DEF RegexTexts
  <2>6. rule \in RuleSet
    <3>1. PICK text \in Seq(Chars), include \in BOOLEAN :
            text = cli[pc][next].text /\ include = (pc = "regex_includes")
      BY <2>5
    <3>2. rule = [syntax |-> "regex", original |-> text, include |-> include]
      BY <2>1, <3>1
    <3>3. rule \in RegexSet
      BY <3>2 DEF RegexSet
    <3>. QED BY <3>3 DEF RuleSet
  <2>7. rules' \in Seq(RuleSet)
    BY <2>2, <2>6, AppendFacts DEF LInv
  <2>. QED BY <1>2, <1>3, <2>2, <2>7, LAside
<1>. QED BY <1>4, <1>5

LEMMA LSourceDone == LInv /\ SourceDone => LInv'
<1>. SUFFICES ASSUME LInv, SourceDone PROVE LInv'
  OBVIOUS
<1>1. /\ pc \in ToSet(Sources) /\ open = <<>> /\ pc' = NextSource /\ next' = 1
      /\ UNCHANGED <<tree, cli, open, visiting, loaded, rules>>
  BY DEF SourceDone, inputs
<1>2. pc' \in ToSet(Sources) \cup {"done"}
  BY <1>1, NextSourceIs, SourceSet DEF After
<1>3. pc' \in ToSet(Sources) => next' \in 1 .. Len(cli[pc']) + 1
  <2>. SUFFICES ASSUME pc' \in ToSet(Sources) PROVE next' \in 1 .. Len(cli[pc']) + 1
    OBVIOUS
  <2>1. Len(cli[pc']) \in Nat
    BY InputsFacts, SourceLengths DEF LInv
  <2>. QED BY <1>1, <2>1
<1>4. rules' \in Seq(RuleSet)
  BY <1>1 DEF LInv
<1>. QED BY <1>1, <1>2, <1>3, <1>4, LAside

LEMMA LStep == LInv /\ [Next]_vars => LInv'
<1>. SUFFICES ASSUME LInv, [Next]_vars PROVE LInv'
  OBVIOUS
<1>1. CASE OpenFile
  BY <1>1, LOpenFile
<1>2. CASE ReadNothing
  BY <1>2, LReadNothing
<1>3. CASE ReadRule
  BY <1>3, LReadRule
<1>4. CASE ReadMerge
  BY <1>4, LReadMerge
<1>5. CASE ReadRejected
  BY <1>5, LFail DEF ReadRejected, Rejected, Refusals
<1>6. CASE LeaveMerged
  BY <1>6, LLeaveMerged
<1>7. CASE LeaveFile
  BY <1>7, LLeaveFile
<1>8. CASE FilterLine
  BY <1>8, LFilterLine
<1>9. CASE SideFile
  BY <1>9, LSideFile
<1>10. CASE Regex
  BY <1>10, LRegex
<1>11. CASE SourceDone
  BY <1>11, LSourceDone
<1>12. CASE UNCHANGED vars
  <2>1. UNCHANGED <<tree, cli, pc, next, open, visiting, loaded, rules>>
    BY <1>12 DEF vars, inputs
  <2>2. InputsOK'
    BY <2>1 DEF LInv, InputsOK
  <2>. QED BY <2>1, <2>2 DEF LInv
<1>. QED BY <1>1, <1>2, <1>3, <1>4, <1>5, <1>6, <1>7, <1>8, <1>9, <1>10, <1>11, <1>12
       DEF Next, Load, Terminated

LEMMA LAlways == Spec => []LInv
BY LInit, LStep, PTL DEF Spec

(* The files a loader is in the middle of exist and are distinct, they are *)
(* what `visiting' holds, and so there are never more of them than files:  *)
(* every chain of merges ends (load_filter_file_inner).                    *)
THEOREM LoaderTypeCorrect == Spec => []TypeOK
BY LAlways, LTypeOK, PTL

-----------------------------------------------------------------------------
(* The files that are read for a file.                                     *)

IsClosed(S) == \A f \in S : MergedBy(f) \subseteq S

AllFiles(files) == files \cup DOMAIN tree \cup UNION {MergedBy(f) : f \in DOMAIN tree}

LEMMA ReachIs ==
  ASSUME NEW files
  PROVE  \A f : f \in Reach(files) <=>
           /\ f \in AllFiles(files)
           /\ \A S \in SUBSET AllFiles(files) : files \subseteq S /\ IsClosed(S) => f \in S
BY DEF Reach, AllFiles, IsClosed

LEMMA MergedInAll ==
  ASSUME NEW files, NEW f
  PROVE  MergedBy(f) \subseteq AllFiles(files)
<1>1. CASE f \in DOMAIN tree
  BY <1>1, Zenon DEF AllFiles
<1>2. CASE f \notin DOMAIN tree
  BY <1>2, Zenon DEF MergedBy, LinesOf
<1>. QED BY <1>1, <1>2

LEMMA ReachHas ==
  ASSUME NEW files
  PROVE  files \subseteq Reach(files) /\ IsClosed(Reach(files))
<1>1. files \subseteq Reach(files)
  BY ReachIs DEF AllFiles
<1>2. ASSUME NEW f \in Reach(files), NEW g \in MergedBy(f)
      PROVE  g \in Reach(files)
  <2>1. g \in AllFiles(files)
    BY <1>2, MergedInAll
  <2>2. ASSUME NEW S \in SUBSET AllFiles(files), files \subseteq S, IsClosed(S)
        PROVE  g \in S
    <3>1. f \in S
      BY <2>2, ReachIs
    <3>. QED BY <1>2, <2>2, <3>1 DEF IsClosed
  <2>. QED BY <2>1, <2>2, ReachIs
<1>. QED BY <1>1, <1>2 DEF IsClosed

LEMMA ReachLeast ==
  ASSUME NEW files, NEW T, files \subseteq T, IsClosed(T)
  PROVE  Reach(files) \subseteq T
<1>. SUFFICES ASSUME NEW f \in Reach(files) PROVE f \in T
  OBVIOUS
<1>1. PICK S : S = T \cap AllFiles(files)
  OBVIOUS
<1>2. S \in SUBSET AllFiles(files) /\ files \subseteq S
  BY <1>1 DEF AllFiles
<1>3. IsClosed(S)
  BY <1>1, MergedInAll DEF IsClosed
<1>4. f \in S
  BY <1>2, <1>3, ReachIs
<1>. QED BY <1>1, <1>4

\* what is reached from a file is the file or is reached from one that it merges
LEMMA ReachFrom ==
  ASSUME NEW f, NEW g \in Reach({f}), g # f
  PROVE  \E m \in MergedBy(f) : g \in Reach({m})
<1>. DEFINE T == {f} \cup UNION {Reach({m}) : m \in MergedBy(f)}
<1>1. \A m \in MergedBy(f) : m \in Reach({m}) /\ IsClosed(Reach({m}))
  BY ReachHas
<1>2. IsClosed(T)
  <2>. SUFFICES ASSUME NEW h \in T, NEW m \in MergedBy(h) PROVE m \in T
    BY DEF IsClosed
  <2>1. CASE h = f
    BY <1>1, <2>1
  <2>2. CASE \E k \in MergedBy(f) : h \in Reach({k})
    <3>1. PICK k \in MergedBy(f) : h \in Reach({k})
      BY <2>2
    <3>2. m \in Reach({k})
      BY <1>1, <3>1 DEF IsClosed
    <3>. QED BY <3>2
  <2>. QED BY <2>1, <2>2
<1>3. g \in T
  <2>1. {f} \subseteq T
    OBVIOUS
  <2>. HIDE DEF T
  <2>. QED BY <1>2, <2>1, ReachLeast
<1>. QED BY <1>3

\* and what is reached from several files is reached from one of them
LEMMA ReachOfMany ==
  ASSUME NEW files, NEW g \in Reach(files)
  PROVE  \E f \in files : g \in Reach({f})
<1>. DEFINE T == UNION {Reach({f}) : f \in files}
<1>1. \A f \in files : f \in Reach({f}) /\ IsClosed(Reach({f}))
  BY ReachHas
<1>2. IsClosed(T)
  <2>. SUFFICES ASSUME NEW h \in T, NEW m \in MergedBy(h) PROVE m \in T
    BY DEF IsClosed
  <2>1. PICK f \in files : h \in Reach({f})
    OBVIOUS
  <2>2. m \in Reach({f})
    BY <1>1, <2>1 DEF IsClosed
  <2>. QED BY <2>2
<1>3. files \subseteq T
  BY <1>1
<1>4. g \in T
  <2>. HIDE DEF T
  <2>. QED BY <1>2, <1>3, ReachLeast
<1>. QED BY <1>4

\* nothing that is read for the file is faulty
Sound(f) == \A g \in Reach({f}), refusal \in Refusals : ~Faulty(g, refusal)

LEMMA SoundFile ==
  ASSUME NEW f, f \in DOMAIN tree, IsText(tree[f]),
         \A line \in ToSet(tree[f]) : parse_filter_line(line).kind \notin Rejected,
         \A m \in MergedBy(f) : Sound(m)
  PROVE  Sound(f)
<1>1. ASSUME NEW refusal \in Refusals PROVE ~Faulty(f, refusal)
  <2>1. ~NoLines(f, refusal)
    BY DEF NoLines
  <2>2. ~(refusal \in Rejected /\ \E line \in LinesOf(f) : parse_filter_line(line).kind = refusal)
    BY DEF LinesOf
  <2>3. f \notin Reach(MergedBy(f))
    <3>. SUFFICES ASSUME f \in Reach(MergedBy(f)) PROVE FALSE
      OBVIOUS
    <3>1. PICK m \in MergedBy(f) : f \in Reach({m})
      BY ReachOfMany
    <3>2. ~Faulty(f, "recursive")
      BY <3>1 DEF Sound, Refusals
    <3>. QED BY <3>2 DEF Faulty
  <2>. QED BY <2>1, <2>2, <2>3 DEF Faulty
<1>2. ASSUME NEW g \in Reach({f}), g # f PROVE \A refusal \in Refusals : ~Faulty(g, refusal)
  <2>1. PICK m \in MergedBy(f) : g \in Reach({m})
    BY <1>2, ReachFrom
  <2>. QED BY <2>1 DEF Sound
<1>. QED BY <1>1, <1>2 DEF Sound

\* a merge line of a file
LEMMA MergesTarget ==
  ASSUME NEW f, f \in DOMAIN tree, IsText(tree[f]), NEW line, line \in ToSet(tree[f]),
         parse_filter_line(line).kind = "merge"
  PROVE  Target(f, line) \in MergedBy(f)
BY DEF MergedBy, LinesOf

-----------------------------------------------------------------------------
(* The pieces of the options that have been read.                          *)

Roots == {Canonical(path) : path \in ToSet(cli.filter_from)}

IsGood(s, i) ==
  /\ s = "filter_from"  => Sound(Canonical(cli.filter_from[i]))
  /\ s = "filter"       => parse_filter_line(cli.filter[i]).kind \notin {"merge"} \cup Rejected
  /\ s = "include_from" =>
       \A refusal \in Refusals : ~FaultySide(Canonical(cli.include_from[i]), TRUE, refusal)
  /\ s = "exclude_from" =>
       \A refusal \in Refusals : ~FaultySide(Canonical(cli.exclude_from[i]), FALSE, refusal)
  /\ s \in {"regex_includes", "regex_excludes"} => cli[s][i].compiles

\* a piece that is not a filter file and that the options are refused for
IsBad(s, i, refusal) ==
  \/ s = "filter" /\ refusal = "invalid" /\ parse_filter_line(cli.filter[i]).kind = "merge"
  \/ s = "filter" /\ refusal \in Rejected /\ parse_filter_line(cli.filter[i]).kind = refusal
  \/ s = "include_from" /\ FaultySide(Canonical(cli.include_from[i]), TRUE, refusal)
  \/ s = "exclude_from" /\ FaultySide(Canonical(cli.exclude_from[i]), FALSE, refusal)
  \/ s \in {"regex_includes", "regex_excludes"} /\ refusal = "invalid" /\ ~cli[s][i].compiles

Rank(s) == CASE s = "filter_from"    -> 1
             [] s = "filter"         -> 2
             [] s = "include_from"   -> 3
             [] s = "exclude_from"   -> 4
             [] s = "regex_includes" -> 5
             [] s = "regex_excludes" -> 6
             [] OTHER                -> 7

HasParts(c, a, b) ==
  /\ \A i \in DOMAIN a : i \in DOMAIN c /\ c[i] = a[i]
  /\ \A i \in DOMAIN b : Len(a) + i \in DOMAIN c /\ c[Len(a) + i] = b[i]
  /\ \A k \in DOMAIN c :
       \/ k \in DOMAIN a /\ c[k] = a[k]
       \/ k - Len(a) \in DOMAIN b /\ c[k] = b[k - Len(a)]

LEMMA ConcatParts ==
  ASSUME NEW S, NEW a \in Seq(S), NEW b \in Seq(S)
  PROVE  HasParts(a \o b, a, b)
<1>1. PICK n \in Nat, m \in Nat : n = Len(a) /\ m = Len(b) /\ DOMAIN a = 1 .. n /\ DOMAIN b = 1 .. m
  OBVIOUS
<1>2. PICK c : c = a \o b
  OBVIOUS
<1>3. /\ DOMAIN c = 1 .. n + m
      /\ \A i \in 1 .. n : c[i] = a[i]
      /\ \A i \in 1 .. m : c[n + i] = b[i]
  BY <1>1, <1>2
<1>4. /\ \A i \in 1 .. n : i \in 1 .. n + m
      /\ \A i \in 1 .. m : n + i \in 1 .. n + m
  OBVIOUS
<1>5. ASSUME NEW k \in 1 .. n + m
      PROVE  \/ k \in 1 .. n /\ c[k] = a[k]
             \/ k - n \in 1 .. m /\ c[k] = b[k - n]
  <2>1. CASE k \in 1 .. n
    BY <1>3, <2>1
  <2>2. CASE k \notin 1 .. n
    <3>1. k - n \in 1 .. m /\ n + (k - n) = k
      BY <2>2
    <3>. QED BY <1>3, <3>1
  <2>. QED BY <2>1, <2>2
<1>6. \A i \in DOMAIN a : i \in DOMAIN c /\ c[i] = a[i]
  BY <1>1, <1>3, <1>4
<1>7. \A i \in DOMAIN b : Len(a) + i \in DOMAIN c /\ c[Len(a) + i] = b[i]
  BY <1>1, <1>3, <1>4
<1>8. \A k \in DOMAIN c : \/ k \in DOMAIN a /\ c[k] = a[k]
                          \/ k - Len(a) \in DOMAIN b /\ c[k] = b[k - Len(a)]
  BY <1>1, <1>3, <1>5
<1>9. HasParts(c, a, b)
  BY <1>6, <1>7, <1>8 DEF HasParts
<1>. QED BY <1>2, <1>9, Zenon

LEMMA AllGoodNoCause ==
  ASSUME InputsOK, \A s \in ToSet(Sources) : \A i \in 1 .. Len(cli[s]) : IsGood(s, i)
  PROVE  \A refusal \in Refusals : ~Cause(refusal)
<1>1. OptionsOK(cli) /\ \A s \in ToSet(Sources) : Len(cli[s]) \in Nat
  BY InputsFacts, SourceLengths
<1>2. \A file \in Reach(Roots), refusal \in Refusals : ~Faulty(file, refusal)
  <2>. SUFFICES ASSUME NEW g \in Reach(Roots), NEW refusal \in Refusals PROVE ~Faulty(g, refusal)
    OBVIOUS
  <2>1. PICK f \in Roots : g \in Reach({f})
    BY ReachOfMany
  <2>2. PICK i \in DOMAIN cli.filter_from : f = Canonical(cli.filter_from[i])
    BY DEF Roots, ToSet
  <2>3. i \in 1 .. Len(cli.filter_from)
    BY <1>1 DEF OptionsOK
  <2>4. Sound(f)
    BY <2>2, <2>3, SourceSet DEF IsGood
  <2>. QED BY <2>1, <2>4 DEF Sound
<1>3. \A line \in ToSet(cli.filter) : parse_filter_line(line).kind \notin {"merge"} \cup Rejected
  <2>1. \A i \in DOMAIN cli.filter : IsGood("filter", i)
    BY <1>1, SourceSet DEF OptionsOK
  <2>. QED BY <2>1 DEF IsGood, ToSet
<1>4. \A path \in ToSet(cli.include_from), refusal \in Refusals :
        ~FaultySide(Canonical(path), TRUE, refusal)
  <2>1. \A i \in DOMAIN cli.include_from : IsGood("include_from", i)
    BY <1>1, SourceSet DEF OptionsOK
  <2>. QED BY <2>1 DEF IsGood, ToSet
<1>5. \A path \in ToSet(cli.exclude_from), refusal \in Refusals :
        ~FaultySide(Canonical(path), FALSE, refusal)
  <2>1. \A i \in DOMAIN cli.exclude_from : IsGood("exclude_from", i)
    BY <1>1, SourceSet DEF OptionsOK
  <2>. QED BY <2>1 DEF IsGood, ToSet
<1>6. \A regex \in ToSet(cli.regex_includes \o cli.regex_excludes) : regex.compiles
  <2>1. \A i \in DOMAIN cli.regex_includes : cli.regex_includes[i].compiles
    <3>1. \A i \in DOMAIN cli.regex_includes : IsGood("regex_includes", i)
      BY <1>1, SourceSet DEF OptionsOK
    <3>. QED BY <3>1 DEF IsGood
  <2>2. \A i \in DOMAIN cli.regex_excludes : cli.regex_excludes[i].compiles
    <3>1. \A i \in DOMAIN cli.regex_excludes : IsGood("regex_excludes", i)
      BY <1>1, SourceSet DEF OptionsOK
    <3>. QED BY <3>1 DEF IsGood
  <2>3. PICK a, b : /\ a = cli.regex_includes /\ b = cli.regex_excludes
                    /\ a \in Seq(RegexTexts) /\ b \in Seq(RegexTexts)
    BY <1>1 DEF OptionsOK
  <2>4. \A k \in DOMAIN (a \o b) : (a \o b)[k].compiles
    <3>. SUFFICES ASSUME NEW k \in DOMAIN (a \o b) PROVE (a \o b)[k].compiles
      OBVIOUS
    <3>1. \/ k \in DOMAIN a /\ (a \o b)[k] = a[k]
          \/ k - Len(a) \in DOMAIN b /\ (a \o b)[k] = b[k - Len(a)]
      <4>1. HasParts(a \o b, a, b)
        BY <2>3, ConcatParts
      <4>. QED BY <4>1 DEF HasParts
    <3>. QED BY <2>1, <2>2, <2>3, <3>1
  <2>. QED BY <2>3, <2>4 DEF ToSet
<1>. QED BY <1>2, <1>3, <1>4, <1>5, <1>6 DEF Cause, Roots

LEMMA BadIsCause ==
  ASSUME InputsOK, NEW s \in ToSet(Sources), NEW i \in 1 .. Len(cli[s]), NEW refusal,
         IsBad(s, i, refusal)
  PROVE  Cause(refusal)
<1>1. OptionsOK(cli)
  BY InputsFacts
<1>2. CASE s = "filter"
  <2>1. cli.filter[i] \in ToSet(cli.filter)
    BY <1>1, <1>2 DEF OptionsOK, ToSet
  <2>. QED BY <1>2, <2>1 DEF Cause, IsBad
<1>3. CASE s = "include_from"
  <2>1. cli.include_from[i] \in ToSet(cli.include_from)
    BY <1>1, <1>3 DEF OptionsOK, ToSet
  <2>. QED BY <1>3, <2>1 DEF Cause, IsBad
<1>4. CASE s = "exclude_from"
  <2>1. cli.exclude_from[i] \in ToSet(cli.exclude_from)
    BY <1>1, <1>4 DEF OptionsOK, ToSet
  <2>. QED BY <1>4, <2>1 DEF Cause, IsBad
<1>5. CASE s \in {"regex_includes", "regex_excludes"}
  <2>1. PICK a, b : /\ a = cli.regex_includes /\ b = cli.regex_excludes
                    /\ a \in Seq(RegexTexts) /\ b \in Seq(RegexTexts)
    BY <1>1 DEF OptionsOK
  <2>2. \E k \in DOMAIN (a \o b) : (a \o b)[k] = cli[s][i]
    <3>1. CASE s = "regex_includes"
      <4>1. i \in DOMAIN (a \o b) /\ (a \o b)[i] = a[i]
        <5>1. i \in DOMAIN a
          BY <2>1, <3>1
        <5>2. HasParts(a \o b, a, b)
          BY <2>1, ConcatParts
        <5>. QED BY <5>1, <5>2 DEF HasParts
      <4>. QED BY <2>1, <3>1, <4>1
    <3>2. CASE s = "regex_excludes"
      <4>1. Len(a) + i \in DOMAIN (a \o b) /\ (a \o b)[Len(a) + i] = b[i]
        <5>1. i \in DOMAIN b
          BY <2>1, <3>2
        <5>2. HasParts(a \o b, a, b)
          BY <2>1, ConcatParts
        <5>. QED BY <5>1, <5>2 DEF HasParts
      <4>. QED BY <2>1, <3>2, <4>1
    <3>. QED BY <1>5, <3>1, <3>2
  <2>3. cli[s][i] \in ToSet(cli.regex_includes \o cli.regex_excludes)
    BY <2>1, <2>2 DEF ToSet
  <2>4. refusal = "invalid" /\ ~cli[s][i].compiles
    BY <1>5 DEF IsBad
  <2>. QED BY <2>3, <2>4 DEF Cause
<1>. QED BY <1>2, <1>3, <1>4, <1>5 DEF IsBad

-----------------------------------------------------------------------------
(* Nothing read so far is faulty.                                          *)

\* a line of the file that has been read, with what it merges
LineGood(f, line) ==
  /\ parse_filter_line(line).kind \notin Rejected
  /\ parse_filter_line(line).kind = "merge" => Sound(Target(f, line))

\* the lines above those that are read now
FramesGood(frames) ==
  \A k \in 1 .. Len(frames) : \A l \in 1 .. frames[k].line - 1 :
    (k < Len(frames) => l < frames[k].line - 1) => LineGood(File(frames, k), LineAt(tree, frames, k, l))

PiecesGood ==
  \A s \in ToSet(Sources) : \A i \in 1 .. Len(cli[s]) :
    (Rank(s) < Rank(pc) \/ (s = pc /\ i < next)) => IsGood(s, i)

CInv ==
  /\ LInv
  /\ pc \in Refusals => Cause(pc)
  /\ pc \notin Refusals => PiecesGood /\ FramesGood(open)

LEMMA SameMergedBy == tree' = tree => \A f : MergedBy(f)' = MergedBy(f)
<1>. SUFFICES ASSUME tree' = tree, NEW f PROVE MergedBy(f)' = MergedBy(f)
  BY Zenon
<1>. QED BY DEF MergedBy, LinesOf

LEMMA SameReach == tree' = tree => \A files : Reach(files)' = Reach(files)
<1>. SUFFICES ASSUME tree' = tree, NEW files PROVE Reach(files)' = Reach(files)
  BY Zenon
<1>. QED BY SameMergedBy DEF Reach

LEMMA SameLines ==
  tree' = tree => \A f, refusal : LinesOf(f)' = LinesOf(f) /\ (NoLines(f, refusal)' <=> NoLines(f, refusal))
BY DEF LinesOf, NoLines

LEMMA SameFaulty == tree' = tree => \A f, refusal : Faulty(f, refusal)' <=> Faulty(f, refusal)
<1>. SUFFICES ASSUME tree' = tree, NEW f, NEW refusal PROVE Faulty(f, refusal)' <=> Faulty(f, refusal)
  BY Zenon
<1>1. MergedBy(f)' = MergedBy(f)
  BY SameMergedBy
<1>2. Reach(MergedBy(f))' = Reach(MergedBy(f))
  BY <1>1, SameReach, Zenon
<1>. QED BY <1>2, SameLines, Zenon DEF Faulty

LEMMA SameSound == tree' = tree => \A f : Sound(f)' <=> Sound(f)
<1>. SUFFICES ASSUME tree' = tree, NEW f PROVE Sound(f)' <=> Sound(f)
  BY Zenon
<1>. QED BY SameReach, SameFaulty, Zenon DEF Sound

LEMMA SameInputs ==
  ASSUME tree' = tree, cli' = cli
  PROVE  /\ \A refusal : Cause(refusal)' <=> Cause(refusal)
         /\ \A s, i : IsGood(s, i)' <=> IsGood(s, i)
         /\ \A f, line : LineGood(f, line)' <=> LineGood(f, line)
<1>1. \A f, include, refusal : FaultySide(f, include, refusal)' <=> FaultySide(f, include, refusal)
  BY SameLines, Zenon DEF FaultySide
<1>2. \A s, i : IsGood(s, i)' <=> IsGood(s, i)
  BY SameSound, <1>1, Zenon DEF IsGood
<1>3. \A f, line : LineGood(f, line)' <=> LineGood(f, line)
  BY SameSound, Zenon DEF LineGood
<1>4. \A refusal : Cause(refusal)' <=> Cause(refusal)
  BY SameReach, SameFaulty, <1>1, Zenon DEF Cause
<1>. QED BY <1>2, <1>3, <1>4

\* the file of a frame merges that of the next
LEMMA MergesInto ==
  ASSUME LInv, TreeOK(tree), FramesOK(tree, open), NEW k \in 1 .. Len(open) - 1
  PROVE  File(open, k + 1) \in MergedBy(File(open, k))
<1>1. MergesNext(tree, open, k) /\ k \in 1 .. Len(open)
  <2>1. Len(open) \in Nat
    BY DEF FramesOK
  <2>. QED BY <2>1 DEF FramesOK
<1>2. /\ File(open, k) \in DOMAIN tree /\ open[k].line \in 1 .. Len(tree[File(open, k)]) + 1
      /\ Len(tree[File(open, k)]) \in Nat /\ tree[File(open, k)] \in Seq(TextLines)
  BY <1>1, FrameTypes DEF FramesOK
<1>3. PICK line : line = LineAt(tree, open, k, open[k].line - 1)
  OBVIOUS
<1>4. open[k].line - 1 \in 1 .. Len(tree[File(open, k)])
  BY <1>1, <1>2 DEF MergesNext
<1>5. line \in ToSet(tree[File(open, k)])
  BY <1>2, <1>3, <1>4 DEF LineAt, ToSet
<1>6. IsText(tree[File(open, k)])
  BY <1>1 DEF LInv, Files
<1>. QED BY <1>1, <1>2, <1>3, <1>5, <1>6, MergesTarget DEF MergesNext

\* the files being read are read for a file of the options
LEMMA OpenReached ==
  ASSUME LInv, Reading
  PROVE  \A k \in 1 .. Len(open) : File(open, k) \in Reach(Roots)
<1>1. /\ FramesOK(tree, open) /\ TreeOK(tree) /\ OptionsOK(cli) /\ Len(open) \in Nat \ {0}
      /\ next \in 1 .. Len(cli.filter_from) /\ open[1].path = cli.filter_from[next]
  BY ReadingFacts DEF LInv, Reading
<1>2. PICK n \in Nat : Len(open) = n + 1
  <2>1. Len(open) - 1 \in Nat /\ Len(open) = (Len(open) - 1) + 1
    BY <1>1
  <2>. QED BY <2>1
<1>3. Roots \subseteq Reach(Roots) /\ IsClosed(Reach(Roots))
  BY ReachHas
<1>. DEFINE G == {k \in Nat : n < k \/ File(open, k + 1) \in Reach(Roots)}
<1>4. 0 \in G
  <2>1. cli.filter_from[next] \in ToSet(cli.filter_from)
    BY <1>1 DEF ToSet, OptionsOK
  <2>2. File(open, 1) \in Roots
    BY <1>1, <2>1 DEF Roots, File
  <2>. QED BY <1>3, <2>2
<1>5. ASSUME NEW k \in G, k \in Nat, k < n PROVE k + 1 \in G
  <2>1. File(open, k + 1) \in Reach(Roots) /\ k + 1 \in 1 .. Len(open) - 1
    BY <1>2, <1>5
  <2>2. File(open, (k + 1) + 1) \in MergedBy(File(open, k + 1))
    BY <1>1, <2>1, MergesInto
  <2>3. File(open, (k + 1) + 1) \in Reach(Roots)
    BY <1>3, <2>1, <2>2 DEF IsClosed
  <2>4. k + 1 \in Nat
    BY <1>5
  <2>. QED BY <2>3, <2>4
<1>6. \A k \in 0 .. n : k \in G
  <2>. HIDE DEF G
  <2>. QED BY <1>4, <1>5, BoundedInduction
<1>. SUFFICES ASSUME NEW k \in 1 .. Len(open) PROVE File(open, k) \in Reach(Roots)
  OBVIOUS
<1>7. k - 1 \in 0 .. n /\ (k - 1) + 1 = k
  BY <1>2
<1>8. File(open, (k - 1) + 1) \in Reach(Roots)
  BY <1>6, <1>7
<1>. QED BY <1>7, <1>8

\* a file that is being read is read again for what the innermost one merges
LEMMA MergedAgain ==
  ASSUME LInv, Reading, NEW j \in 1 .. Len(open), File(open, j) \in MergedBy(File(open, Len(open)))
  PROVE  File(open, j) \in Reach(MergedBy(File(open, j)))
<1>1. /\ FramesOK(tree, open) /\ TreeOK(tree) /\ Len(open) \in Nat \ {0}
  BY ReadingFacts DEF LInv
<1>2. PICK R : R = Reach(MergedBy(File(open, j)))
  OBVIOUS
<1>9. PICK n \in Nat : n = Len(open)
  BY <1>1
<1>3. MergedBy(File(open, j)) \subseteq R /\ IsClosed(R)
  BY <1>2, ReachHas
<1>. DEFINE G == {k \in Nat : n <= j + k \/ File(open, (j + k) + 1) \in R}
<1>4. ASSUME j < n PROVE 0 \in G
  <2>1. j \in 1 .. Len(open) - 1 /\ (j + 0) + 1 = j + 1
    BY <1>2, <1>9, <1>4
  <2>2. File(open, j + 1) \in MergedBy(File(open, j))
    BY <1>1, <2>1, MergesInto
  <2>. QED BY <1>3, <2>1, <2>2
<1>5. ASSUME NEW k \in G, k \in Nat PROVE k + 1 \in G
  <2>1. CASE n <= j + k + 1
    BY <2>1
  <2>2. CASE ~(n <= j + k + 1)
    <3>1. j + k + 1 \in 1 .. Len(open) - 1 /\ (j + k) + 1 = j + k + 1 /\ (j + (k + 1)) + 1 = (j + k + 1) + 1
      BY <1>2, <1>9, <2>2
    <3>2. File(open, j + k + 1) \in R
      BY <1>2, <1>9, <1>5, <2>2
    <3>3. File(open, (j + k + 1) + 1) \in MergedBy(File(open, j + k + 1))
      BY <1>1, <3>1, MergesInto
    <3>4. File(open, (j + (k + 1)) + 1) \in R
      BY <1>3, <3>1, <3>2, <3>3 DEF IsClosed
    <3>. QED BY <1>5, <3>4
  <2>. QED BY <2>1, <2>2
<1>6. CASE j = n
  BY <1>2, <1>9, <1>3, <1>6
<1>7. CASE j < n
  <2>1. G = Nat
    <3>1. G \subseteq Nat
      OBVIOUS
    <3>2. \A k \in G : k + 1 \in G
      BY <1>5
    <3>3. 0 \in G
      BY <1>4, <1>7
    <3>. HIDE DEF G
    <3>. QED BY <3>1, <3>2, <3>3, SetInduction
  <2>2. n - j - 1 \in G /\ (j + (n - j - 1)) + 1 = n /\ ~(n <= j + (n - j - 1))
    <3>1. j \in Nat /\ n \in Nat
      BY <1>2, <1>9
    <3>2. n - j - 1 \in Nat /\ (j + (n - j - 1)) + 1 = n /\ ~(n <= j + (n - j - 1))
      BY <1>7, <3>1
    <3>. HIDE DEF G
    <3>. QED BY <2>1, <3>2
  <2>3. File(open, n) \in R
    <3>1. File(open, (j + (n - j - 1)) + 1) \in R
      BY <2>2
    <3>. QED BY <2>2, <3>1
  <2>4. File(open, j) \in MergedBy(File(open, n))
    BY <1>2, <1>9
  <2>. QED BY <1>2, <1>9, <1>3, <2>3, <2>4 DEF IsClosed
<1>. QED BY <1>2, <1>9, <1>6, <1>7

LEMMA PiecesKept ==
  ASSUME PiecesGood, UNCHANGED <<tree, cli, pc, next>>
  PROVE  PiecesGood'
BY SameInputs DEF PiecesGood

LEMMA PiecesOneOn ==
  ASSUME LInv, PiecesGood, pc \in ToSet(Sources), IsGood(pc, next),
         UNCHANGED <<tree, cli, pc>>, next' = next + 1
  PROVE  PiecesGood'
<1>1. next \in Nat
  <2>1. Len(cli[pc]) \in Nat
    BY InputsFacts, SourceLengths DEF LInv
  <2>. QED BY <2>1 DEF LInv
<1>2. ASSUME NEW s \in ToSet(Sources), NEW i \in 1 .. Len(cli[s]),
             Rank(s) < Rank(pc) \/ (s = pc /\ i < next + 1)
      PROVE  IsGood(s, i)
  <2>1. CASE Rank(s) < Rank(pc)
    BY <2>1, Zenon DEF PiecesGood
  <2>2. CASE s = pc /\ i < next
    BY <2>2 DEF PiecesGood
  <2>3. CASE s = pc /\ i = next
    BY <2>3
  <2>4. i \in Nat
    OBVIOUS
  <2>. QED BY <1>1, <1>2, <2>1, <2>2, <2>3, <2>4
<1>. QED BY <1>2, SameInputs DEF PiecesGood

LEMMA PiecesSourceDone ==
  ASSUME LInv, PiecesGood, pc \in ToSet(Sources), next > Len(cli[pc]),
         UNCHANGED <<tree, cli>>, pc' = After(pc), next' = 1
  PROVE  PiecesGood'
<1>1. next \in Nat /\ Len(cli[pc]) \in Nat
  <2>1. Len(cli[pc]) \in Nat
    BY InputsFacts, SourceLengths DEF LInv
  <2>. QED BY <2>1 DEF LInv
<1>2. Rank(After(pc)) = Rank(pc) + 1 /\ \A s \in ToSet(Sources) : Rank(s) = Rank(pc) => s = pc
  BY SourceSet DEF Rank, After
<1>3. \A s \in ToSet(Sources) \cup {"done"} : Rank(s) \in Nat
  BY SourceSet DEF Rank
<1>4. ASSUME NEW s \in ToSet(Sources), NEW i \in 1 .. Len(cli[s]),
             Rank(s) < Rank(After(pc)) \/ (s = After(pc) /\ i < 1)
      PROVE  IsGood(s, i)
  <2>1. ~(i < 1) /\ i \in Nat
    OBVIOUS
  <2>2. Rank(s) < Rank(pc) + 1
    BY <1>2, <1>4, <2>1
  <2>3. CASE Rank(s) < Rank(pc)
    BY <2>3, Zenon DEF PiecesGood
  <2>4. CASE Rank(s) = Rank(pc)
    <3>1. s = pc
      BY <1>2, <2>4
    <3>2. i < next
      BY <1>1, <3>1
    <3>. QED BY <3>1, <3>2 DEF PiecesGood
  <2>. QED BY <1>3, <2>2, <2>3, <2>4
<1>. QED BY <1>4, SameInputs DEF PiecesGood

LEMMA FramesGoodNext ==
  ASSUME tree' = tree, cli' = cli, NEW s, s = open', FramesGood(s)
  PROVE  FramesGood(open)'
<1>1. \A k \in 1 .. Len(s) : \A l \in 1 .. s[k].line - 1 :
        (k < Len(s) => l < s[k].line - 1) => LineGood(File(s, k), LineAt(tree, s, k, l))'
  BY SameInputs DEF FramesGood, LineAt, File
<1>. QED BY <1>1 DEF FramesGood, LineAt, File

LEMMA CFail ==
  ASSUME CInv, NEW refusal \in Refusals, Cause(refusal), Fail(refusal)
  PROVE  CInv'
<1>1. LInv' /\ tree' = tree /\ cli' = cli /\ pc' = refusal
  BY LFail DEF CInv, Fail, inputs
<1>2. \A r : Cause(r)' <=> Cause(r)
  BY <1>1, SameInputs
<1>3. Cause(pc)'
  <2>1. Cause(refusal)'
    BY <1>2
  <2>. QED BY <1>1, <2>1 DEF Cause
<1>. QED BY <1>1, <1>3 DEF CInv

\* a file of the options, or one that a file of them merges, that is not read
LEMMA CRefuse ==
  ASSUME CInv, NEW path, Refuse(path), Canonical(path) \in Reach(Roots),
         Canonical(path) \in visiting => Canonical(path) \in Reach(MergedBy(Canonical(path)))
  PROVE  CInv'
<1>1. \E refusal \in Refusals : Fail(refusal) /\ Faulty(Canonical(path), refusal)
  <2>1. CASE Canonical(path) \in visiting
    <3>1. Fail("recursive") /\ "recursive" \in Refusals
      BY <2>1 DEF Refuse, Refusals
    <3>. QED BY <2>1, <3>1 DEF Faulty
  <2>2. CASE Canonical(path) \notin visiting
    BY <2>2 DEF Refuse, NotRead, Faulty, NoLines, Exists, Unreadable, Refusals
  <2>. QED BY <2>1, <2>2
<1>2. PICK refusal \in Refusals : Fail(refusal) /\ Faulty(Canonical(path), refusal)
  BY <1>1
<1>3. Cause(refusal)
  BY <1>2 DEF Cause, Roots
<1>. QED BY <1>2, <1>3, CFail

LEMMA COpenFile == CInv /\ OpenFile => CInv'
<1>. SUFFICES ASSUME CInv, OpenFile PROVE CInv'
  OBVIOUS
<1>1. /\ LInv /\ LInv' /\ pc = "filter_from" /\ open = <<>> /\ next <= Len(cli.filter_from)
      /\ PiecesGood
  BY LOpenFile DEF CInv, OpenFile, Refusals
<1>2. PICK path : path = cli.filter_from[next]
  OBVIOUS
<1>3. CASE Refused(path)
  <2>1. Refuse(path)
    BY <1>2, <1>3 DEF OpenFile
  <2>2. visiting = {}
    BY <1>1, NoFrames DEF LInv
  <2>3. path \in ToSet(cli.filter_from)
    <3>1. cli.filter_from \in Seq(Seq(Chars))
      BY <1>1, InputsFacts DEF LInv, OptionsOK
    <3>2. next \in 1 .. Len(cli.filter_from)
      BY <1>1, <3>1, SourceSet DEF LInv
    <3>. QED BY <1>2, <3>1, <3>2 DEF ToSet
  <2>4. Canonical(path) \in Reach(Roots)
    BY <2>3, ReachHas DEF Roots
  <2>. QED BY <2>1, <2>2, <2>4, CRefuse
<1>4. CASE ~Refused(path)
  <2>1. /\ open' = Append(<<>>, [path |-> path, line |-> 1])
        /\ UNCHANGED <<tree, cli, pc, next>>
    BY <1>2, <1>4 DEF OpenFile, Enter, inputs
  <2>2. PICK s : s = open'
    OBVIOUS
  <2>3. Len(s) = 1 /\ s[1].line = 1
    <3>1. s = <<[path |-> path, line |-> 1]>>
      BY <2>1, <2>2
    <3>. QED BY <3>1
  <2>4. FramesGood(s)
    BY <2>3 DEF FramesGood
  <2>5. FramesGood(open)'
    BY <2>1, <2>2, <2>4, FramesGoodNext
  <2>6. PiecesGood'
    BY <1>1, <2>1, PiecesKept
  <2>7. pc' \notin Refusals
    BY <1>1, <2>1 DEF Refusals
  <2>. QED BY <1>1, <2>5, <2>6, <2>7 DEF CInv
<1>. QED BY <1>3, <1>4

LEMMA SteppedGood ==
  ASSUME CInv, AtLine, LineGood(File(open, Len(open)), LineAt(tree, open, Len(open), Frame.line))
  PROVE  FramesGood(Stepped)
<1>1. LInv /\ Reading /\ FramesGood(open)
  BY DEF CInv, AtLine, Reading, Refusals
<1>2. /\ TreeOK(tree) /\ FramesOK(tree, open) /\ Frame = open[Len(open)] /\ Frame.line \in Nat \ {0}
      /\ Len(open) \in Nat
  BY <1>1, ReadingFacts DEF LInv
<1>3. PICK s, n : s = Stepped /\ n = Len(open) /\ n \in Nat
  BY <1>2
<1>4. /\ Len(s) = n
      /\ \A k \in 1 .. n : /\ File(s, k) = File(open, k)
                           /\ s[k].line = IF k = n THEN open[k].line + 1 ELSE open[k].line
  BY <1>1, <1>3, SteppedOK
<1>5. \A k \in 1 .. n : open[k].line \in Nat
  BY <1>2, <1>3, FrameTypes
<1>6. ASSUME NEW k \in 1 .. n, NEW l \in 1 .. s[k].line - 1, k < n => l < s[k].line - 1
      PROVE  LineGood(File(s, k), LineAt(tree, s, k, l))
  <2>1. LineAt(tree, s, k, l) = LineAt(tree, open, k, l) /\ File(s, k) = File(open, k)
    BY <1>4 DEF LineAt
  <2>2. CASE k = n /\ l = Frame.line
    BY <1>3, <2>1, <2>2
  <2>3. CASE k = n /\ l # Frame.line
    <3>1. l \in 1 .. open[k].line - 1 /\ ~(k < Len(open))
      BY <1>2, <1>3, <1>4, <1>5, <2>3
    <3>2. LineGood(File(open, k), LineAt(tree, open, k, l))
      BY <1>1, <1>3, <3>1 DEF FramesGood
    <3>. QED BY <2>1, <3>2
  <2>4. CASE k # n
    <3>1. l \in 1 .. open[k].line - 1 /\ l < open[k].line - 1
      BY <1>3, <1>4, <1>5, <1>6, <2>4
    <3>2. LineGood(File(open, k), LineAt(tree, open, k, l))
      BY <1>1, <1>3, <3>1 DEF FramesGood
    <3>. QED BY <2>1, <3>2
  <2>. QED BY <2>2, <2>3, <2>4
<1>7. FramesGood(s)
  BY <1>4, <1>6 DEF FramesGood
<1>. QED BY <1>3, <1>7

LEMMA CReadOn == CInv /\ (ReadNothing \/ ReadRule) => CInv'
<1>. SUFFICES ASSUME CInv, ReadNothing \/ ReadRule PROVE CInv'
  OBVIOUS
<1>1. LInv /\ LInv' /\ AtLine /\ Reading /\ pc \notin Refusals /\ PiecesGood
  BY LReadNothing, LReadRule DEF CInv, ReadNothing, ReadRule, AtLine, Reading, Refusals
<1>2. /\ open' = Stepped /\ UNCHANGED <<tree, cli, pc, next>>
      /\ Parsed.kind \in {"none", "rule", "clear"}
  BY DEF ReadNothing, ReadRule, inputs
<1>3. PICK line : line = LineAt(tree, open, Len(open), Frame.line)
  OBVIOUS
<1>4. Parsed = parse_filter_line(line)
  BY <1>1, <1>3, AtLineFacts
<1>5. LineGood(File(open, Len(open)), line)
  <2>1. parse_filter_line(line).kind \in {"none", "rule", "clear"}
    BY <1>2, <1>4
  <2>2. parse_filter_line(line).kind \notin Rejected
    BY <2>1 DEF Rejected
  <2>. QED BY <2>1, <2>2 DEF LineGood
<1>6. FramesGood(Stepped)
  BY <1>1, <1>3, <1>5, SteppedGood
<1>7. PICK s : s = open' /\ FramesGood(s)
  BY <1>2, <1>6
<1>8. FramesGood(open)'
  BY <1>2, <1>7, FramesGoodNext
<1>9. PiecesGood'
  BY <1>1, <1>2, PiecesKept
<1>. QED BY <1>1, <1>2, <1>8, <1>9 DEF CInv

LEMMA CReadMerge == CInv /\ ReadMerge => CInv'
<1>. SUFFICES ASSUME CInv, ReadMerge PROVE CInv'
  OBVIOUS
<1>1. LInv /\ LInv' /\ AtLine /\ Reading /\ pc \notin Refusals /\ PiecesGood /\ FramesGood(open)
  BY LReadMerge DEF CInv, ReadMerge, AtLine, Reading, Refusals
<1>2. PICK path : path = Joined(Frame.path, Parsed.path)
  OBVIOUS
<1>3. PICK n \in Nat \ {0} : n = Len(open)
  BY <1>1, ReadingFacts
<1>4. PICK line : line = LineAt(tree, open, n, Frame.line)
  OBVIOUS
<1>5. /\ Parsed = parse_filter_line(line) /\ Parsed.kind = "merge"
      /\ Canonical(path) = Target(File(open, n), line)
      /\ Frame.line \in 1 .. Len(Lines) /\ Lines \in Seq(TextLines)
      /\ Lines = tree[File(open, n)] /\ File(open, n) \in DOMAIN tree
      /\ Frame = open[n]
  BY <1>1, <1>2, <1>3, <1>4, AtLineFacts, ReadingFacts DEF ReadMerge
<1>6. CASE Refused(path)
  <2>1. Refuse(path)
    BY <1>2, <1>6 DEF ReadMerge
  <2>2. line \in ToSet(tree[File(open, n)]) /\ IsText(tree[File(open, n)])
    <3>1. line \in ToSet(tree[File(open, n)])
      BY <1>4, <1>5 DEF LineAt, ToSet
    <3>2. File(open, n) \in visiting
      <4>1. n \in 1 .. Len(open)
        BY <1>3
      <4>. QED BY <1>1, <4>1 DEF LInv, Files
    <3>3. IsText(tree[File(open, n)])
      BY <1>1, <3>2 DEF LInv
    <3>. QED BY <3>1, <3>3
  <2>3. Canonical(path) \in MergedBy(File(open, n))
    BY <1>5, <2>2, MergesTarget
  <2>4. File(open, n) \in Reach(Roots) /\ Canonical(path) \in Reach(Roots)
    <3>1. File(open, n) \in Reach(Roots)
      BY <1>1, <1>3, OpenReached
    <3>. QED BY <2>3, <3>1, ReachHas DEF IsClosed
  <2>5. ASSUME Canonical(path) \in visiting
        PROVE  Canonical(path) \in Reach(MergedBy(Canonical(path)))
    <3>1. PICK j \in 1 .. Len(open) : Canonical(path) = File(open, j)
      BY <1>1, <2>5 DEF LInv, Files
    <3>2. File(open, j) \in MergedBy(File(open, Len(open)))
      BY <1>3, <2>3, <3>1
    <3>3. File(open, j) \in Reach(MergedBy(File(open, j)))
      BY <1>1, <3>2, MergedAgain
    <3>. QED BY <3>1, <3>3
  <2>. QED BY <2>1, <2>4, <2>5, CRefuse
<1>7. CASE ~Refused(path)
  <2>1. PICK s : s = Append(Stepped, Begun(path))
    OBVIOUS
  <2>2. /\ Len(s) = n + 1 /\ open' = s
        /\ UNCHANGED <<tree, cli, pc, next>>
        /\ \A k \in 1 .. n :
             /\ File(s, k) = File(open, k)
             /\ s[k].line = IF k = n THEN open[k].line + 1 ELSE open[k].line
        /\ s[n + 1].line = 1
    BY <1>1, <1>2, <1>3, <1>7, <2>1, MergedOK
  <2>3. \A k \in 1 .. n : open[k].line \in Nat
    BY <1>1, <1>3, InputsFacts, FrameTypes DEF LInv
  <2>4. ASSUME NEW k \in 1 .. n + 1, NEW l \in 1 .. s[k].line - 1, k < n + 1 => l < s[k].line - 1
        PROVE  LineGood(File(s, k), LineAt(tree, s, k, l))
    <3>1. k # n + 1
      BY <2>2, <2>4
    <3>2. k \in 1 .. n
      BY <3>1
    <3>3. l < s[k].line - 1
      BY <2>4, <3>2
    <3>4. LineAt(tree, s, k, l) = LineAt(tree, open, k, l) /\ File(s, k) = File(open, k)
      BY <2>2, <3>2 DEF LineAt
    <3>5. l \in 1 .. open[k].line - 1 /\ (k < n => l < open[k].line - 1)
      BY <2>2, <2>3, <3>2, <3>3
    <3>6. LineGood(File(open, k), LineAt(tree, open, k, l))
      BY <1>1, <1>3, <3>2, <3>5 DEF FramesGood
    <3>. QED BY <3>4, <3>6
  <2>5. FramesGood(s)
    BY <2>2, <2>4 DEF FramesGood
  <2>6. FramesGood(open)'
    BY <2>2, <2>5, FramesGoodNext
  <2>7. PiecesGood'
    BY <1>1, <2>2, PiecesKept
  <2>. QED BY <1>1, <2>2, <2>6, <2>7 DEF CInv
<1>. QED BY <1>6, <1>7

LEMMA CReadRejected == CInv /\ ReadRejected => CInv'
<1>. SUFFICES ASSUME CInv, ReadRejected PROVE CInv'
  OBVIOUS
<1>1. LInv /\ AtLine /\ Reading /\ Fail(Parsed.kind) /\ Parsed.kind \in Rejected
  BY DEF CInv, ReadRejected, AtLine
<1>2. PICK n \in Nat \ {0} : n = Len(open)
  BY <1>1, ReadingFacts
<1>3. PICK line : line = LineAt(tree, open, n, Frame.line)
  OBVIOUS
<1>4. /\ Parsed = parse_filter_line(line)
      /\ Frame.line \in 1 .. Len(Lines) /\ Lines \in Seq(TextLines)
      /\ Lines = tree[File(open, n)] /\ File(open, n) \in DOMAIN tree
  BY <1>1, <1>2, <1>3, AtLineFacts, ReadingFacts
<1>5. line \in LinesOf(File(open, n))
  <2>1. line \in ToSet(tree[File(open, n)])
    BY <1>3, <1>4 DEF LineAt, ToSet
  <2>2. n \in 1 .. Len(open)
    BY <1>2
  <2>3. IsText(tree[File(open, n)])
    BY <1>1, <2>2 DEF LInv, Files
  <2>. QED BY <1>4, <2>1, <2>3 DEF LinesOf
<1>6. File(open, n) \in Reach(Roots)
  BY <1>1, <1>2, OpenReached
<1>7. Faulty(File(open, n), Parsed.kind)
  BY <1>1, <1>4, <1>5 DEF Faulty
<1>8. Cause(Parsed.kind) /\ Parsed.kind \in Refusals
  BY <1>1, <1>6, <1>7 DEF Cause, Roots, Rejected, Refusals
<1>. QED BY <1>1, <1>8, CFail

\* a file that has been read to its end is sound
LEMMA TopSound ==
  ASSUME CInv, AtEnd
  PROVE  Sound(File(open, Len(open)))
<1>1. LInv /\ Reading /\ FramesGood(open) /\ Frame.line > Len(Lines)
  BY DEF CInv, AtEnd, Reading, Refusals
<1>2. PICK n \in Nat \ {0} : n = Len(open)
  BY <1>1, ReadingFacts
<1>3. PICK f : f = File(open, n)
  OBVIOUS
<1>4. /\ f \in DOMAIN tree /\ Lines = tree[f] /\ tree[f] \in Seq(TextLines)
      /\ Frame = open[n] /\ Frame.line \in Nat \ {0} /\ n \in 1 .. n
  BY <1>1, <1>2, <1>3, ReadingFacts
<1>5. ASSUME NEW line \in ToSet(tree[f]) PROVE LineGood(f, line)
  <2>1. PICK l \in 1 .. Len(tree[f]) : line = tree[f][l]
    BY <1>4 DEF ToSet
  <2>2. Len(tree[f]) \in Nat
    BY <1>4
  <2>3. l \in 1 .. open[n].line - 1 /\ ~(n < n)
    BY <1>1, <1>4, <2>2
  <2>4. LineGood(File(open, n), LineAt(tree, open, n, l))
    BY <1>1, <1>2, <1>4, <2>3 DEF FramesGood
  <2>. QED BY <1>3, <2>1, <2>4 DEF LineAt
<1>6. /\ \A line \in ToSet(tree[f]) : parse_filter_line(line).kind \notin Rejected
      /\ IsText(tree[f])
  BY <1>1, <1>2, <1>3, <1>4, <1>5 DEF LineGood, LInv, Files
<1>7. ASSUME NEW m \in MergedBy(f) PROVE Sound(m)
  <2>1. PICK line \in ToSet(tree[f]) : parse_filter_line(line).kind = "merge" /\ m = Target(f, line)
    BY <1>4 DEF MergedBy, LinesOf
  <2>. QED BY <1>5, <2>1 DEF LineGood
<1>8. Sound(f)
  BY <1>4, <1>6, <1>7, SoundFile
<1>. QED BY <1>2, <1>3, <1>8

LEMMA CLeaveMerged == CInv /\ LeaveMerged => CInv'
<1>. SUFFICES ASSUME CInv, LeaveMerged PROVE CInv'
  OBVIOUS
<1>1. /\ LInv /\ LInv' /\ AtEnd /\ Reading /\ pc \notin Refusals /\ PiecesGood /\ FramesGood(open)
      /\ Len(open) > 1 /\ open' = Front(open)
      /\ UNCHANGED <<tree, cli, pc, next>>
  BY LLeaveMerged DEF CInv, LeaveMerged, AtEnd, Reading, Refusals, inputs
<1>2. /\ TreeOK(tree) /\ FramesOK(tree, open) /\ open # <<>>
  BY <1>1, ReadingFacts DEF LInv
<1>3. PICK n \in Nat \ {0} : Len(open) = n + 1
  <2>1. Len(open) \in Nat
    BY <1>2 DEF FramesOK
  <2>2. PICK m \in Nat : m = Len(open)
    BY <2>1
  <2>3. m > 1
    BY <1>1, <2>2
  <2>4. m - 1 \in Nat \ {0} /\ m = (m - 1) + 1
    BY <2>3
  <2>. QED BY <2>2, <2>4
<1>4. PICK s : s = Front(open)
  OBVIOUS
<1>5. Len(s) = n /\ \A k \in 1 .. n : s[k] = open[k] /\ File(s, k) = File(open, k)
  <2>1. Len(s) = Len(open) - 1 /\ \A k \in 1 .. Len(s) : s[k] = open[k] /\ File(s, k) = File(open, k)
    BY <1>2, <1>4, FramesLeave
  <2>2. Len(s) = n
    BY <1>3, <2>1
  <2>. QED BY <2>1, <2>2
<1>6. ASSUME NEW k \in 1 .. n, NEW l \in 1 .. s[k].line - 1, k < n => l < s[k].line - 1
      PROVE  LineGood(File(s, k), LineAt(tree, s, k, l))
  <2>1. k \in 1 .. Len(open) /\ k < Len(open)
    BY <1>3
  <2>2. LineAt(tree, s, k, l) = LineAt(tree, open, k, l) /\ File(s, k) = File(open, k)
        /\ s[k].line = open[k].line
    BY <1>5 DEF LineAt
  <2>3. CASE l < open[k].line - 1
    <3>1. LineGood(File(open, k), LineAt(tree, open, k, l))
      BY <1>1, <2>1, <2>2, <2>3 DEF FramesGood
    <3>. QED BY <2>2, <3>1
  <2>4. CASE ~(l < open[k].line - 1)
    <3>1. open[k].line \in Nat
      BY <1>2, <2>1, FrameTypes
    <3>2. k = n /\ l = open[k].line - 1
      BY <1>6, <2>2, <2>4, <3>1
    <3>3. MergesNext(tree, open, k)
      <4>1. k \in 1 .. Len(open) - 1
        BY <1>3
      <4>. QED BY <1>2, <4>1 DEF FramesOK
    <3>4. /\ parse_filter_line(LineAt(tree, open, k, l)).kind = "merge"
          /\ Target(File(open, k), LineAt(tree, open, k, l)) = File(open, n + 1)
      BY <3>2, <3>3 DEF MergesNext
    <3>5. Sound(File(open, n + 1))
      BY <1>1, <1>3, TopSound
    <3>6. parse_filter_line(LineAt(tree, open, k, l)).kind \notin Rejected
      BY <3>4 DEF Rejected
    <3>7. LineGood(File(open, k), LineAt(tree, open, k, l))
      BY <3>4, <3>5, <3>6 DEF LineGood
    <3>. QED BY <2>2, <3>7
  <2>. QED BY <2>3, <2>4
<1>7. FramesGood(s)
  BY <1>5, <1>6 DEF FramesGood
<1>8. s = open'
  BY <1>1, <1>4
<1>9. FramesGood(open)'
  BY <1>1, <1>7, <1>8, FramesGoodNext
<1>10. PiecesGood'
  BY <1>1, PiecesKept
<1>. QED BY <1>1, <1>9, <1>10 DEF CInv

\* no file is read afterwards
LEMMA NoFramesGood == open' = <<>> => FramesGood(open)'
<1>. SUFFICES ASSUME open' = <<>> PROVE FramesGood(open)'
  OBVIOUS
<1>1. Len(open') = 0
  OBVIOUS
<1>2. \A k : k \notin 1 .. 0
  OBVIOUS
<1>. QED BY <1>1, <1>2 DEF FramesGood

LEMMA CLeaveFile == CInv /\ LeaveFile => CInv'
<1>. SUFFICES ASSUME CInv, LeaveFile PROVE CInv'
  OBVIOUS
<1>1. /\ LInv /\ LInv' /\ AtEnd /\ Reading /\ pc = "filter_from" /\ pc \notin Refusals /\ PiecesGood
      /\ Len(open) = 1 /\ open # <<>>
      /\ open' = <<>> /\ next' = next + 1 /\ UNCHANGED <<tree, cli, pc>>
  BY LLeaveFile DEF CInv, LeaveFile, AtEnd, Reading, Refusals, inputs
<1>2. open[1].path = cli.filter_from[next]
  BY <1>1 DEF LInv
<1>3. Sound(Canonical(cli.filter_from[next]))
  BY <1>1, <1>2, TopSound DEF File
<1>4. IsGood(pc, next)
  BY <1>1, <1>3 DEF IsGood
<1>5. PiecesGood'
  BY <1>1, <1>4, SourceSet, PiecesOneOn
<1>. QED BY <1>1, <1>5, NoFramesGood DEF CInv

\* a piece of a source other than the filter files, well read
LEMMA CPiece ==
  ASSUME CInv, LInv', pc \in ToSet(Sources), pc # "filter_from", IsGood(pc, next),
         UNCHANGED <<tree, cli, pc, open>>, next' = next + 1
  PROVE  CInv'
<1>1. LInv /\ open = <<>> /\ pc \notin Refusals /\ PiecesGood
  BY SourceSet DEF CInv, LInv, Refusals
<1>2. PiecesGood'
  BY <1>1, PiecesOneOn
<1>. QED BY <1>1, <1>2, NoFramesGood DEF CInv

LEMMA CFilterLine == CInv /\ FilterLine => CInv'
<1>. SUFFICES ASSUME CInv, FilterLine PROVE CInv'
  OBVIOUS
<1>1. /\ LInv /\ LInv' /\ pc = "filter" /\ pc \in ToSet(Sources) /\ next <= Len(cli.filter)
  BY LFilterLine, SourceSet DEF CInv, FilterLine
<1>2. next \in 1 .. Len(cli[pc])
  BY <1>1, NextPiece
<1>3. PICK line : line = parse_filter_line(cli.filter[next])
  OBVIOUS
<1>4. CASE line.kind \in {"merge"} \cup Rejected
  <2>1. PICK refusal \in Rejected :
          /\ Fail(refusal)
          /\ refusal = line.kind \/ (refusal = "invalid" /\ line.kind = "merge")
    BY <1>3, <1>4 DEF FilterLine, Rejected
  <2>2. IsBad(pc, next, refusal)
    BY <1>1, <1>3, <2>1 DEF IsBad
  <2>3. Cause(refusal) /\ refusal \in Refusals
    BY <1>1, <1>2, <2>2, BadIsCause DEF LInv, Rejected, Refusals
  <2>. QED BY <2>1, <2>3, CFail
<1>5. CASE line.kind \notin {"merge"} \cup Rejected
  <2>1. next' = next + 1 /\ UNCHANGED <<tree, cli, pc, open>>
    BY <1>3, <1>5 DEF FilterLine, inputs
  <2>2. IsGood(pc, next)
    BY <1>1, <1>3, <1>5 DEF IsGood
  <2>. QED BY <1>1, <2>1, <2>2, CPiece
<1>. QED BY <1>4, <1>5

LEMMA CSideFile == CInv /\ SideFile => CInv'
<1>. SUFFICES ASSUME CInv, SideFile PROVE CInv'
  OBVIOUS
<1>1. /\ LInv /\ LInv' /\ pc \in {"include_from", "exclude_from"} /\ next <= Len(cli[pc])
  BY LSideFile DEF CInv, SideFile
<1>2. /\ pc \in ToSet(Sources) /\ pc # "filter_from" /\ next \in 1 .. Len(cli[pc])
  BY <1>1, SideFacts
<1>3. PICK path : path = cli[pc][next]
  OBVIOUS
<1>4. /\ (\A refusal \in Refusals : ~FaultySide(Canonical(path), pc = "include_from", refusal))
           => IsGood(pc, next)
      /\ \A refusal \in Refusals :
           FaultySide(Canonical(path), pc = "include_from", refusal) => IsBad(pc, next, refusal)
  <2>1. CASE pc = "include_from"
    <3>1. (pc = "include_from") = TRUE /\ pc # "exclude_from"
      BY <2>1
    <3>2. path = cli.include_from[next]
      BY <1>3, <2>1
    <3>3. /\ (\A refusal \in Refusals : ~FaultySide(Canonical(path), TRUE, refusal))
               => IsGood("include_from", next)
          /\ \A refusal \in Refusals :
               FaultySide(Canonical(path), TRUE, refusal) => IsBad("include_from", next, refusal)
      BY <3>2 DEF IsGood, IsBad
    <3>. QED BY <2>1, <3>1, <3>3
  <2>2. CASE pc = "exclude_from"
    <3>1. (pc = "include_from") = FALSE
      BY <2>2
    <3>2. path = cli.exclude_from[next]
      BY <1>3, <2>2
    <3>3. /\ (\A refusal \in Refusals : ~FaultySide(Canonical(path), FALSE, refusal))
               => IsGood("exclude_from", next)
          /\ \A refusal \in Refusals :
               FaultySide(Canonical(path), FALSE, refusal) => IsBad("exclude_from", next, refusal)
      BY <3>2 DEF IsGood, IsBad
    <3>. QED BY <2>2, <3>1, <3>3
  <2>. QED BY <1>1, <2>1, <2>2
<1>5. CASE \E refusal \in Refusals :
             Fail(refusal) /\ FaultySide(Canonical(path), pc = "include_from", refusal)
  <2>1. PICK refusal \in Refusals :
          Fail(refusal) /\ FaultySide(Canonical(path), pc = "include_from", refusal)
    BY <1>5
  <2>2. IsBad(pc, next, refusal)
    BY <1>4, <2>1
  <2>3. Cause(refusal)
    BY <1>1, <1>2, <2>2, BadIsCause DEF LInv
  <2>. QED BY <2>1, <2>3, CFail
<1>6. CASE /\ Exists(path) /\ IsText(tree[Canonical(path)])
           /\ \A k \in DOMAIN tree[Canonical(path)] :
                ParseSideLine(tree[Canonical(path)][k], pc = "include_from") # Invalid
           /\ next' = next + 1
           /\ UNCHANGED <<tree, cli, pc, open>>
  <2>1. \A refusal \in Refusals : ~FaultySide(Canonical(path), pc = "include_from", refusal)
    BY <1>6 DEF FaultySide, NoLines, LinesOf, Exists, ToSet
  <2>. QED BY <1>1, <1>2, <1>4, <1>6, <2>1, CPiece
<1>7. \/ \E refusal \in Refusals :
           Fail(refusal) /\ FaultySide(Canonical(path), pc = "include_from", refusal)
      \/ /\ Exists(path) /\ IsText(tree[Canonical(path)])
         /\ \A k \in DOMAIN tree[Canonical(path)] :
              ParseSideLine(tree[Canonical(path)][k], pc = "include_from") # Invalid
         /\ next' = next + 1
         /\ UNCHANGED <<tree, cli, pc, open>>
  BY <1>1, <1>3, SideFileIs
<1>. QED BY <1>5, <1>6, <1>7

LEMMA CRegex == CInv /\ Regex => CInv'
<1>. SUFFICES ASSUME CInv, Regex PROVE CInv'
  OBVIOUS
<1>1. /\ LInv /\ LInv' /\ pc \in {"regex_includes", "regex_excludes"} /\ next <= Len(cli[pc])
      /\ pc \in ToSet(Sources) /\ pc # "filter_from"
  BY LRegex, SourceSet DEF CInv, Regex
<1>2. next \in 1 .. Len(cli[pc])
  BY <1>1, NextPiece
<1>3. IsGood(pc, next) <=> cli[pc][next].compiles
  BY <1>1 DEF IsGood
<1>4. CASE ~cli[pc][next].compiles
  <2>1. Fail("invalid") /\ "invalid" \in Refusals
    BY <1>4 DEF Regex, Refusals
  <2>2. IsBad(pc, next, "invalid")
    BY <1>1, <1>4 DEF IsBad
  <2>3. Cause("invalid")
    BY <1>1, <1>2, <2>2, BadIsCause DEF LInv
  <2>. QED BY <2>1, <2>3, CFail
<1>5. CASE cli[pc][next].compiles
  <2>1. next' = next + 1 /\ UNCHANGED <<tree, cli, pc, open>>
    BY <1>5 DEF Regex, inputs
  <2>. QED BY <1>1, <1>3, <1>5, <2>1, CPiece
<1>. QED BY <1>4, <1>5

LEMMA CSourceDone == CInv /\ SourceDone => CInv'
<1>. SUFFICES ASSUME CInv, SourceDone PROVE CInv'
  OBVIOUS
<1>1. /\ LInv /\ LInv' /\ pc \in ToSet(Sources) /\ open = <<>> /\ next > Len(cli[pc])
      /\ pc' = After(pc) /\ next' = 1 /\ UNCHANGED <<tree, cli, open>>
  BY LSourceDone, NextSourceIs DEF CInv, SourceDone, inputs
<1>2. pc \notin Refusals /\ pc' \notin Refusals /\ PiecesGood
  BY <1>1, SourceSet DEF After, CInv, Refusals
<1>3. PiecesGood'
  BY <1>1, <1>2, PiecesSourceDone
<1>. QED BY <1>1, <1>2, <1>3, NoFramesGood DEF CInv

LEMMA CInit == Init => CInv
<1>. SUFFICES ASSUME Init PROVE CInv
  OBVIOUS
<1>1. LInv /\ pc = "filter_from" /\ next = 1 /\ open = <<>>
  BY LInit DEF Init
<1>2. PiecesGood
  <2>. SUFFICES ASSUME NEW s \in ToSet(Sources), NEW i \in 1 .. Len(cli[s]),
                       Rank(s) < Rank(pc) \/ (s = pc /\ i < next)
                PROVE  FALSE
    BY DEF PiecesGood
  <2>1. Rank(pc) = 1 /\ Rank(s) \in 1 .. 7
    BY <1>1 DEF Rank
  <2>2. ~(i < 1)
    OBVIOUS
  <2>. QED BY <1>1, <2>1, <2>2
<1>3. FramesGood(open)
  <2>1. Len(open) = 0 /\ \A k : k \notin 1 .. 0
    BY <1>1
  <2>. QED BY <2>1 DEF FramesGood
<1>4. pc \notin Refusals
  BY <1>1 DEF Refusals
<1>. QED BY <1>1, <1>2, <1>3, <1>4 DEF CInv

LEMMA CStep == CInv /\ [Next]_vars => CInv'
<1>. SUFFICES ASSUME CInv, [Next]_vars PROVE CInv'
  OBVIOUS
<1>1. CASE OpenFile
  BY <1>1, COpenFile
<1>2. CASE ReadNothing \/ ReadRule
  BY <1>2, CReadOn
<1>3. CASE ReadMerge
  BY <1>3, CReadMerge
<1>4. CASE ReadRejected
  BY <1>4, CReadRejected
<1>5. CASE LeaveMerged
  BY <1>5, CLeaveMerged
<1>6. CASE LeaveFile
  BY <1>6, CLeaveFile
<1>7. CASE FilterLine
  BY <1>7, CFilterLine
<1>8. CASE SideFile
  BY <1>8, CSideFile
<1>9. CASE Regex
  BY <1>9, CRegex
<1>10. CASE SourceDone
  BY <1>10, CSourceDone
<1>11. CASE UNCHANGED vars
  <2>1. UNCHANGED <<tree, cli, pc, next, open>>
    BY <1>11 DEF vars, inputs
  <2>2. LInv'
    BY LStep DEF CInv
  <2>3. Cause(pc)' <=> Cause(pc)
    <3>1. Cause(pc)' <=> Cause(pc)
      BY <2>1, SameInputs
    <3>. QED BY <3>1
  <2>4. pc \notin Refusals => PiecesGood'
    BY <2>1, PiecesKept DEF CInv
  <2>5. pc \notin Refusals => FramesGood(open)'
    BY <2>1, FramesGoodNext DEF CInv
  <2>. QED BY <2>1, <2>2, <2>3, <2>4, <2>5 DEF CInv
<1>. QED BY <1>1, <1>2, <1>3, <1>4, <1>5, <1>6, <1>7, <1>8, <1>9, <1>10, <1>11
       DEF Next, Load, Terminated

LEMMA CAlways == Spec => []CInv
BY CInit, CStep, PTL DEF Spec

LEMMA CRefused == CInv => RefusedForCause
<1>. SUFFICES ASSUME CInv, pc = "done" PROVE \A refusal \in Refusals : ~Cause(refusal)
  BY DEF RefusedForCause, Ended, CInv
<1>1. InputsOK /\ PiecesGood
  BY DEF CInv, LInv, Refusals
<1>2. \A s \in ToSet(Sources) : Rank(s) < Rank(pc)
  BY SourceSet DEF Rank
<1>3. \A s \in ToSet(Sources) : \A i \in 1 .. Len(cli[s]) : IsGood(s, i)
  BY <1>1, <1>2 DEF PiecesGood
<1>. QED BY <1>1, <1>3, AllGoodNoCause

(* A filter is made exactly when no file that is reached is missing, is    *)
(* not text, merges itself over others or has a line that is not valid or  *)
(* that panics, and every other piece is valid (from_cli,                  *)
(* load_filter_file_inner); an error, or a panic of split_rule_prefix, has *)
(* a cause of its own kind. visiting, which holds only the files on the    *)
(* way to the current one, finds every cycle of merges and nothing else.   *)
THEOREM RefusedExactlyForCause == Spec => []RefusedForCause
BY CAlways, CRefused, PTL

-----------------------------------------------------------------------------
(* The rules that the lines leave are those after the last `clear'.        *)

LEMMA ConcatAssoc ==
  ASSUME NEW S, NEW s \in Seq(S), NEW t \in Seq(S), NEW u \in Seq(S)
  PROVE  (s \o t) \o u = s \o (t \o u)
OBVIOUS

LEMMA ConcatNone ==
  ASSUME NEW S, NEW s \in Seq(S)
  PROVE  s \o <<>> = s
OBVIOUS

LEMMA ConcatType ==
  ASSUME NEW S, NEW s \in Seq(S), NEW t \in Seq(S)
  PROVE  s \o t \in Seq(S)
OBVIOUS

Clears(lines) == {0} \cup {k \in DOMAIN lines : lines[k] = Clear}

LEMMA LastClear ==
  ASSUME NEW lines \in Seq(Entries)
  PROVE  /\ Max(Clears(lines)) \in 0 .. Len(lines)
         /\ Max(Clears(lines)) \in Clears(lines)
         /\ \A k \in Clears(lines) : k <= Max(Clears(lines))
         /\ Uncleared(lines) = [k \in 1 .. Len(lines) - Max(Clears(lines)) |->
                                  lines[Max(Clears(lines)) + k].rule]
<1>1. PICK n \in Nat : n = Len(lines) /\ DOMAIN lines = 1 .. n
  OBVIOUS
<1>2. PICK C : C = Clears(lines)
  OBVIOUS
<1>3. C \subseteq 0 .. n /\ 0 \in C
  BY <1>1, <1>2 DEF Clears
<1>4. C \subseteq Nat /\ C # {} /\ \A y \in C : y <= n
  BY <1>1, <1>3
<1>5. Max(C) \in C /\ \A y \in C : Max(C) >= y
  BY <1>1, <1>4, MaxIsGreatest
<1>6. Max(C) \in 0 .. n
  BY <1>3, <1>5
<1>7. \A y \in C : y <= Max(C)
  BY <1>4, <1>5, <1>6
<1>8. Uncleared(lines) = [k \in 1 .. Len(lines) - Max(C) |-> lines[Max(C) + k].rule]
  BY <1>2 DEF Uncleared, Clears
<1>. QED BY <1>1, <1>2, <1>5, <1>6, <1>7, <1>8

\* no rule is cleared after the last `clear'
LEMMA UnclearedAre ==
  ASSUME NEW lines \in Seq(Entries), NEW k \in Max(Clears(lines)) + 1 .. Len(lines)
  PROVE  lines[k] \in Entries /\ lines[k].kind = "rule" /\ lines[k].rule \in RuleSet
<1>1. Max(Clears(lines)) \in 0 .. Len(lines) /\ \A j \in Clears(lines) : j <= Max(Clears(lines))
  BY LastClear
<1>2. PICK c \in Nat : c = Max(Clears(lines))
  BY <1>1
<1>3. k \in DOMAIN lines /\ ~(k <= c)
  BY <1>1, <1>2
<1>4. lines[k] # Clear /\ lines[k] \in Entries
  BY <1>1, <1>2, <1>3 DEF Clears
<1>5. lines[k].kind = "rule"
  BY <1>4, EntryFacts, SpokenKinds
<1>. QED BY <1>4, <1>5, EntryFacts

LEMMA UnclearedType ==
  ASSUME NEW lines \in Seq(Entries)
  PROVE  Uncleared(lines) \in Seq(RuleSet)
<1>1. /\ Max(Clears(lines)) \in 0 .. Len(lines)
      /\ Uncleared(lines) = [k \in 1 .. Len(lines) - Max(Clears(lines)) |->
                               lines[Max(Clears(lines)) + k].rule]
  BY LastClear
<1>2. PICK c, n \in Nat : c = Max(Clears(lines)) /\ n = Len(lines) /\ c <= n
  BY <1>1
<1>3. \A k \in 1 .. n - c : c + k \in c + 1 .. n
  OBVIOUS
<1>4. \A k \in 1 .. n - c : lines[c + k].rule \in RuleSet
  BY <1>2, <1>3, UnclearedAre
<1>5. n - c \in Nat
  BY <1>2
<1>6. [k \in 1 .. n - c |-> lines[c + k].rule] \in [1 .. n - c -> RuleSet]
  BY <1>4
<1>7. [k \in 1 .. n - c |-> lines[c + k].rule] \in Seq(RuleSet)
  BY <1>5, <1>6, IsASeq
<1>. QED BY <1>1, <1>2, <1>7

LEMMA UnclearedNone == Uncleared(<<>>) = <<>>
<1>1. <<>> \in Seq(Entries) /\ Len(<<>>) = 0
  BY SeqOfNone
<1>2. PICK none : none = <<>>
  OBVIOUS
<1>3. /\ Max(Clears(none)) \in 0 .. 0
      /\ Uncleared(none) = [k \in 1 .. 0 - Max(Clears(none)) |-> none[Max(Clears(none)) + k].rule]
  BY <1>1, <1>2, LastClear
<1>4. Max(Clears(none)) = 0
  BY <1>3
<1>5. Len(Uncleared(none)) = 0 /\ Uncleared(none) \in Seq(RuleSet)
  BY <1>1, <1>2, <1>3, <1>4, UnclearedType
<1>. QED BY <1>2, <1>5

LEMMA UnclearedAppend ==
  ASSUME NEW lines \in Seq(Entries), NEW x \in Entries
  PROVE  Uncleared(Append(lines, x)) = Collect(Uncleared(lines), x)
<1>1. PICK tt : tt = Append(lines, x)
  OBVIOUS
<1>2. PICK n \in Nat : n = Len(lines)
  OBVIOUS
<1>3. /\ tt \in Seq(Entries) /\ Len(tt) = n + 1 /\ tt[n + 1] = x
      /\ \A k \in 1 .. n : tt[k] = lines[k]
  BY <1>1, <1>2, AppendFacts
<1>4. DOMAIN tt = 1 .. n + 1 /\ DOMAIN lines = 1 .. n
  BY <1>2, <1>3
<1>5. PICK c, d : c = Max(Clears(lines)) /\ d = Max(Clears(tt))
  OBVIOUS
<1>6. /\ c \in 0 .. n /\ Uncleared(lines) = [k \in 1 .. n - c |-> lines[c + k].rule]
      /\ d \in 0 .. n + 1 /\ Uncleared(tt) = [k \in 1 .. (n + 1) - d |-> tt[d + k].rule]
      /\ \A k \in Clears(tt) : k <= d
      /\ d \in Clears(tt)
  BY <1>2, <1>3, <1>5, LastClear
<1>7. Uncleared(lines) \in Seq(RuleSet) /\ Uncleared(tt) \in Seq(RuleSet)
  BY <1>3, UnclearedType
<1>8. CASE x = Clear
  <2>1. n + 1 \in Clears(tt)
    BY <1>3, <1>4, <1>8 DEF Clears
  <2>2. d = n + 1
    BY <1>6, <2>1
  <2>3. Len(Uncleared(tt)) = 0
    BY <1>6, <1>7, <2>2
  <2>4. Uncleared(tt) = <<>>
    BY <1>7, <2>3
  <2>5. Collect(Uncleared(lines), x) = <<>>
    BY <1>8 DEF Collect, Clear
  <2>. QED BY <1>1, <2>4, <2>5
<1>9. CASE x # Clear
  <2>1. Clears(tt) = Clears(lines)
    <3>1. \A k \in 1 .. n + 1 : tt[k] = Clear <=> k \in 1 .. n /\ lines[k] = Clear
      <4>1. \A k \in 1 .. n + 1 : k \in 1 .. n \/ k = n + 1
        OBVIOUS
      <4>2. n + 1 \notin 1 .. n
        OBVIOUS
      <4>. QED BY <1>3, <1>9, <4>1, <4>2
    <3>2. \A k \in 1 .. n : k \in 1 .. n + 1
      OBVIOUS
    <3>. QED BY <1>4, <3>1, <3>2 DEF Clears
  <2>2. d = c
    BY <1>5, <2>1
  <2>3. x.kind = "rule" /\ x.rule \in RuleSet
    BY <1>9, EntryFacts, SpokenKinds
  <2>4. PICK old, r : old = Uncleared(lines) /\ r = x.rule
    OBVIOUS
  <2>5. Collect(old, x) = Append(old, r)
    BY <2>3, <2>4 DEF Collect
  <2>6. PICK m \in Nat : m = n - c /\ n = m + c /\ c \in Nat
    BY <1>6
  <2>7. Len(old) = m /\ Append(old, r) \in Seq(RuleSet) /\ Len(Append(old, r)) = m + 1
        /\ Append(old, r)[m + 1] = r /\ \A k \in 1 .. m : Append(old, r)[k] = old[k]
    <3>1. Len(old) = m /\ old \in Seq(RuleSet)
      BY <1>6, <1>7, <2>4, <2>6
    <3>. QED BY <2>3, <2>4, <3>1, AppendFacts
  <2>8. Len(Uncleared(tt)) = m + 1
    <3>1. (n + 1) - d = m + 1
      BY <2>2, <2>6
    <3>. QED BY <1>6, <1>7, <3>1
  <2>9. \A k \in 1 .. m + 1 : Uncleared(tt)[k] = Append(old, r)[k]
    <3>. SUFFICES ASSUME NEW k \in 1 .. m + 1 PROVE Uncleared(tt)[k] = Append(old, r)[k]
      OBVIOUS
    <3>1. Uncleared(tt)[k] = tt[c + k].rule
      <4>1. (n + 1) - d = m + 1
        BY <2>2, <2>6
      <4>. QED BY <1>6, <2>2, <4>1
    <3>2. CASE k = m + 1
      <4>1. c + k = n + 1
        BY <2>6, <3>2
      <4>. QED BY <1>3, <2>4, <2>7, <3>1, <3>2, <4>1
    <3>3. CASE k # m + 1
      <4>1. k \in 1 .. m /\ c + k \in 1 .. n
        BY <2>6, <3>3
      <4>2. old[k] = lines[c + k].rule
        BY <1>6, <2>4, <2>6, <4>1
      <4>. QED BY <1>3, <2>7, <3>1, <4>1, <4>2
    <3>. QED BY <3>2, <3>3
  <2>10. Uncleared(tt) = Append(old, r)
    BY <1>7, <2>7, <2>8, <2>9
  <2>. QED BY <1>1, <2>4, <2>5, <2>10
<1>. QED BY <1>8, <1>9

\* taking lines one by one clears as the last `clear' among them does
LEMMA CollectedUncleared ==
  ASSUME NEW lines \in Seq(Entries), NEW more \in Seq(Entries)
  PROVE  Collected(Uncleared(lines), more) = Uncleared(lines \o more)
<1>1. PICK m \in Nat : m = Len(more)
  OBVIOUS
<1>2. PICK g : IsCollecting(g, Uncleared(lines), more)
  BY UnclearedType, CollectFacts
<1>. DEFINE G == {k \in Nat : m < k \/ g[k] = Uncleared(lines \o SubSeq(more, 1, k))}
<1>3. 0 \in G
  <2>1. lines \o SubSeq(more, 1, 0) = lines
    BY AllOfIt, ConcatFacts
  <2>. QED BY <1>2, <2>1 DEF IsCollecting
<1>4. ASSUME NEW k \in G, k \in Nat, k < m PROVE k + 1 \in G
  <2>1. /\ SubSeq(more, 1, k) \in Seq(Entries) /\ more[k + 1] \in Entries
        /\ SubSeq(more, 1, k + 1) = Append(SubSeq(more, 1, k), more[k + 1])
    BY <1>1, <1>4, NextPrefix
  <2>2. PICK a, x : a = SubSeq(more, 1, k) /\ x = more[k + 1]
    OBVIOUS
  <2>3. lines \o Append(a, x) = Append(lines \o a, x) /\ lines \o a \in Seq(Entries)
    BY <2>1, <2>2, ConcatAppend, ConcatFacts
  <2>4. Uncleared(Append(lines \o a, x)) = Collect(Uncleared(lines \o a), x)
    BY <2>1, <2>2, <2>3, UnclearedAppend
  <2>5. g[k] = Uncleared(lines \o a)
    BY <1>4, <2>2
  <2>6. k + 1 \in 1 .. Len(more) /\ (k + 1) - 1 = k
    BY <1>1, <1>4
  <2>7. g[k + 1] = Collect(g[(k + 1) - 1], x)
    BY <1>2, <2>2, <2>6 DEF IsCollecting
  <2>8. g[k + 1] = Uncleared(lines \o SubSeq(more, 1, k + 1))
    BY <2>1, <2>2, <2>3, <2>4, <2>5, <2>6, <2>7
  <2>. QED BY <1>4, <2>8
<1>5. \A k \in 0 .. m : k \in G
  <2>. HIDE DEF G
  <2>. QED BY <1>3, <1>4, BoundedInduction
<1>6. g[m] = Uncleared(lines \o SubSeq(more, 1, m))
  BY <1>5
<1>. QED BY <1>1, <1>2, <1>6, AllOfIt DEF IsCollecting

-----------------------------------------------------------------------------
(* What the lines of a filter file stand for.                              *)

Merged == [DOMAIN tree -> Seq(Entries)]

LEMMA PieceType ==
  ASSUME NEW merged \in Merged, NEW file, NEW line \in TextLines
  PROVE  Piece(merged, file, line) \in Seq(Entries)
<1>1. PICK parsed : parsed = parse_filter_line(line)
  OBVIOUS
<1>2. CASE parsed.kind = "merge"
  <2>1. CASE Target(file, line) \in DOMAIN tree
    <3>1. merged[Target(file, line)] \in Seq(Entries)
      BY <2>1 DEF Merged
    <3>. QED BY <1>1, <1>2, <2>1, <3>1 DEF Piece
  <2>2. CASE Target(file, line) \notin DOMAIN tree
    BY <1>1, <1>2, <2>2, SeqOfNone DEF Piece
  <2>. QED BY <2>1, <2>2
<1>3. CASE parsed.kind \in {"rule", "clear"}
  <2>1. parsed \in Entries
    BY <1>1, <1>3, LineIsEntry
  <2>2. <<parsed>> \in Seq(Entries)
    BY <2>1, SeqOfOne
  <2>3. Piece(merged, file, line) = <<parsed>>
    BY <1>1, <1>3 DEF Piece
  <2>. QED BY <2>2, <2>3
<1>4. CASE parsed.kind \notin {"merge", "rule", "clear"}
  BY <1>1, <1>4, SeqOfNone DEF Piece
<1>. QED BY <1>2, <1>3, <1>4

Pieces(merged, file) == [k \in DOMAIN tree[file] |-> Piece(merged, file, tree[file][k])]

LEMMA PiecesType ==
  ASSUME TreeOK(tree), NEW merged \in Merged, NEW file \in DOMAIN tree
  PROVE  /\ Pieces(merged, file) \in Seq(Seq(Entries))
         /\ Len(Pieces(merged, file)) = Len(tree[file])
         /\ \A k \in 1 .. Len(tree[file]) :
               Pieces(merged, file)[k] = Piece(merged, file, tree[file][k])
         /\ FlattenSeq(Pieces(merged, file)) \in Seq(Entries)
<1>1. tree[file] \in Seq(TextLines)
  BY DEF TreeOK
<1>2. PICK n \in Nat : n = Len(tree[file]) /\ DOMAIN tree[file] = 1 .. n
  BY <1>1
<1>3. \A k \in 1 .. n : Piece(merged, file, tree[file][k]) \in Seq(Entries)
  BY <1>1, <1>2, PieceType
<1>4. Pieces(merged, file) = [k \in 1 .. n |-> Piece(merged, file, tree[file][k])]
  BY <1>2 DEF Pieces
<1>5. [k \in 1 .. n |-> Piece(merged, file, tree[file][k])] \in Seq(Seq(Entries))
  BY <1>3, IsASeq
<1>6. Pieces(merged, file) \in Seq(Seq(Entries))
  BY <1>4, <1>5
<1>7. Len(Pieces(merged, file)) = n
  BY <1>4, <1>6
<1>8. FlattenSeq(Pieces(merged, file)) \in Seq(Entries)
  BY <1>6, FlatType
<1>. QED BY <1>2, <1>4, <1>6, <1>7, <1>8

UnfoldRow(g, d) ==
  [file \in DOMAIN tree |-> IF d = 0 THEN <<>> ELSE FlattenSeq(Pieces(g[d - 1], file))]

LEMMA UnfoldRowType ==
  ASSUME TreeOK(tree), NEW n \in Nat, NEW g \in [0 .. n -> Merged], NEW d \in 0 .. n
  PROVE  UnfoldRow(g, d) \in Merged
<1>1. CASE d = 0
  BY <1>1, SeqOfNone DEF UnfoldRow, Merged
<1>2. CASE d # 0
  <2>1. d - 1 \in 0 .. n
    BY <1>2
  <2>2. g[d - 1] \in Merged
    BY <2>1
  <2>3. \A file \in DOMAIN tree : FlattenSeq(Pieces(g[d - 1], file)) \in Seq(Entries)
    BY <2>2, PiecesType
  <2>. QED BY <1>2, <2>3 DEF UnfoldRow, Merged
<1>. QED BY <1>1, <1>2

LEMMA UnfoldExists ==
  ASSUME TreeOK(tree), NEW n \in Nat
  PROVE  \E g \in [0 .. n -> Merged] : \A d \in 0 .. n : g[d] = UnfoldRow(g, d)
<1>. DEFINE R == [d \in 0 .. n |-> [g \in [0 .. n -> Merged] |-> UnfoldRow(g, d)]]
<1>1. Merged # {}
  <2>1. [file \in DOMAIN tree |-> <<>>] \in Merged
    BY SeqOfNone DEF Merged
  <2>. QED BY <2>1
<1>2. R \in [0 .. n -> [[0 .. n -> Merged] -> Merged]]
  BY UnfoldRowType
<1>3. ASSUME NEW d \in 0 .. n, NEW g \in [0 .. n -> Merged], NEW h \in [0 .. n -> Merged],
             \A j \in 0 .. n : j < d => g[j] = h[j]
      PROVE  R[d][g] = R[d][h]
  <2>1. d # 0 => g[d - 1] = h[d - 1]
    BY <1>3
  <2>2. UnfoldRow(g, d) = UnfoldRow(h, d)
    <3>1. CASE d = 0
      BY <3>1 DEF UnfoldRow
    <3>2. CASE d # 0
      BY <2>1, <3>2 DEF UnfoldRow
    <3>. QED BY <3>1, <3>2
  <2>. QED BY <2>2
<1>4. \E g \in [0 .. n -> Merged] : \A d \in 0 .. n : g[d] = R[d][g]
  <2>. HIDE DEF R
  <2>1. FromBelow(R, n, Merged)
    BY <1>3 DEF FromBelow
  <2>2. SolvedFromBelow(R, n, Merged)
    BY <1>1, <1>2, <2>1, UpRecursion
  <2>. QED BY <2>2 DEF SolvedFromBelow
<1>. QED BY <1>4

Deepest == Cardinality(DOMAIN tree)

IsUnfolding(u) ==
  /\ u \in [0 .. Deepest -> Merged]
  /\ \A d \in 1 .. Deepest : \A file \in DOMAIN tree :
        u[d][file] = FlattenSeq(Pieces(u[d - 1], file))
  /\ Unfolded = u[Deepest]

LEMMA UnfoldFacts ==
  ASSUME TreeOK(tree)
  PROVE  Deepest \in Nat /\ \E u : IsUnfolding(u)
<1>1. Deepest \in Nat
  BY FS_CardinalityType DEF TreeOK, Deepest
<1>. DEFINE Row(f) == [depth \in 0 .. Deepest |-> [file \in DOMAIN tree |->
                         IF depth = 0 THEN <<>>
                         ELSE FlattenSeq([k \in DOMAIN tree[file] |->
                                            Piece(f[depth - 1], file, tree[file][k])])]]
            c == CHOOSE f : f = Row(f)
<1>2. \A f : Row(f) = [d \in 0 .. Deepest |-> UnfoldRow(f, d)]
  BY DEF UnfoldRow, Pieces
<1>3. PICK g \in [0 .. Deepest -> Merged] : \A d \in 0 .. Deepest : g[d] = UnfoldRow(g, d)
  BY <1>1, UnfoldExists
<1>4. Unfolded = c[Deepest]
  BY DEF Unfolded, Deepest
<1>. HIDE DEF Row
<1>5. g = Row(g)
  BY <1>2, <1>3
<1>6. c = Row(c)
  BY <1>5
<1>. HIDE DEF c
<1>7. \A d \in 0 .. Deepest : c[d] = UnfoldRow(c, d)
  BY <1>2, <1>6
<1>8. EqualFromBelow(c, g, Deepest)
  <2>. SUFFICES ASSUME NEW d \in 0 .. Deepest, \A j \in 0 .. Deepest : j < d => c[j] = g[j]
                PROVE  c[d] = g[d]
    BY DEF EqualFromBelow
  <2>1. d # 0 => c[d - 1] = g[d - 1]
    BY <1>1
  <2>2. UnfoldRow(c, d) = UnfoldRow(g, d)
    <3>1. CASE d = 0
      BY <3>1 DEF UnfoldRow
    <3>2. CASE d # 0
      BY <2>1, <3>2 DEF UnfoldRow
    <3>. QED BY <3>1, <3>2
  <2>. QED BY <1>3, <1>7, <2>2
<1>9. \A d \in 0 .. Deepest : c[d] = g[d]
  BY <1>1, <1>8, UpUnique
<1>10. Unfolded = g[Deepest]
  BY <1>1, <1>4, <1>9
<1>11. ASSUME NEW d \in 1 .. Deepest, NEW file \in DOMAIN tree
       PROVE  g[d][file] = FlattenSeq(Pieces(g[d - 1], file))
  <2>1. d \in 0 .. Deepest /\ d # 0
    BY <1>1
  <2>2. g[d] = UnfoldRow(g, d)
    BY <1>3, <2>1
  <2>. QED BY <2>1, <2>2 DEF UnfoldRow
<1>12. IsUnfolding(g)
  BY <1>10, <1>11 DEF IsUnfolding
<1>. QED BY <1>1, <1>12

LEMMA UnfoldType ==
  ASSUME TreeOK(tree), NEW u, IsUnfolding(u), NEW d \in 0 .. Deepest
  PROVE  u[d] \in Merged /\ \A file \in DOMAIN tree : u[d][file] \in Seq(Entries)
<1>1. u[d] \in Merged
  BY DEF IsUnfolding
<1>. QED BY <1>1 DEF Merged

\* never more files are read at a time than there are
LEMMA FramesBounded ==
  ASSUME TreeOK(tree), NEW frames, FramesOK(tree, frames)
  PROVE  Len(frames) \in Nat /\ Deepest \in Nat /\ Len(frames) <= Deepest
<1>1. Len(frames) \in Nat
  BY DEF FramesOK
<1>2. Files(frames) \subseteq DOMAIN tree
  BY DEF FramesOK, Files
<1>3. Cardinality(Files(frames)) = Len(frames)
  BY FilesCounted
<1>4. Cardinality(Files(frames)) <= Cardinality(DOMAIN tree)
  BY <1>2, FS_Subset DEF TreeOK
<1>. QED BY <1>1, <1>3, <1>4, UnfoldFacts DEF Deepest

\* what the first m lines of frame j stand for
Taken(u, frames, j, m) ==
  FlattenSeq(SubSeq(Pieces(u[Deepest - j], File(frames, j)), 1, m))

LEMMA TakenPieces ==
  ASSUME TreeOK(tree), NEW u, IsUnfolding(u), NEW frames, FramesOK(tree, frames),
         NEW j \in 1 .. Len(frames)
  PROVE  /\ Deepest - j \in 0 .. Deepest /\ u[Deepest - j] \in Merged
         /\ File(frames, j) \in DOMAIN tree
         /\ Pieces(u[Deepest - j], File(frames, j)) \in Seq(Seq(Entries))
         /\ Len(Pieces(u[Deepest - j], File(frames, j))) = Len(tree[File(frames, j)])
         /\ Len(tree[File(frames, j)]) \in Nat
<1>1. Deepest - j \in 0 .. Deepest
  BY FramesBounded
<1>2. u[Deepest - j] \in Merged
  BY <1>1, UnfoldType
<1>3. File(frames, j) \in DOMAIN tree /\ Len(tree[File(frames, j)]) \in Nat
  BY FrameTypes
<1>. QED BY <1>1, <1>2, <1>3, PiecesType

LEMMA TakenNone ==
  ASSUME TreeOK(tree), NEW u, IsUnfolding(u), NEW frames, FramesOK(tree, frames),
         NEW j \in 1 .. Len(frames)
  PROVE  Taken(u, frames, j, 0) = <<>>
<1>1. PICK ss \in Seq(Seq(Entries)) : ss = Pieces(u[Deepest - j], File(frames, j))
  BY TakenPieces
<1>2. SubSeq(ss, 1, 0) = <<>>
  OBVIOUS
<1>. QED BY <1>1, <1>2, FlatNone DEF Taken

LEMMA TakenType ==
  ASSUME TreeOK(tree), NEW u, IsUnfolding(u), NEW frames, FramesOK(tree, frames),
         NEW j \in 1 .. Len(frames), NEW m \in 0 .. Len(tree[File(frames, j)])
  PROVE  Taken(u, frames, j, m) \in Seq(Entries)
<1>1. PICK ss \in Seq(Seq(Entries)) :
        ss = Pieces(u[Deepest - j], File(frames, j)) /\ Len(ss) = Len(tree[File(frames, j)])
  BY TakenPieces
<1>2. SubSeq(ss, 1, m) \in Seq(Seq(Entries))
  BY <1>1
<1>. QED BY <1>1, <1>2, FlatType DEF Taken

LEMMA TakenNext ==
  ASSUME TreeOK(tree), NEW u, IsUnfolding(u), NEW frames, FramesOK(tree, frames),
         NEW j \in 1 .. Len(frames), NEW m \in Nat, m < Len(tree[File(frames, j)])
  PROVE  Taken(u, frames, j, m + 1) =
           Taken(u, frames, j, m) \o Piece(u[Deepest - j], File(frames, j), LineAt(tree, frames, j, m + 1))
<1>1. PICK f, merged : f = File(frames, j) /\ merged = u[Deepest - j]
  OBVIOUS
<1>2. PICK ss \in Seq(Seq(Entries)) : ss = Pieces(merged, f) /\ Len(ss) = Len(tree[f])
  BY <1>1, TakenPieces
<1>3. FlattenSeq(SubSeq(ss, 1, m + 1)) = FlattenSeq(SubSeq(ss, 1, m)) \o ss[m + 1]
  BY <1>1, <1>2, FlatNext
<1>4. ss[m + 1] = Piece(merged, f, tree[f][m + 1])
  <2>1. m + 1 \in 1 .. Len(tree[f])
    <3>1. Len(tree[f]) \in Nat
      BY <1>1, TakenPieces
    <3>. QED BY <1>1, <3>1
  <2>2. merged \in Merged /\ f \in DOMAIN tree
    BY <1>1, TakenPieces
  <2>. QED BY <1>2, <2>1, <2>2, PiecesType
<1>5. Taken(u, frames, j, m + 1) = FlattenSeq(SubSeq(ss, 1, m)) \o Piece(merged, f, tree[f][m + 1])
  BY <1>1, <1>2, <1>3, <1>4 DEF Taken
<1>6. Taken(u, frames, j, m) = FlattenSeq(SubSeq(ss, 1, m))
  BY <1>1, <1>2 DEF Taken
<1>7. tree[f][m + 1] = LineAt(tree, frames, j, m + 1)
  BY <1>1 DEF LineAt
<1>. QED BY <1>1, <1>5, <1>6, <1>7

LEMMA TakenAll ==
  ASSUME TreeOK(tree), NEW u, IsUnfolding(u), NEW frames, FramesOK(tree, frames),
         NEW j \in 1 .. Len(frames)
  PROVE  Taken(u, frames, j, Len(tree[File(frames, j)])) = u[(Deepest - j) + 1][File(frames, j)]
<1>1. PICK f, merged, n : f = File(frames, j) /\ merged = u[Deepest - j] /\ n = Deepest - j
  OBVIOUS
<1>2. PICK ss \in Seq(Seq(Entries)) : ss = Pieces(merged, f) /\ Len(ss) = Len(tree[f])
  BY <1>1, TakenPieces
<1>3. SubSeq(ss, 1, Len(ss)) = ss
  BY AllOfIt
<1>4. Taken(u, frames, j, Len(tree[f])) = FlattenSeq(ss)
  BY <1>1, <1>2, <1>3 DEF Taken
<1>5. n + 1 \in 1 .. Deepest /\ (n + 1) - 1 = n
  BY <1>1, FramesBounded
<1>6. u[n + 1][f] = FlattenSeq(Pieces(u[(n + 1) - 1], f))
  <2>1. f \in DOMAIN tree
    BY <1>1, TakenPieces
  <2>. QED BY <1>5, <2>1 DEF IsUnfolding
<1>. QED BY <1>1, <1>2, <1>4, <1>5, <1>6

\* what the files above the innermost one have given so far
Above(u, frames) ==
  FlattenSeq([j \in 1 .. Len(frames) - 1 |-> Taken(u, frames, j, frames[j].line - 2)])

SoFar(u, frames) ==
  Above(u, frames) \o Taken(u, frames, Len(frames), frames[Len(frames)].line - 1)

LEMMA AboveParts ==
  ASSUME TreeOK(tree), NEW u, IsUnfolding(u), NEW frames, FramesOK(tree, frames),
         NEW j \in 1 .. Len(frames) - 1
  PROVE  /\ j \in 1 .. Len(frames)
         /\ frames[j].line - 2 \in 0 .. Len(tree[File(frames, j)])
         /\ Taken(u, frames, j, frames[j].line - 2) \in Seq(Entries)
<1>1. Len(frames) \in Nat
  BY DEF FramesOK
<1>2. j \in 1 .. Len(frames)
  BY <1>1
<1>3. frames[j].line > 1
  BY DEF FramesOK, MergesNext
<1>4. /\ frames[j].line \in 1 .. Len(tree[File(frames, j)]) + 1
      /\ Len(tree[File(frames, j)]) \in Nat
  BY <1>2, FrameTypes DEF FramesOK
<1>5. frames[j].line - 2 \in 0 .. Len(tree[File(frames, j)])
  BY <1>3, <1>4
<1>. QED BY <1>2, <1>5, TakenType

LEMMA AboveType ==
  ASSUME TreeOK(tree), NEW u, IsUnfolding(u), NEW frames, FramesOK(tree, frames), frames # <<>>
  PROVE  Above(u, frames) \in Seq(Entries)
<1>1. PICK n \in Nat : n = Len(frames) - 1
  <2>1. Len(frames) \in Nat \ {0}
    BY DEF FramesOK
  <2>2. Len(frames) - 1 \in Nat
    BY <2>1
  <2>. QED BY <2>2
<1>2. \A j \in 1 .. n : Taken(u, frames, j, frames[j].line - 2) \in Seq(Entries)
  BY <1>1, AboveParts
<1>3. [j \in 1 .. n |-> Taken(u, frames, j, frames[j].line - 2)] \in Seq(Seq(Entries))
  BY <1>2, IsASeq
<1>. QED BY <1>1, <1>3, FlatType DEF Above

\* the files above stay as they are
LEMMA AboveSame ==
  ASSUME NEW u, NEW frames, NEW s, Len(s) = Len(frames),
         \A j \in 1 .. Len(frames) - 1 :
            File(s, j) = File(frames, j) /\ s[j].line = frames[j].line
  PROVE  Above(u, s) = Above(u, frames)
<1>1. \A j \in 1 .. Len(frames) - 1 :
        Taken(u, s, j, s[j].line - 2) = Taken(u, frames, j, frames[j].line - 2)
  BY DEF Taken
<1>. QED BY <1>1 DEF Above

\* one file more is above the innermost one
LEMMA AbovePush ==
  ASSUME TreeOK(tree), NEW u, IsUnfolding(u), NEW frames, NEW s, FramesOK(tree, s),
         NEW n \in Nat \ {0}, Len(frames) = n, Len(s) = n + 1,
         \A j \in 1 .. n : File(s, j) = File(frames, j),
         \A j \in 1 .. n - 1 : s[j].line = frames[j].line
  PROVE  Above(u, s) = Above(u, frames) \o Taken(u, frames, n, s[n].line - 2)
<1>1. PICK a : a = [j \in 1 .. n |-> Taken(u, s, j, s[j].line - 2)]
  OBVIOUS
<1>2. PICK b : b = [j \in 1 .. n - 1 |-> Taken(u, frames, j, frames[j].line - 2)]
  OBVIOUS
<1>3. \A j \in 1 .. n : Taken(u, s, j, s[j].line - 2) \in Seq(Entries)
  BY AboveParts
<1>4. a \in Seq(Seq(Entries)) /\ Len(a) = n
  <2>1. a \in Seq(Seq(Entries))
    BY <1>1, <1>3, IsASeq
  <2>. QED BY <1>1, <2>1
<1>5. \A j \in 1 .. n : Taken(u, s, j, s[j].line - 2) = Taken(u, frames, j, s[j].line - 2)
  BY DEF Taken
<1>6. \A j \in 1 .. n - 1 : b[j] = a[j] /\ b[j] \in Seq(Entries)
  BY <1>1, <1>2, <1>3, <1>5
<1>7. b \in Seq(Seq(Entries)) /\ Len(b) = n - 1
  <2>1. n - 1 \in Nat
    OBVIOUS
  <2>2. \A j \in 1 .. n - 1 : Taken(u, frames, j, frames[j].line - 2) \in Seq(Entries)
    BY <1>2, <1>6
  <2>3. b \in Seq(Seq(Entries))
    BY <1>2, <2>1, <2>2, IsASeq
  <2>. QED BY <1>2, <2>1, <2>3
<1>8. PICK x \in Seq(Entries) : x = a[n] /\ x = Taken(u, frames, n, s[n].line - 2)
  BY <1>1, <1>3, <1>5
<1>9. a = Append(b, x)
  <2>1. Append(b, x) \in Seq(Seq(Entries)) /\ Len(Append(b, x)) = n
        /\ Append(b, x)[n] = x /\ \A j \in 1 .. n - 1 : Append(b, x)[j] = b[j]
    BY <1>7, <1>8
  <2>2. \A j \in 1 .. n : j \in 1 .. n - 1 \/ j = n
    OBVIOUS
  <2>3. \A j \in 1 .. n : Append(b, x)[j] = a[j]
    BY <1>6, <1>8, <2>1, <2>2
  <2>. QED BY <1>4, <2>1, <2>3
<1>10. FlattenSeq(a) = FlattenSeq(b) \o x
  BY <1>7, <1>8, <1>9, FlatAppend
<1>11. Above(u, s) = FlattenSeq(a)
  <2>1. Len(s) - 1 = n
    OBVIOUS
  <2>. QED BY <1>1, <2>1 DEF Above
<1>12. Above(u, frames) = FlattenSeq(b)
  BY <1>2 DEF Above
<1>. QED BY <1>8, <1>10, <1>11, <1>12

-----------------------------------------------------------------------------
(* The rules of the first pieces of each source.                           *)

FromFiles(m) == FlattenSeq([i \in 1 .. m |-> Unfolded[Canonical(cli.filter_from[i])]])

FromLines(m) == Without(Nothing, [i \in 1 .. m |-> parse_filter_line(cli.filter[i])])

FromSides(s, m, include) ==
  FlattenSeq([i \in 1 .. m |-> SideLines(tree[Canonical(cli[s][i])], include)])

FromRegexes(s, m, include) ==
  [i \in 1 .. m |-> [syntax |-> "regex", original |-> cli[s][i].text, include |-> include]]

LEMMA RowNext ==
  ASSUME NEW S, NEW m \in Nat, NEW a \in Seq(S), Len(a) = m, NEW b \in Seq(S), Len(b) = m + 1,
         \A i \in 1 .. m : b[i] = a[i]
  PROVE  b = Append(a, b[m + 1])
<1>1. PICK x \in S : x = b[m + 1]
  OBVIOUS
<1>2. Append(a, x) \in Seq(S) /\ Len(Append(a, x)) = m + 1 /\ Append(a, x)[m + 1] = x
      /\ \A i \in 1 .. m : Append(a, x)[i] = a[i]
  OBVIOUS
<1>3. \A i \in 1 .. m + 1 : i \in 1 .. m \/ i = m + 1
  OBVIOUS
<1>4. \A i \in 1 .. m + 1 : Append(a, x)[i] = b[i]
  BY <1>1, <1>2, <1>3
<1>5. b = Append(a, x)
  BY <1>2, <1>4
<1>. QED BY <1>1, <1>5

LEMMA FromNone ==
  /\ FromFiles(0) = <<>> /\ FromLines(0) = <<>>
  /\ \A s, include : FromSides(s, 0, include) = <<>> /\ FromRegexes(s, 0, include) = <<>>
<1>1. \A f : DOMAIN f = 1 .. 0 /\ f = [i \in 1 .. 0 |-> f[i]] => f = <<>>
  OBVIOUS
<1>2. [i \in 1 .. 0 |-> Unfolded[Canonical(cli.filter_from[i])]] = <<>>
  BY <1>1
<1>3. [i \in 1 .. 0 |-> parse_filter_line(cli.filter[i])] = <<>>
  BY <1>1
<1>4. ASSUME NEW s, NEW include
      PROVE  /\ [i \in 1 .. 0 |-> SideLines(tree[Canonical(cli[s][i])], include)] = <<>>
             /\ FromRegexes(s, 0, include) = <<>>
  <2>1. [i \in 1 .. 0 |-> SideLines(tree[Canonical(cli[s][i])], include)] = <<>>
    BY <1>1
  <2>2. FromRegexes(s, 0, include) = <<>>
    BY <1>1 DEF FromRegexes
  <2>. QED BY <2>1, <2>2
<1>5. FromFiles(0) = <<>>
  BY <1>2, FlatNone DEF FromFiles
<1>6. FromLines(0) = <<>>
  BY <1>3, WithoutNone DEF FromLines
<1>7. \A s, include : FromSides(s, 0, include) = <<>>
  BY <1>4, FlatNone DEF FromSides
<1>. QED BY <1>4, <1>5, <1>6, <1>7

\* a sound file unfolds to lines
LEMMA SoundUnfolds ==
  ASSUME InputsOK, NEW i \in 1 .. Len(cli.filter_from), IsGood("filter_from", i)
  PROVE  /\ Canonical(cli.filter_from[i]) \in DOMAIN tree
         /\ Unfolded[Canonical(cli.filter_from[i])] \in Seq(Entries)
<1>1. PICK f : f = Canonical(cli.filter_from[i])
  OBVIOUS
<1>2. Sound(f)
  BY <1>1 DEF IsGood
<1>3. f \in Reach({f})
  BY ReachHas
<1>4. f \in DOMAIN tree
  BY <1>2, <1>3 DEF Sound, Faulty, NoLines, Refusals
<1>5. PICK u : IsUnfolding(u)
  BY InputsFacts, UnfoldFacts
<1>6. Deepest \in 0 .. Deepest /\ TreeOK(tree)
  BY InputsFacts, UnfoldFacts
<1>7. Unfolded = u[Deepest]
  BY <1>5 DEF IsUnfolding
<1>8. u[Deepest][f] \in Seq(Entries)
  BY <1>4, <1>5, <1>6, UnfoldType
<1>. QED BY <1>1, <1>4, <1>7, <1>8

LEMMA FilesType ==
  ASSUME InputsOK, NEW m \in Nat, m <= Len(cli.filter_from),
         \A i \in 1 .. m : IsGood("filter_from", i)
  PROVE  /\ [i \in 1 .. m |-> Unfolded[Canonical(cli.filter_from[i])]] \in Seq(Seq(Entries))
         /\ FromFiles(m) \in Seq(Entries)
<1>1. Len(cli.filter_from) \in Nat
  BY InputsFacts DEF OptionsOK
<1>2. \A i \in 1 .. m : i \in 1 .. Len(cli.filter_from)
  BY <1>1
<1>3. \A i \in 1 .. m : Unfolded[Canonical(cli.filter_from[i])] \in Seq(Entries)
  BY <1>2, SoundUnfolds
<1>4. [i \in 1 .. m |-> Unfolded[Canonical(cli.filter_from[i])]] \in Seq(Seq(Entries))
  BY <1>3, IsASeq
<1>. QED BY <1>4, FlatType DEF FromFiles

LEMMA FilesNext ==
  ASSUME InputsOK, NEW m \in Nat, m < Len(cli.filter_from),
         \A i \in 1 .. m + 1 : IsGood("filter_from", i)
  PROVE  FromFiles(m + 1) = FromFiles(m) \o Unfolded[Canonical(cli.filter_from[m + 1])]
<1>1. PICK a : a = [i \in 1 .. m |-> Unfolded[Canonical(cli.filter_from[i])]]
  OBVIOUS
<1>2. PICK b : b = [i \in 1 .. m + 1 |-> Unfolded[Canonical(cli.filter_from[i])]]
  OBVIOUS
<1>3. \A i \in 1 .. m : i \in 1 .. m + 1
  OBVIOUS
<1>4. m + 1 \in Nat /\ m + 1 <= Len(cli.filter_from) /\ m <= Len(cli.filter_from)
  <2>1. Len(cli.filter_from) \in Nat
    BY InputsFacts DEF OptionsOK
  <2>. QED BY <2>1
<1>5. a \in Seq(Seq(Entries)) /\ b \in Seq(Seq(Entries))
  BY <1>1, <1>2, <1>3, <1>4, FilesType
<1>6. Len(a) = m /\ Len(b) = m + 1
  BY <1>1, <1>2, <1>5
<1>7. \A i \in 1 .. m : b[i] = a[i]
  BY <1>1, <1>2, <1>3
<1>8. b = Append(a, b[m + 1])
  BY <1>5, <1>6, <1>7, RowNext
<1>9. b[m + 1] \in Seq(Entries) /\ b[m + 1] = Unfolded[Canonical(cli.filter_from[m + 1])]
  BY <1>2, <1>5, <1>6
<1>10. PICK x : x = b[m + 1]
  OBVIOUS
<1>11. FlattenSeq(Append(a, x)) = FlattenSeq(a) \o x
  BY <1>5, <1>9, <1>10, FlatAppend
<1>. QED BY <1>1, <1>2, <1>8, <1>9, <1>10, <1>11 DEF FromFiles

Said == {said \in Spoken : said.kind \in {"none", "rule", "clear"}}

LEMMA SaidAreEntries == \A said \in Said \ {Nothing} : said \in Entries
<1>. SUFFICES ASSUME NEW said \in Said \ {Nothing} PROVE said \in Entries
  OBVIOUS
<1>1. said \in Spoken /\ said.kind \in {"none", "rule", "clear"} /\ said # Nothing
  BY DEF Said
<1>2. IsSpoken(said)
  BY <1>1, LinesSpeak, SideLinesSpeak DEF Spoken
<1>3. said.kind # "none"
  BY <1>1, <1>2, SpokenKinds
<1>. QED BY <1>1, <1>3 DEF Entries

LEMMA GoodLine ==
  ASSUME InputsOK, NEW i \in 1 .. Len(cli.filter), IsGood("filter", i)
  PROVE  parse_filter_line(cli.filter[i]) \in Said
<1>1. cli.filter[i] \in TextLines
  BY InputsFacts DEF OptionsOK
<1>2. PICK said : said = parse_filter_line(cli.filter[i])
  OBVIOUS
<1>3. IsSpoken(said) /\ said \in Spoken
  BY <1>1, <1>2, LinesSpeak DEF Spoken
<1>4. said.kind \in {"none", "rule", "clear"}
  BY <1>2, <1>3, SpokenKinds DEF IsGood, Rejected
<1>. QED BY <1>2, <1>3, <1>4 DEF Said

LEMMA LinesType ==
  ASSUME InputsOK, NEW m \in Nat, m <= Len(cli.filter), \A i \in 1 .. m : IsGood("filter", i)
  PROVE  /\ [i \in 1 .. m |-> parse_filter_line(cli.filter[i])] \in Seq(Said)
         /\ FromLines(m) \in Seq(Entries)
<1>1. Len(cli.filter) \in Nat
  BY InputsFacts DEF OptionsOK
<1>2. \A i \in 1 .. m : i \in 1 .. Len(cli.filter)
  BY <1>1
<1>3. \A i \in 1 .. m : parse_filter_line(cli.filter[i]) \in Said
  BY <1>2, GoodLine
<1>4. [i \in 1 .. m |-> parse_filter_line(cli.filter[i])] \in Seq(Said)
  BY <1>3, IsASeq
<1>5. FromLines(m) \in Seq(Said \ {Nothing})
  BY <1>4, WithoutType DEF FromLines
<1>6. FromLines(m) \in Seq(Entries)
  <2>1. Said \ {Nothing} \subseteq Entries
    BY SaidAreEntries
  <2>. QED BY <1>5, <2>1, SeqInclusion
<1>. QED BY <1>4, <1>6

LEMMA LinesNext ==
  ASSUME InputsOK, NEW m \in Nat, m < Len(cli.filter), \A i \in 1 .. m + 1 : IsGood("filter", i),
         NEW said, said = parse_filter_line(cli.filter[m + 1])
  PROVE  FromLines(m + 1) =
           IF said = Nothing THEN FromLines(m) ELSE Append(FromLines(m), said)
<1>1. PICK a : a = [i \in 1 .. m |-> parse_filter_line(cli.filter[i])]
  OBVIOUS
<1>2. PICK b : b = [i \in 1 .. m + 1 |-> parse_filter_line(cli.filter[i])]
  OBVIOUS
<1>3. \A i \in 1 .. m : i \in 1 .. m + 1
  OBVIOUS
<1>4. m + 1 \in Nat /\ m + 1 <= Len(cli.filter) /\ m <= Len(cli.filter)
  <2>1. Len(cli.filter) \in Nat
    BY InputsFacts DEF OptionsOK
  <2>. QED BY <2>1
<1>5. a \in Seq(Said) /\ b \in Seq(Said)
  BY <1>1, <1>2, <1>3, <1>4, LinesType
<1>6. Len(a) = m /\ Len(b) = m + 1
  BY <1>1, <1>2, <1>5
<1>7. \A i \in 1 .. m : b[i] = a[i]
  BY <1>1, <1>2, <1>3
<1>8. b = Append(a, b[m + 1])
  BY <1>5, <1>6, <1>7, RowNext
<1>9. said \in Said /\ b = Append(a, said)
  <2>1. m + 1 \in 1 .. m + 1
    OBVIOUS
  <2>2. b[m + 1] = said
    BY <1>2, <2>1
  <2>3. b[m + 1] \in Said
    BY <1>5, <1>6, <2>1
  <2>. QED BY <1>8, <2>2, <2>3
<1>10. PICK c : c = Nothing
  OBVIOUS
<1>11. Without(c, Append(a, said)) =
         IF said = c THEN Without(c, a) ELSE Append(Without(c, a), said)
  <2>1. a \in Seq(Said) /\ said \in Said
    BY <1>5, <1>9
  <2>2. PICK S : S = Said
    OBVIOUS
  <2>3. a \in Seq(S) /\ said \in S
    BY <2>1, <2>2
  <2>4. CASE said = c
    BY <2>3, <2>4, WithoutAppend
  <2>5. CASE said # c
    BY <2>3, <2>5, WithoutAppend
  <2>. QED BY <2>4, <2>5
<1>. QED BY <1>1, <1>2, <1>9, <1>10, <1>11 DEF FromLines

IsSideSource(s, include) == \/ s = "include_from" /\ include = TRUE
                            \/ s = "exclude_from" /\ include = FALSE

LEMMA GoodSide ==
  ASSUME InputsOK, NEW s, NEW include, IsSideSource(s, include),
         NEW i \in 1 .. Len(cli[s]), IsGood(s, i)
  PROVE  SideLines(tree[Canonical(cli[s][i])], include) \in Seq(Entries)
<1>1. PICK f : f = Canonical(cli[s][i])
  OBVIOUS
<1>2. \A refusal \in Refusals : ~FaultySide(f, include, refusal)
  <2>1. CASE s = "include_from" /\ include = TRUE
    BY <1>1, <2>1 DEF IsGood
  <2>2. CASE s = "exclude_from" /\ include = FALSE
    BY <1>1, <2>2 DEF IsGood
  <2>. QED BY <2>1, <2>2 DEF IsSideSource
<1>3. f \in DOMAIN tree /\ \A line \in ToSet(tree[f]) : ParseSideLine(line, include) # Invalid
  <2>1. /\ ~FaultySide(f, include, "not_found") /\ ~FaultySide(f, include, "unreadable")
        /\ ~FaultySide(f, include, "invalid")
    BY <1>2 DEF Refusals
  <2>2. f \in DOMAIN tree /\ IsText(tree[f])
    BY <2>1 DEF FaultySide, NoLines
  <2>. QED BY <2>1, <2>2 DEF FaultySide, LinesOf
<1>4. tree[f] \in Seq(TextLines)
  BY <1>3, InputsFacts DEF TreeOK
<1>5. PICK lines \in Seq(TextLines) : lines = tree[f]
  BY <1>4
<1>6. \A k \in DOMAIN lines : ParseSideLine(lines[k], include) # Invalid
  BY <1>3, <1>5 DEF ToSet
<1>7. include \in BOOLEAN
  BY DEF IsSideSource
<1>8. SideLines(lines, include) \in Seq(Entries)
  BY <1>6, <1>7, SideLinesType
<1>. QED BY <1>1, <1>5, <1>8

LEMMA SidesType ==
  ASSUME InputsOK, NEW s, NEW include, IsSideSource(s, include),
         NEW m \in Nat, m <= Len(cli[s]), \A i \in 1 .. m : IsGood(s, i)
  PROVE  /\ [i \in 1 .. m |-> SideLines(tree[Canonical(cli[s][i])], include)] \in Seq(Seq(Entries))
         /\ FromSides(s, m, include) \in Seq(Entries)
<1>1. Len(cli[s]) \in Nat
  <2>1. s \in ToSet(Sources)
    BY SourceSet DEF IsSideSource
  <2>. QED BY <2>1, InputsFacts, SourceLengths
<1>2. \A i \in 1 .. m : i \in 1 .. Len(cli[s])
  BY <1>1
<1>3. \A i \in 1 .. m : SideLines(tree[Canonical(cli[s][i])], include) \in Seq(Entries)
  BY <1>2, GoodSide
<1>4. [i \in 1 .. m |-> SideLines(tree[Canonical(cli[s][i])], include)] \in Seq(Seq(Entries))
  BY <1>3, IsASeq
<1>. QED BY <1>4, FlatType DEF FromSides

LEMMA SidesNext ==
  ASSUME InputsOK, NEW s, NEW include, IsSideSource(s, include),
         NEW m \in Nat, m < Len(cli[s]), \A i \in 1 .. m + 1 : IsGood(s, i)
  PROVE  FromSides(s, m + 1, include) =
           FromSides(s, m, include) \o SideLines(tree[Canonical(cli[s][m + 1])], include)
<1>1. PICK a : a = [i \in 1 .. m |-> SideLines(tree[Canonical(cli[s][i])], include)]
  OBVIOUS
<1>2. PICK b : b = [i \in 1 .. m + 1 |-> SideLines(tree[Canonical(cli[s][i])], include)]
  OBVIOUS
<1>3. \A i \in 1 .. m : i \in 1 .. m + 1
  OBVIOUS
<1>4. m + 1 \in Nat /\ m + 1 <= Len(cli[s]) /\ m <= Len(cli[s])
  <2>1. s \in ToSet(Sources)
    BY SourceSet DEF IsSideSource
  <2>2. Len(cli[s]) \in Nat
    BY <2>1, InputsFacts, SourceLengths
  <2>. QED BY <2>2
<1>5. a \in Seq(Seq(Entries)) /\ b \in Seq(Seq(Entries))
  BY <1>1, <1>2, <1>3, <1>4, SidesType
<1>6. Len(a) = m /\ Len(b) = m + 1
  BY <1>1, <1>2, <1>5
<1>7. \A i \in 1 .. m : b[i] = a[i]
  BY <1>1, <1>2, <1>3
<1>8. b = Append(a, b[m + 1])
  BY <1>5, <1>6, <1>7, RowNext
<1>9. b[m + 1] \in Seq(Entries)
      /\ b[m + 1] = SideLines(tree[Canonical(cli[s][m + 1])], include)
  BY <1>2, <1>5, <1>6
<1>10. PICK x : x = b[m + 1]
  OBVIOUS
<1>11. FlattenSeq(Append(a, x)) = FlattenSeq(a) \o x
  BY <1>5, <1>9, <1>10, FlatAppend
<1>. QED BY <1>1, <1>2, <1>8, <1>9, <1>10, <1>11 DEF FromSides

LEMMA RegexesType ==
  ASSUME InputsOK, NEW s \in {"regex_includes", "regex_excludes"}, NEW include \in BOOLEAN,
         NEW m \in Nat, m <= Len(cli[s])
  PROVE  FromRegexes(s, m, include) \in Seq(RuleSet)
<1>1. cli[s] \in Seq(RegexTexts)
  <2>1. CASE s = "regex_includes"
    BY <2>1, InputsFacts DEF OptionsOK
  <2>2. CASE s = "regex_excludes"
    BY <2>2, InputsFacts DEF OptionsOK
  <2>. QED BY <2>1, <2>2
<1>2. ASSUME NEW i \in 1 .. m
      PROVE  [syntax |-> "regex", original |-> cli[s][i].text, include |-> include] \in RuleSet
  <2>1. cli[s][i] \in RegexTexts
    <3>1. i \in 1 .. Len(cli[s])
      BY <1>1
    <3>. QED BY <1>1, <3>1
  <2>2. PICK text \in Seq(Chars) : text = cli[s][i].text
    BY <2>1 DEF RegexTexts
  <2>3. [syntax |-> "regex", original |-> text, include |-> include] \in RegexSet
    BY DEF RegexSet
  <2>. QED BY <2>2, <2>3 DEF RuleSet
<1>. QED BY <1>2, IsASeq DEF FromRegexes

LEMMA RegexesNext ==
  ASSUME InputsOK, NEW s \in {"regex_includes", "regex_excludes"}, NEW include \in BOOLEAN,
         NEW m \in Nat, m < Len(cli[s])
  PROVE  FromRegexes(s, m + 1, include) =
           Append(FromRegexes(s, m, include),
                  [syntax |-> "regex", original |-> cli[s][m + 1].text, include |-> include])
<1>1. PICK a, b : a = FromRegexes(s, m, include) /\ b = FromRegexes(s, m + 1, include)
  OBVIOUS
<1>2. m + 1 \in Nat /\ m + 1 <= Len(cli[s]) /\ m <= Len(cli[s])
  <2>1. s \in ToSet(Sources)
    BY SourceSet
  <2>2. Len(cli[s]) \in Nat
    BY <2>1, InputsFacts, SourceLengths
  <2>. QED BY <2>2
<1>3. a \in Seq(RuleSet) /\ b \in Seq(RuleSet)
  BY <1>1, <1>2, RegexesType
<1>4. Len(a) = m /\ Len(b) = m + 1
  BY <1>1, <1>2, <1>3 DEF FromRegexes
<1>5. \A i \in 1 .. m : b[i] = a[i]
  BY <1>1 DEF FromRegexes
<1>6. b = Append(a, b[m + 1])
  BY <1>3, <1>4, <1>5, RowNext
<1>7. b[m + 1] = [syntax |-> "regex", original |-> cli[s][m + 1].text, include |-> include]
  BY <1>1 DEF FromRegexes
<1>. QED BY <1>1, <1>6, <1>7

-----------------------------------------------------------------------------
(* The rules when piece n of source p is next.                             *)

Count(s, p, n) == IF Rank(s) < Rank(p) THEN Len(cli[s]) ELSE IF s = p THEN n - 1 ELSE 0

LinePart(s, m) == CASE s = "filter_from"  -> FromFiles(m)
                    [] s = "filter"       -> FromLines(m)
                    [] s = "include_from" -> FromSides(s, m, TRUE)
                    [] s = "exclude_from" -> FromSides(s, m, FALSE)

LinesAt(p, n) ==
  ((LinePart("filter_from", Count("filter_from", p, n)) \o LinePart("filter", Count("filter", p, n)))
    \o LinePart("include_from", Count("include_from", p, n)))
    \o LinePart("exclude_from", Count("exclude_from", p, n))

RulesAt(p, n) ==
  (Uncleared(LinesAt(p, n)) \o FromRegexes("regex_includes", Count("regex_includes", p, n), TRUE))
    \o FromRegexes("regex_excludes", Count("regex_excludes", p, n), FALSE)

LEMMA CountFacts ==
  ASSUME LInv, PiecesGood, pc \notin Refusals, NEW s \in ToSet(Sources)
  PROVE  /\ Count(s, pc, next) \in Nat /\ Count(s, pc, next) <= Len(cli[s])
         /\ \A i \in 1 .. Count(s, pc, next) : IsGood(s, i)
<1>1. Len(cli[s]) \in Nat
  BY InputsFacts, SourceLengths DEF LInv
<1>2. CASE Rank(s) < Rank(pc)
  <2>1. Count(s, pc, next) = Len(cli[s])
    BY <1>2 DEF Count
  <2>2. \A i \in 1 .. Len(cli[s]) : IsGood(s, i)
    BY <1>2 DEF PiecesGood
  <2>. QED BY <1>1, <2>1, <2>2
<1>3. CASE ~(Rank(s) < Rank(pc)) /\ s = pc
  <2>1. Count(s, pc, next) = next - 1
    BY <1>3 DEF Count
  <2>2. next \in 1 .. Len(cli[s]) + 1
    BY <1>3 DEF LInv
  <2>3. next - 1 \in Nat /\ next - 1 <= Len(cli[s])
    BY <1>1, <2>2
  <2>4. \A i \in 1 .. next - 1 : i \in 1 .. Len(cli[s]) /\ i < next
    BY <1>1, <2>2
  <2>5. \A i \in 1 .. next - 1 : IsGood(s, i)
    BY <1>3, <2>4 DEF PiecesGood
  <2>. QED BY <2>1, <2>3, <2>5
<1>4. CASE ~(Rank(s) < Rank(pc)) /\ s # pc
  BY <1>1, <1>4 DEF Count
<1>. QED BY <1>2, <1>3, <1>4

LineSources == {"filter_from", "filter", "include_from", "exclude_from"}

LEMMA LinePartType ==
  ASSUME InputsOK, NEW s \in LineSources, NEW m \in Nat, m <= Len(cli[s]),
         \A i \in 1 .. m : IsGood(s, i)
  PROVE  LinePart(s, m) \in Seq(Entries)
<1>1. CASE s = "filter_from"
  BY <1>1, FilesType DEF LinePart
<1>2. CASE s = "filter"
  BY <1>2, LinesType DEF LinePart
<1>3. CASE s = "include_from"
  <2>1. IsSideSource(s, TRUE)
    BY <1>3 DEF IsSideSource
  <2>2. FromSides(s, m, TRUE) \in Seq(Entries)
    BY <2>1, SidesType
  <2>. QED BY <1>3, <2>2 DEF LinePart
<1>4. CASE s = "exclude_from"
  <2>1. IsSideSource(s, FALSE)
    BY <1>4 DEF IsSideSource
  <2>2. FromSides(s, m, FALSE) \in Seq(Entries)
    BY <2>1, SidesType
  <2>. QED BY <1>4, <2>2 DEF LinePart
<1>. QED BY <1>1, <1>2, <1>3, <1>4 DEF LineSources

LEMMA LinePartNone == \A s \in LineSources : LinePart(s, 0) = <<>>
<1>. SUFFICES ASSUME NEW s \in LineSources PROVE LinePart(s, 0) = <<>>
  OBVIOUS
<1>1. CASE s = "filter_from"
  BY <1>1, FromNone DEF LinePart
<1>2. CASE s = "filter"
  BY <1>2, FromNone DEF LinePart
<1>3. CASE s = "include_from"
  BY <1>3, FromNone DEF LinePart
<1>4. CASE s = "exclude_from"
  BY <1>4, FromNone DEF LinePart
<1>. QED BY <1>1, <1>2, <1>3, <1>4 DEF LineSources

LEMMA PartsType ==
  ASSUME LInv, PiecesGood, pc \notin Refusals
  PROVE  /\ \A s \in LineSources : LinePart(s, Count(s, pc, next)) \in Seq(Entries)
         /\ LinesAt(pc, next) \in Seq(Entries)
<1>1. ASSUME NEW s \in LineSources PROVE LinePart(s, Count(s, pc, next)) \in Seq(Entries)
  <2>1. s \in ToSet(Sources)
    BY SourceSet DEF LineSources
  <2>2. PICK m : m = Count(s, pc, next)
    OBVIOUS
  <2>3. m \in Nat /\ m <= Len(cli[s]) /\ \A i \in 1 .. m : IsGood(s, i)
    BY <2>1, <2>2, CountFacts
  <2>4. LinePart(s, m) \in Seq(Entries)
    BY <2>3, LinePartType DEF LInv
  <2>. QED BY <2>2, <2>4
<1>2. PICK a, b, c, d : /\ a = LinePart("filter_from", Count("filter_from", pc, next))
                        /\ b = LinePart("filter", Count("filter", pc, next))
                        /\ c = LinePart("include_from", Count("include_from", pc, next))
                        /\ d = LinePart("exclude_from", Count("exclude_from", pc, next))
  OBVIOUS
<1>3. a \in Seq(Entries) /\ b \in Seq(Entries) /\ c \in Seq(Entries) /\ d \in Seq(Entries)
  BY <1>1, <1>2 DEF LineSources
<1>4. ((a \o b) \o c) \o d \in Seq(Entries)
  BY <1>3
<1>. QED BY <1>1, <1>2, <1>4 DEF LinesAt

\* what the parts of the sources that are not reached yet are
LEMMA LaterCounts ==
  ASSUME NEW n
  PROVE  /\ /\ Count("filter_from", "filter_from", n) = n - 1
            /\ Count("filter", "filter_from", n) = 0
            /\ Count("include_from", "filter_from", n) = 0
            /\ Count("exclude_from", "filter_from", n) = 0
         /\ /\ Count("filter_from", "filter", n) = Len(cli.filter_from)
            /\ Count("filter", "filter", n) = n - 1
            /\ Count("include_from", "filter", n) = 0
            /\ Count("exclude_from", "filter", n) = 0
         /\ /\ Count("filter_from", "include_from", n) = Len(cli.filter_from)
            /\ Count("filter", "include_from", n) = Len(cli.filter)
            /\ Count("include_from", "include_from", n) = n - 1
            /\ Count("exclude_from", "include_from", n) = 0
         /\ /\ Count("filter_from", "exclude_from", n) = Len(cli.filter_from)
            /\ Count("filter", "exclude_from", n) = Len(cli.filter)
            /\ Count("include_from", "exclude_from", n) = Len(cli.include_from)
            /\ Count("exclude_from", "exclude_from", n) = n - 1
BY DEF Count, Rank

LEMMA LaterRegexCounts ==
  ASSUME NEW n
  PROVE  /\ \A p \in LineSources : /\ Count("regex_includes", p, n) = 0
                                   /\ Count("regex_excludes", p, n) = 0
         /\ Count("regex_includes", "regex_includes", n) = n - 1
         /\ Count("regex_excludes", "regex_includes", n) = 0
         /\ Count("regex_includes", "regex_excludes", n) = Len(cli.regex_includes)
         /\ Count("regex_excludes", "regex_excludes", n) = n - 1
BY DEF Count, Rank, LineSources

\* one piece of a source of lines more
LEMMA LinesGrow ==
  ASSUME LInv, PiecesGood, pc \in LineSources, NEW more \in Seq(Entries),
         LinePart(pc, next) = LinePart(pc, next - 1) \o more
  PROVE  LinesAt(pc, next + 1) = LinesAt(pc, next) \o more
<1>1. PICK n : n = next /\ (n + 1) - 1 = n
  <2>1. pc \in ToSet(Sources) /\ Len(cli[pc]) \in Nat
    BY SourceSet, InputsFacts, SourceLengths DEF LInv, LineSources
  <2>2. next \in Nat
    BY <2>1 DEF LInv
  <2>. QED BY <2>2
<1>2. \A s \in LineSources : LinePart(s, Count(s, pc, n)) \in Seq(Entries)
  <2>1. pc \notin Refusals
    BY DEF LineSources, Refusals
  <2>. QED BY <1>1, <2>1, PartsType
<1>3. LinePart("filter", 0) = <<>> /\ LinePart("include_from", 0) = <<>>
      /\ LinePart("exclude_from", 0) = <<>>
  BY LinePartNone DEF LineSources
<1>4. CASE pc = "filter_from"
  <2>1. PICK a : a = LinePart("filter_from", n - 1) /\ a \in Seq(Entries)
    BY <1>2, <1>4, LaterCounts DEF LineSources
  <2>2. LinesAt(pc, n) = ((a \o <<>>) \o <<>>) \o <<>>
    BY <1>3, <1>4, <2>1, LaterCounts DEF LinesAt
  <2>3. LinesAt(pc, n + 1) = (((a \o more) \o <<>>) \o <<>>) \o <<>>
    BY <1>1, <1>3, <1>4, <2>1, LaterCounts DEF LinesAt
  <2>4. (((a \o more) \o <<>>) \o <<>>) \o <<>> = (((a \o <<>>) \o <<>>) \o <<>>) \o more
    <3>1. a \in Seq(Entries) /\ a \o more \in Seq(Entries)
      BY <2>1, ConcatType
    <3>2. a \o <<>> = a /\ (a \o more) \o <<>> = a \o more
      BY <3>1, ConcatNone
    <3>. QED BY <3>2
  <2>. QED BY <1>1, <2>2, <2>3, <2>4
<1>5. CASE pc = "filter"
  <2>1. PICK a, b : /\ a = LinePart("filter_from", Len(cli.filter_from)) /\ a \in Seq(Entries)
                    /\ b = LinePart("filter", n - 1) /\ b \in Seq(Entries)
    BY <1>2, <1>5, LaterCounts DEF LineSources
  <2>2. LinesAt(pc, n) = ((a \o b) \o <<>>) \o <<>>
    BY <1>3, <1>5, <2>1, LaterCounts DEF LinesAt
  <2>3. LinesAt(pc, n + 1) = ((a \o (b \o more)) \o <<>>) \o <<>>
    BY <1>1, <1>3, <1>5, <2>1, LaterCounts DEF LinesAt
  <2>4. ((a \o (b \o more)) \o <<>>) \o <<>> = (((a \o b) \o <<>>) \o <<>>) \o more
    <3>1. a \in Seq(Entries) /\ b \in Seq(Entries)
      BY <2>1
    <3>2. a \o b \in Seq(Entries) /\ (a \o b) \o more \in Seq(Entries)
      BY <3>1, ConcatType
    <3>3. a \o (b \o more) = (a \o b) \o more
      BY <3>1, ConcatAssoc
    <3>4. (a \o b) \o <<>> = a \o b /\ ((a \o b) \o more) \o <<>> = (a \o b) \o more
      BY <3>2, ConcatNone
    <3>. QED BY <3>3, <3>4
  <2>. QED BY <1>1, <2>2, <2>3, <2>4
<1>6. CASE pc = "include_from"
  <2>1. PICK a, b, c : /\ a = LinePart("filter_from", Len(cli.filter_from)) /\ a \in Seq(Entries)
                       /\ b = LinePart("filter", Len(cli.filter)) /\ b \in Seq(Entries)
                       /\ c = LinePart("include_from", n - 1) /\ c \in Seq(Entries)
    BY <1>2, <1>6, LaterCounts DEF LineSources
  <2>2. LinesAt(pc, n) = ((a \o b) \o c) \o <<>>
    BY <1>3, <1>6, <2>1, LaterCounts DEF LinesAt
  <2>3. LinesAt(pc, n + 1) = ((a \o b) \o (c \o more)) \o <<>>
    BY <1>1, <1>3, <1>6, <2>1, LaterCounts DEF LinesAt
  <2>4. ((a \o b) \o (c \o more)) \o <<>> = (((a \o b) \o c) \o <<>>) \o more
    <3>. DEFINE ab == a \o b
    <3>1. ab \in Seq(Entries) /\ c \in Seq(Entries)
      BY <2>1, ConcatType
    <3>. HIDE DEF ab
    <3>2. ab \o c \in Seq(Entries) /\ (ab \o c) \o more \in Seq(Entries)
      BY <3>1, ConcatType
    <3>3. ab \o (c \o more) = (ab \o c) \o more
      BY <3>1, ConcatAssoc
    <3>4. (ab \o c) \o <<>> = ab \o c /\ ((ab \o c) \o more) \o <<>> = (ab \o c) \o more
      BY <3>2, ConcatNone
    <3>. QED BY <3>3, <3>4 DEF ab
  <2>. QED BY <1>1, <2>2, <2>3, <2>4
<1>7. CASE pc = "exclude_from"
  <2>1. PICK a, b, c, d :
          /\ a = LinePart("filter_from", Len(cli.filter_from)) /\ a \in Seq(Entries)
          /\ b = LinePart("filter", Len(cli.filter)) /\ b \in Seq(Entries)
          /\ c = LinePart("include_from", Len(cli.include_from)) /\ c \in Seq(Entries)
          /\ d = LinePart("exclude_from", n - 1) /\ d \in Seq(Entries)
    BY <1>2, <1>7, LaterCounts DEF LineSources
  <2>2. LinesAt(pc, n) = ((a \o b) \o c) \o d
    BY <1>7, <2>1, LaterCounts DEF LinesAt
  <2>3. LinesAt(pc, n + 1) = ((a \o b) \o c) \o (d \o more)
    BY <1>1, <1>7, <2>1, LaterCounts DEF LinesAt
  <2>4. ((a \o b) \o c) \o (d \o more) = (((a \o b) \o c) \o d) \o more
    <3>1. a \o b \in Seq(Entries) /\ c \in Seq(Entries) /\ d \in Seq(Entries)
      BY <2>1, ConcatType
    <3>2. (a \o b) \o c \in Seq(Entries)
      BY <3>1, ConcatType
    <3>3. PICK before \in Seq(Entries), last \in Seq(Entries), new \in Seq(Entries) :
            before = (a \o b) \o c /\ last = d /\ new = more
      BY <3>1, <3>2
    <3>4. before \o (last \o new) = (before \o last) \o new
      BY ConcatAssoc, SMTT(30)
    <3>. QED BY <3>3, <3>4
  <2>. QED BY <1>1, <2>2, <2>3, <2>4
<1>. QED BY <1>4, <1>5, <1>6, <1>7 DEF LineSources

LEMMA RulesAreLines ==
  ASSUME NEW p \in LineSources, NEW n, LinesAt(p, n) \in Seq(Entries)
  PROVE  RulesAt(p, n) = Uncleared(LinesAt(p, n))
<1>1. PICK x : x = Uncleared(LinesAt(p, n)) /\ x \in Seq(RuleSet)
  BY UnclearedType
<1>2. RulesAt(p, n) = (x \o <<>>) \o <<>>
  BY <1>1, FromNone, LaterRegexCounts DEF RulesAt
<1>3. (x \o <<>>) \o <<>> = x
  BY <1>1
<1>. QED BY <1>1, <1>2, <1>3

LEMMA RulesGrow ==
  ASSUME LInv, PiecesGood, pc \in LineSources, NEW more \in Seq(Entries),
         LinePart(pc, next) = LinePart(pc, next - 1) \o more
  PROVE  /\ RulesAt(pc, next) = Uncleared(LinesAt(pc, next))
         /\ LinesAt(pc, next) \in Seq(Entries)
         /\ RulesAt(pc, next + 1) = Uncleared(LinesAt(pc, next) \o more)
         /\ RulesAt(pc, next + 1) = Collected(RulesAt(pc, next), more)
<1>1. pc \notin Refusals
  BY DEF LineSources, Refusals
<1>2. PICK lines \in Seq(Entries) : lines = LinesAt(pc, next)
  BY <1>1, PartsType
<1>3. LinesAt(pc, next + 1) = lines \o more
  BY <1>2, LinesGrow
<1>4. lines \o more \in Seq(Entries)
  BY <1>2
<1>5. RulesAt(pc, next) = Uncleared(lines)
  BY <1>2, RulesAreLines
<1>6. RulesAt(pc, next + 1) = Uncleared(lines \o more)
  BY <1>3, <1>4, RulesAreLines
<1>7. Collected(Uncleared(lines), more) = Uncleared(lines \o more)
  BY CollectedUncleared
<1>. QED BY <1>2, <1>5, <1>6, <1>7

\* what is read next changes, the pieces that were read do not
LEMMA SameRules ==
  ASSUME tree' = tree, cli' = cli, NEW p, p = pc', NEW n, n = next'
  PROVE  RulesAt(pc, next)' = RulesAt(p, n)
<1>1. Unfolded' = Unfolded
  BY DEF Unfolded, Piece
<1>2. \A m : FromFiles(m)' = FromFiles(m) /\ FromLines(m)' = FromLines(m)
  BY <1>1 DEF FromFiles, FromLines
<1>3. \A s, m, include : /\ FromSides(s, m, include)' = FromSides(s, m, include)
                         /\ FromRegexes(s, m, include)' = FromRegexes(s, m, include)
  BY DEF FromSides, FromRegexes
<1>4. \A s, m : LinePart(s, m)' = LinePart(s, m)
  BY <1>2, <1>3 DEF LinePart
<1>5. \A s, q, m : Count(s, q, m)' = Count(s, q, m)
  BY DEF Count
<1>6. \A q, m : LinesAt(q, m)' = LinesAt(q, m)
  BY <1>4, <1>5 DEF LinesAt
<1>7. RulesAt(p, n)' = RulesAt(p, n)
  BY <1>3, <1>5, <1>6 DEF RulesAt
<1>8. RulesAt(pc, next)' = RulesAt(p, n)'
  BY DEF RulesAt, LinesAt, Count, LinePart, FromFiles, FromLines, FromSides, FromRegexes
<1>. QED BY <1>7, <1>8

-----------------------------------------------------------------------------
(* The rules are those of the pieces read so far.                          *)

LoadedOK(frames, lines) ==
  frames # <<>> => \A u : IsUnfolding(u) => lines = SoFar(u, frames)

UInv ==
  /\ CInv
  /\ pc \notin Refusals => rules = RulesAt(pc, next) /\ LoadedOK(open, loaded)

LEMMA LoadedNext ==
  ASSUME tree' = tree, NEW s, s = open', NEW l, l = loaded', LoadedOK(s, l)
  PROVE  LoadedOK(open, loaded)'
<1>1. \A merged, f : Pieces(merged, f)' = Pieces(merged, f)
  BY DEF Pieces, Piece
<1>2. Deepest' = Deepest /\ Merged' = Merged
  BY DEF Deepest, Merged
<1>3. Unfolded' = Unfolded
  BY DEF Unfolded, Piece
<1>4. \A u : IsUnfolding(u)' <=> IsUnfolding(u)
  BY <1>1, <1>2, <1>3 DEF IsUnfolding
<1>5. \A u, frames, j, m : Taken(u, frames, j, m)' = Taken(u, frames, j, m)
  BY <1>1, <1>2 DEF Taken
<1>6. \A u, frames : Above(u, frames)' = Above(u, frames)
  BY <1>5 DEF Above
<1>7. \A u, frames : SoFar(u, frames)' = SoFar(u, frames)
  BY <1>5, <1>6 DEF SoFar
<1>8. s # <<>> => \A u : IsUnfolding(u)' => l = SoFar(u, s)'
  BY <1>4, <1>7 DEF LoadedOK
<1>. QED BY <1>8 DEF LoadedOK, SoFar, Above, Taken

LEMMA UFailed == ASSUME CInv', NEW refusal \in Refusals, Fail(refusal) PROVE UInv'
<1>1. pc' \in Refusals /\ Refusals' = Refusals
  BY DEF Fail, Refusals
<1>. QED BY <1>1 DEF UInv

LEMMA URefuse == ASSUME CInv', NEW path, Refuse(path) PROVE UInv'
BY RefuseFails, UFailed DEF Refusals

LEMMA UOpenFile == UInv /\ OpenFile => UInv'
<1>. SUFFICES ASSUME UInv, OpenFile PROVE UInv'
  OBVIOUS
<1>1. CInv /\ CInv' /\ LInv /\ pc = "filter_from" /\ pc \notin Refusals /\ open = <<>>
  BY COpenFile DEF UInv, CInv, OpenFile, Refusals
<1>2. PICK path : path = cli.filter_from[next]
  OBVIOUS
<1>3. CASE Refused(path)
  BY <1>1, <1>2, <1>3, URefuse DEF OpenFile
<1>4. CASE ~Refused(path)
  <2>1. /\ open' = Append(<<>>, [path |-> path, line |-> 1])
        /\ UNCHANGED <<tree, cli, pc, next, loaded, rules>>
    BY <1>2, <1>4 DEF OpenFile, Enter, inputs
  <2>2. PICK s : s = open'
    OBVIOUS
  <2>3. Len(s) = 1 /\ s[1].line = 1
    <3>1. s = <<[path |-> path, line |-> 1]>>
      BY <2>1, <2>2
    <3>. QED BY <3>1
  <2>4. TreeOK(tree) /\ FramesOK(tree, s)
    <3>1. FramesOK(tree', s)
      BY <1>1, <2>2 DEF CInv, LInv
    <3>. QED BY <1>1, <2>1, <3>1, InputsFacts DEF LInv
  <2>5. loaded = <<>> /\ rules = RulesAt(pc, next)
    BY <1>1 DEF LInv, UInv
  <2>6. ASSUME NEW u, IsUnfolding(u) PROVE SoFar(u, s) = <<>>
    <3>1. Taken(u, s, 1, 0) = <<>>
      BY <2>3, <2>4, <2>6, TakenNone
    <3>2. PICK a : a = [j \in 1 .. 0 |-> Taken(u, s, j, s[j].line - 2)]
      OBVIOUS
    <3>3. a = <<>>
      BY <3>2
    <3>4. Above(u, s) = <<>>
      <4>1. Len(s) - 1 = 0
        BY <2>3
      <4>. QED BY <3>2, <3>3, <4>1, FlatNone DEF Above
    <3>5. Len(s) = 1 /\ s[Len(s)].line - 1 = 0
      BY <2>3
    <3>. QED BY <3>1, <3>4, <3>5 DEF SoFar
  <2>7. LoadedOK(s, loaded)
    BY <2>5, <2>6 DEF LoadedOK
  <2>8. LoadedOK(open, loaded)'
    BY <2>1, <2>2, <2>7, LoadedNext
  <2>9. RulesAt(pc, next)' = RulesAt(pc, next)
    BY <2>1, SameRules
  <2>. QED BY <1>1, <2>1, <2>5, <2>8, <2>9 DEF UInv
<1>. QED BY <1>3, <1>4

\* one line of the innermost file more
LEMMA SoFarStepped ==
  ASSUME LInv, AtLine, NEW u, IsUnfolding(u),
         NEW merged, merged = u[Deepest - Len(open)],
         NEW line, line = LineAt(tree, open, Len(open), Frame.line)
  PROVE  /\ SoFar(u, open) \in Seq(Entries)
         /\ SoFar(u, Stepped) = SoFar(u, open) \o Piece(merged, File(open, Len(open)), line)
         /\ Piece(merged, File(open, Len(open)), line) \in Seq(Entries)
<1>1. Reading /\ Frame.line <= Len(Lines)
  BY DEF AtLine
<1>2. /\ TreeOK(tree) /\ FramesOK(tree, open) /\ Frame = open[Len(open)] /\ Frame.line \in Nat \ {0}
      /\ Len(open) \in 1 .. Len(open) /\ open # <<>> /\ Lines = tree[File(open, Len(open))]
  BY <1>1, ReadingFacts DEF LInv
<1>3. PICK s, n : s = Stepped /\ n = Len(open)
  OBVIOUS
<1>4. PICK m \in Nat : m = Frame.line - 1 /\ m + 1 = Frame.line
  BY <1>2
<1>5. m < Len(tree[File(open, n)]) /\ m \in 0 .. Len(tree[File(open, n)])
  BY <1>1, <1>2, <1>3, <1>4, FrameTypes
<1>6. /\ Len(s) = n
      /\ \A k \in 1 .. n : /\ File(s, k) = File(open, k)
                           /\ s[k].line = IF k = n THEN open[k].line + 1 ELSE open[k].line
  BY <1>3, SteppedOK
<1>7. Taken(u, open, n, m) \in Seq(Entries) /\ Above(u, open) \in Seq(Entries)
  BY <1>2, <1>3, <1>5, TakenType, AboveType
<1>8. Taken(u, open, n, m + 1) = Taken(u, open, n, m) \o Piece(merged, File(open, n), line)
  <2>1. Taken(u, open, n, m + 1) =
          Taken(u, open, n, m) \o Piece(u[Deepest - n], File(open, n), LineAt(tree, open, n, m + 1))
    BY <1>2, <1>3, <1>5, TakenNext
  <2>. QED BY <1>3, <1>4, <2>1
<1>9. Piece(merged, File(open, n), line) \in Seq(Entries)
  <2>1. merged \in Merged
    BY <1>2, <1>3, TakenPieces
  <2>2. line \in TextLines
    <3>1. Lines[Frame.line] \in TextLines
      BY AtLineFacts
    <3>. QED BY <1>2, <3>1 DEF LineAt
  <2>. QED BY <2>1, <2>2, PieceType
<1>10. Above(u, s) = Above(u, open)
  <2>1. \A j \in 1 .. n - 1 : j \in 1 .. n /\ j # n
    BY <1>2, <1>3
  <2>2. \A j \in 1 .. n - 1 : File(s, j) = File(open, j) /\ s[j].line = open[j].line
    BY <1>6, <2>1
  <2>. QED BY <1>3, <1>6, <2>2, AboveSame
<1>11. Taken(u, s, n, s[n].line - 1) = Taken(u, open, n, m + 1)
  <2>1. n \in 1 .. n
    BY <1>2, <1>3
  <2>2. s[n].line = (m + 1) + 1 /\ File(s, n) = File(open, n)
    BY <1>2, <1>3, <1>4, <1>6, <2>1
  <2>3. s[n].line - 1 = m + 1
    BY <2>2
  <2>. QED BY <2>2, <2>3 DEF Taken
<1>12. SoFar(u, open) = Above(u, open) \o Taken(u, open, n, m)
  BY <1>2, <1>3, <1>4 DEF SoFar
<1>13. SoFar(u, s) = Above(u, open) \o (Taken(u, open, n, m) \o Piece(merged, File(open, n), line))
  BY <1>6, <1>8, <1>10, <1>11 DEF SoFar
<1>14. PICK a, b, c : a = Above(u, open) /\ b = Taken(u, open, n, m) /\ c = Piece(merged, File(open, n), line)
  OBVIOUS
<1>15. (a \o b) \o c = a \o (b \o c) /\ a \o b \in Seq(Entries)
  BY <1>7, <1>9, <1>14
<1>. QED BY <1>3, <1>9, <1>12, <1>13, <1>14, <1>15

LEMMA UReadOn == UInv /\ (ReadNothing \/ ReadRule) => UInv'
<1>. SUFFICES ASSUME UInv, ReadNothing \/ ReadRule PROVE UInv'
  OBVIOUS
<1>1. /\ CInv /\ CInv' /\ LInv /\ AtLine /\ Reading /\ pc \notin Refusals
      /\ open # <<>> /\ rules = RulesAt(pc, next) /\ LoadedOK(open, loaded)
  BY CReadOn DEF UInv, CInv, ReadNothing, ReadRule, AtLine, Reading, Refusals
<1>2. /\ open' = Stepped /\ UNCHANGED <<tree, cli, pc, next, rules>>
      /\ \/ Parsed.kind = "none" /\ loaded' = loaded
         \/ Parsed.kind \in {"rule", "clear"} /\ loaded' = Append(loaded, Parsed)
  BY DEF ReadNothing, ReadRule, inputs
<1>3. PICK line : line = LineAt(tree, open, Len(open), Frame.line)
  OBVIOUS
<1>4. Parsed = parse_filter_line(line)
  BY <1>1, <1>3, AtLineFacts
<1>5. PICK s, l : s = open' /\ l = loaded'
  OBVIOUS
<1>6. ASSUME NEW u, IsUnfolding(u) PROVE l = SoFar(u, s)
  <2>1. PICK merged, f : merged = u[Deepest - Len(open)] /\ f = File(open, Len(open))
    OBVIOUS
  <2>2. PICK old \in Seq(Entries) : /\ old = SoFar(u, open)
                                    /\ SoFar(u, Stepped) = old \o Piece(merged, f, line)
    BY <1>1, <1>3, <1>6, <2>1, SoFarStepped
  <2>3. loaded = old
    BY <1>1, <1>6, <2>2 DEF LoadedOK
  <2>4. CASE Parsed.kind = "none"
    <3>1. Piece(merged, f, line) = <<>>
      BY <1>4, <2>4 DEF Piece
    <3>. QED BY <1>2, <1>5, <2>2, <2>3, <2>4, <3>1
  <2>5. CASE Parsed.kind \in {"rule", "clear"}
    <3>1. Piece(merged, f, line) = <<Parsed>>
      BY <1>4, <2>5 DEF Piece
    <3>2. Parsed \in Entries
      BY <1>1, <2>5, AtLineFacts
    <3>3. PICK x \in Entries : x = Parsed
      BY <3>2
    <3>4. Append(old, x) = old \o <<x>>
      OBVIOUS
    <3>. QED BY <1>2, <1>5, <2>2, <2>3, <2>5, <3>1, <3>3, <3>4
  <2>. QED BY <1>2, <2>4, <2>5
<1>7. LoadedOK(s, l)
  BY <1>6 DEF LoadedOK
<1>8. LoadedOK(open, loaded)'
  BY <1>2, <1>5, <1>7, LoadedNext
<1>9. RulesAt(pc, next)' = RulesAt(pc, next)
  BY <1>2, SameRules
<1>. QED BY <1>1, <1>2, <1>8, <1>9 DEF UInv

LEMMA UReadMerge == UInv /\ ReadMerge => UInv'
<1>. SUFFICES ASSUME UInv, ReadMerge PROVE UInv'
  OBVIOUS
<1>1. /\ CInv /\ CInv' /\ LInv /\ AtLine /\ Reading /\ pc \notin Refusals
      /\ open # <<>> /\ rules = RulesAt(pc, next) /\ LoadedOK(open, loaded)
  BY CReadMerge DEF UInv, CInv, ReadMerge, AtLine, Reading, Refusals
<1>2. PICK path : path = Joined(Frame.path, Parsed.path)
  OBVIOUS
<1>3. CASE Refused(path)
  BY <1>1, <1>2, <1>3, URefuse DEF ReadMerge
<1>4. CASE ~Refused(path)
  <2>1. PICK s : s = Append(Stepped, Begun(path))
    OBVIOUS
  <2>2. PICK n \in Nat \ {0} : n = Len(open)
    BY <1>1, ReadingFacts
  <2>3. /\ FramesOK(tree, s) /\ Len(s) = n + 1 /\ open' = s
        /\ UNCHANGED <<tree, cli, pc, next, loaded, rules>>
        /\ \A k \in 1 .. n :
             /\ File(s, k) = File(open, k)
             /\ s[k].line = IF k = n THEN open[k].line + 1 ELSE open[k].line
        /\ s[n + 1].line = 1
    BY <1>1, <1>2, <1>4, <2>1, <2>2, MergedOK
  <2>4. TreeOK(tree) /\ FramesOK(tree, open)
    BY <1>1, InputsFacts DEF LInv
  <2>5. ASSUME NEW u, IsUnfolding(u) PROVE loaded = SoFar(u, s)
    <3>1. \A j \in 1 .. n - 1 : j \in 1 .. n /\ j # n
      OBVIOUS
    <3>2. \A j \in 1 .. n - 1 : s[j].line = open[j].line
      BY <2>3, <3>1
    <3>3. Above(u, s) = Above(u, open) \o Taken(u, open, n, s[n].line - 2)
      <4>1. \A j \in 1 .. n : File(s, j) = File(open, j)
        BY <2>3
      <4>2. Len(open) = n /\ Len(s) = n + 1 /\ FramesOK(tree, s) /\ TreeOK(tree)
        BY <2>2, <2>3, <2>4
      <4>. QED BY <2>5, <3>2, <4>1, <4>2, AbovePush
    <3>4. s[n].line - 2 = open[n].line - 1
      <4>1. open[n].line \in Nat /\ n \in 1 .. n
        BY <2>2, <2>4, FrameTypes
      <4>2. s[n].line = open[n].line + 1
        BY <2>3, <4>1
      <4>. QED BY <4>1, <4>2
    <3>5. Above(u, s) = SoFar(u, open)
      BY <2>2, <3>3, <3>4 DEF SoFar
    <3>6. Taken(u, s, n + 1, 0) = <<>>
      <4>1. n + 1 \in 1 .. Len(s)
        BY <2>3
      <4>. QED BY <2>3, <2>4, <2>5, <4>1, TakenNone
    <3>7. s[n + 1].line - 1 = 0
      BY <2>3
    <3>8. SoFar(u, s) = SoFar(u, open) \o <<>>
      BY <2>3, <3>5, <3>6, <3>7 DEF SoFar
    <3>9. loaded = SoFar(u, open) /\ loaded \in Seq(Entries)
      BY <1>1, <2>5 DEF LoadedOK, LInv
    <3>10. loaded \o <<>> = loaded
      BY <3>9
    <3>. QED BY <3>8, <3>9, <3>10
  <2>6. LoadedOK(s, loaded)
    BY <2>5 DEF LoadedOK
  <2>7. LoadedOK(open, loaded)'
    BY <2>3, <2>6, LoadedNext
  <2>8. RulesAt(pc, next)' = RulesAt(pc, next)
    BY <2>3, SameRules
  <2>. QED BY <1>1, <2>3, <2>7, <2>8 DEF UInv
<1>. QED BY <1>3, <1>4

\* a file that has been read to its end stands for what it unfolds to
LEMMA SoFarAtEnd ==
  ASSUME LInv, AtEnd, NEW u, IsUnfolding(u)
  PROVE  /\ Frame.line - 1 = Len(tree[File(open, Len(open))])
         /\ SoFar(u, open) =
              Above(u, open) \o u[(Deepest - Len(open)) + 1][File(open, Len(open))]
<1>1. Reading /\ Frame.line > Len(Lines)
  BY DEF AtEnd
<1>2. PICK n : n = Len(open)
  OBVIOUS
<1>3. /\ TreeOK(tree) /\ FramesOK(tree, open) /\ Frame = open[n] /\ Frame.line \in Nat \ {0}
      /\ n \in 1 .. Len(open) /\ Lines = tree[File(open, n)]
  BY <1>1, <1>2, ReadingFacts DEF LInv
<1>4. Frame.line - 1 = Len(tree[File(open, n)])
  <2>1. /\ open[n].line \in 1 .. Len(tree[File(open, n)]) + 1
        /\ Len(tree[File(open, n)]) \in Nat
    BY <1>3, FrameTypes DEF FramesOK
  <2>. QED BY <1>1, <1>3, <2>1
<1>5. Taken(u, open, n, Len(tree[File(open, n)])) = u[(Deepest - n) + 1][File(open, n)]
  BY <1>3, TakenAll
<1>. QED BY <1>2, <1>3, <1>4, <1>5 DEF SoFar

LEMMA ULeaveMerged == UInv /\ LeaveMerged => UInv'
<1>. SUFFICES ASSUME UInv, LeaveMerged PROVE UInv'
  OBVIOUS
<1>1. /\ CInv /\ CInv' /\ LInv /\ AtEnd /\ Reading /\ pc \notin Refusals /\ Len(open) > 1
      /\ open' = Front(open) /\ UNCHANGED <<tree, cli, pc, next, loaded, rules>>
      /\ open # <<>> /\ rules = RulesAt(pc, next) /\ LoadedOK(open, loaded)
  BY CLeaveMerged DEF UInv, CInv, LeaveMerged, AtEnd, Reading, Refusals, inputs
<1>2. TreeOK(tree) /\ FramesOK(tree, open)
  BY <1>1, InputsFacts DEF LInv
<1>3. PICK n \in Nat \ {0} : Len(open) = n + 1
  <2>1. Len(open) \in Nat
    BY <1>2 DEF FramesOK
  <2>2. PICK k \in Nat : k = Len(open) /\ k > 1
    BY <1>1, <2>1
  <2>3. k - 1 \in Nat \ {0} /\ k = (k - 1) + 1
    BY <2>2
  <2>. QED BY <2>2, <2>3
<1>4. PICK s : s = Front(open)
  OBVIOUS
<1>5. /\ FramesOK(tree, s) /\ Len(s) = n
      /\ \A k \in 1 .. n : s[k] = open[k] /\ File(s, k) = File(open, k)
  <2>1. /\ FramesOK(tree, s) /\ Len(s) = Len(open) - 1
        /\ \A k \in 1 .. Len(s) : s[k] = open[k] /\ File(s, k) = File(open, k)
    BY <1>1, <1>2, <1>4, FramesLeave
  <2>2. Len(s) = n
    BY <1>3, <2>1
  <2>. QED BY <2>1, <2>2
<1>6. PICK f, line, m : f = File(open, n) /\ m = open[n].line - 2 /\ line = LineAt(tree, open, n, m + 1)
  OBVIOUS
<1>7. /\ m \in Nat /\ m + 1 = open[n].line - 1 /\ m < Len(tree[f]) /\ m \in 0 .. Len(tree[f])
      /\ parse_filter_line(line).kind = "merge" /\ Target(f, line) = File(open, n + 1)
  <2>1. n \in 1 .. Len(open) - 1 /\ n \in 1 .. Len(open)
    BY <1>3
  <2>2. MergesNext(tree, open, n)
    BY <1>2, <2>1 DEF FramesOK
  <2>3. open[n].line \in 1 .. Len(tree[f]) + 1 /\ Len(tree[f]) \in Nat
    BY <1>2, <1>6, <2>1, FrameTypes DEF FramesOK
  <2>4. open[n].line > 1
    BY <2>2 DEF MergesNext
  <2>5. m \in Nat /\ m + 1 = open[n].line - 1 /\ m < Len(tree[f]) /\ m \in 0 .. Len(tree[f])
    BY <1>6, <2>3, <2>4
  <2>. QED BY <1>6, <2>2, <2>5 DEF MergesNext
<1>8. ASSUME NEW u, IsUnfolding(u) PROVE loaded = SoFar(u, s)
  <2>1. PICK merged, g : merged = u[Deepest - n] /\ g = File(open, n + 1)
    OBVIOUS
  <2>2. PICK d \in Nat : d = Deepest - n /\ (Deepest - (n + 1)) + 1 = d
    BY <1>2, <1>3, FramesBounded
  <2>3. loaded = Above(u, open) \o merged[g]
    <3>1. SoFar(u, open) = Above(u, open) \o u[(Deepest - (n + 1)) + 1][g]
      BY <1>1, <1>3, <1>8, <2>1, SoFarAtEnd
    <3>2. loaded = SoFar(u, open)
      BY <1>1, <1>8 DEF LoadedOK
    <3>. QED BY <2>1, <2>2, <3>1, <3>2
  <2>4. Above(u, open) = Above(u, s) \o Taken(u, s, n, m)
    <3>1. Above(u, open) = Above(u, s) \o Taken(u, s, n, open[n].line - 2)
      <4>1. \A j \in 1 .. n - 1 : j \in 1 .. n
        OBVIOUS
      <4>2. \A j \in 1 .. n - 1 : open[j].line = s[j].line
        BY <1>5, <4>1
      <4>3. \A j \in 1 .. n : File(open, j) = File(s, j)
        BY <1>5
      <4>. QED BY <1>2, <1>3, <1>5, <1>8, <4>2, <4>3, AbovePush, SMTT(30)
    <3>. QED BY <1>6, <3>1
  <2>5. n \in 1 .. Len(s) /\ n \in 1 .. n /\ s[n] = open[n] /\ File(s, n) = f
    BY <1>5, <1>6
  <2>6. LineAt(tree, s, n, m + 1) = line
    BY <1>6, <2>5 DEF LineAt
  <2>7. Taken(u, s, n, m + 1) = Taken(u, s, n, m) \o Piece(merged, f, line)
    <3>1. m < Len(tree[File(s, n)])
      BY <1>7, <2>5
    <3>2. Taken(u, s, n, m + 1) =
            Taken(u, s, n, m) \o Piece(u[Deepest - n], File(s, n), LineAt(tree, s, n, m + 1))
      <4>1. TreeOK(tree) /\ FramesOK(tree, s) /\ m \in Nat /\ n \in 1 .. Len(s)
        BY <1>2, <1>5, <1>7, <2>5
      <4>. QED BY <1>8, <3>1, <4>1, TakenNext
    <3>. QED BY <2>1, <2>5, <2>6, <3>2
  <2>8. Piece(merged, f, line) = merged[g]
    <3>1. g \in DOMAIN tree
      <4>1. n + 1 \in 1 .. Len(open)
        BY <1>3
      <4>. QED BY <1>2, <2>1, <4>1, FrameTypes
    <3>. QED BY <1>7, <2>1, <3>1 DEF Piece
  <2>9. /\ Above(u, s) \in Seq(Entries) /\ Taken(u, s, n, m) \in Seq(Entries)
        /\ merged[g] \in Seq(Entries)
    <3>1. s # <<>>
      BY <1>5
    <3>2. m \in 0 .. Len(tree[File(s, n)])
      BY <1>7, <2>5
    <3>3. g \in DOMAIN tree
      <4>1. n + 1 \in 1 .. Len(open)
        BY <1>3
      <4>. QED BY <1>2, <2>1, <4>1, FrameTypes
    <3>4. merged \in Merged
      BY <1>2, <1>5, <1>8, <2>1, <2>5, TakenPieces
    <3>5. merged[g] \in Seq(Entries)
      BY <3>3, <3>4 DEF Merged
    <3>. QED BY <1>2, <1>5, <1>8, <2>5, <3>1, <3>2, <3>5, AboveType, TakenType
  <2>10. PICK a, b, c : a = Above(u, s) /\ b = Taken(u, s, n, m) /\ c = merged[g]
    OBVIOUS
  <2>11. (a \o b) \o c = a \o (b \o c)
    <3>1. a \in Seq(Entries) /\ b \in Seq(Entries) /\ c \in Seq(Entries)
      BY <2>9, <2>10
    <3>. QED BY <3>1, ConcatAssoc
  <2>12. SoFar(u, s) = a \o (b \o c)
    <3>1. s[Len(s)].line - 1 = m + 1 /\ Len(s) = n
      BY <1>5, <1>7, <2>5
    <3>. QED BY <2>7, <2>8, <2>10, <3>1 DEF SoFar
  <2>. QED BY <2>3, <2>4, <2>10, <2>11, <2>12
<1>9. LoadedOK(s, loaded)
  BY <1>8 DEF LoadedOK
<1>10. LoadedOK(open, loaded)'
  BY <1>1, <1>4, <1>9, LoadedNext
<1>11. RulesAt(pc, next)' = RulesAt(pc, next)
  BY <1>1, SameRules
<1>. QED BY <1>1, <1>10, <1>11 DEF UInv

LEMMA LoadedNone == open' = <<>> => LoadedOK(open, loaded)'
BY DEF LoadedOK

\* a step that takes a piece of a source of lines, and knows what it adds
LEMMA UPiece ==
  ASSUME UInv, CInv', pc \in LineSources, NEW more \in Seq(Entries),
         LinePart(pc, next) = LinePart(pc, next - 1) \o more,
         rules' = Collected(rules, more),
         open' = <<>>, next' = next + 1, UNCHANGED <<tree, cli, pc>>
  PROVE  UInv'
<1>1. LInv /\ PiecesGood /\ pc \notin Refusals /\ rules = RulesAt(pc, next)
  BY DEF UInv, CInv, LineSources, Refusals
<1>2. PICK p, n : p = pc' /\ n = next' /\ p = pc /\ n = next + 1
  OBVIOUS
<1>3. RulesAt(pc, next + 1) = Collected(RulesAt(pc, next), more)
  BY <1>1, RulesGrow
<1>4. RulesAt(pc, next)' = RulesAt(p, n)
  BY <1>2, SameRules
<1>5. rules' = RulesAt(pc, next)'
  BY <1>1, <1>2, <1>3, <1>4
<1>. QED BY <1>1, <1>5, LoadedNone DEF UInv

\* the piece that is next, and the good ones before it
LEMMA NextGood ==
  ASSUME LInv, PiecesGood, pc \in ToSet(Sources), next <= Len(cli[pc]), IsGood(pc, next)
  PROVE  \E m \in Nat : /\ m = next - 1 /\ m + 1 = next /\ m < Len(cli[pc]) /\ m <= Len(cli[pc])
                        /\ \A i \in 1 .. m + 1 : IsGood(pc, i)
<1>1. next \in 1 .. Len(cli[pc]) /\ Len(cli[pc]) \in Nat
  BY NextPiece, InputsFacts, SourceLengths DEF LInv
<1>2. PICK m \in Nat : m = next - 1 /\ m + 1 = next /\ m < Len(cli[pc]) /\ m <= Len(cli[pc])
  <2>1. next - 1 \in Nat /\ (next - 1) + 1 = next /\ next - 1 < Len(cli[pc]) /\ next - 1 <= Len(cli[pc])
    BY <1>1
  <2>. QED BY <2>1
<1>3. ASSUME NEW i \in 1 .. m + 1 PROVE IsGood(pc, i)
  <2>1. CASE i = m + 1
    BY <1>2, <2>1
  <2>2. CASE i # m + 1
    <3>1. i \in 1 .. Len(cli[pc]) /\ i < next
      BY <1>1, <1>2, <2>2
    <3>. QED BY <3>1 DEF PiecesGood
  <2>. QED BY <2>1, <2>2
<1>. QED BY <1>2, <1>3

LEMMA ULeaveFile == UInv /\ LeaveFile => UInv'
<1>. SUFFICES ASSUME UInv, LeaveFile PROVE UInv'
  OBVIOUS
<1>1. /\ CInv /\ CInv' /\ LInv /\ AtEnd /\ Reading /\ pc = "filter_from" /\ PiecesGood
      /\ Len(open) = 1 /\ open # <<>> /\ LoadedOK(open, loaded)
      /\ rules' = Collected(rules, loaded)
      /\ open' = <<>> /\ next' = next + 1 /\ UNCHANGED <<tree, cli, pc>>
  BY CLeaveFile DEF UInv, CInv, LeaveFile, AtEnd, Reading, Refusals, inputs
<1>2. /\ InputsOK /\ TreeOK(tree) /\ FramesOK(tree, open) /\ next \in 1 .. Len(cli.filter_from)
      /\ open[1].path = cli.filter_from[next] /\ loaded \in Seq(Entries)
  BY <1>1, InputsFacts DEF LInv
<1>3. PICK f : f = File(open, 1) /\ f = Canonical(cli.filter_from[next])
  BY <1>2 DEF File
<1>4. IsGood(pc, next)
  <2>1. Sound(f)
    BY <1>1, <1>3, TopSound
  <2>. QED BY <1>1, <1>3, <2>1 DEF IsGood
<1>5. loaded = Unfolded[f]
  <2>1. PICK u : IsUnfolding(u)
    BY <1>2, UnfoldFacts
  <2>2. Deepest \in Nat /\ (Deepest - 1) + 1 = Deepest
    BY <1>2, UnfoldFacts
  <2>3. PICK a : a = [j \in 1 .. 0 |-> Taken(u, open, j, open[j].line - 2)]
    OBVIOUS
  <2>4. a = <<>>
    BY <2>3
  <2>5. Above(u, open) = <<>>
    <3>1. Len(open) - 1 = 0
      BY <1>1
    <3>. QED BY <2>3, <2>4, <3>1, FlatNone DEF Above
  <2>6. SoFar(u, open) = Above(u, open) \o u[(Deepest - 1) + 1][f]
    BY <1>1, <1>3, <2>1, SoFarAtEnd
  <2>7. u[(Deepest - 1) + 1][f] = Unfolded[f]
    BY <2>1, <2>2 DEF IsUnfolding
  <2>8. loaded = SoFar(u, open)
    BY <1>1, <2>1 DEF LoadedOK
  <2>9. PICK x \in Seq(Entries) : x = Unfolded[f]
    <3>1. Unfolded[f] \in Seq(Entries)
      BY <1>1, <1>2, <1>3, <1>4, SoundUnfolds
    <3>. QED BY <3>1
  <2>10. <<>> \o x = x
    OBVIOUS
  <2>. QED BY <2>5, <2>6, <2>7, <2>8, <2>9, <2>10
<1>6. LinePart(pc, next) = LinePart(pc, next - 1) \o loaded
  <2>1. PICK m \in Nat : /\ m = next - 1 /\ m + 1 = next /\ m < Len(cli.filter_from)
                         /\ \A i \in 1 .. m + 1 : IsGood("filter_from", i)
    <3>1. pc \in ToSet(Sources) /\ next <= Len(cli[pc]) /\ LInv /\ PiecesGood /\ IsGood(pc, next)
      BY <1>1, <1>2, <1>4, SourceSet
    <3>2. \E m \in Nat : /\ m = next - 1 /\ m + 1 = next /\ m < Len(cli[pc]) /\ m <= Len(cli[pc])
                         /\ \A i \in 1 .. m + 1 : IsGood(pc, i)
      BY <3>1, NextGood
    <3>. QED BY <1>1, <3>2
  <2>2. FromFiles(m + 1) = FromFiles(m) \o Unfolded[Canonical(cli.filter_from[m + 1])]
    BY <1>2, <2>1, FilesNext
  <2>. QED BY <1>1, <1>3, <1>5, <2>1, <2>2 DEF LinePart
<1>7. pc \in LineSources
  BY <1>1 DEF LineSources
<1>. QED BY <1>1, <1>2, <1>6, <1>7, UPiece

LEMMA UFilterLine == UInv /\ FilterLine => UInv'
<1>. SUFFICES ASSUME UInv, FilterLine PROVE UInv'
  OBVIOUS
<1>1. /\ CInv /\ CInv' /\ LInv /\ pc = "filter" /\ next <= Len(cli.filter) /\ PiecesGood
      /\ InputsOK /\ open = <<>> /\ pc \in LineSources /\ pc \in ToSet(Sources)
      /\ rules = RulesAt(pc, next) /\ pc \notin Refusals
  BY CFilterLine, SourceSet DEF UInv, CInv, LInv, FilterLine, LineSources, Refusals
<1>2. PICK said : said = parse_filter_line(cli.filter[next])
  OBVIOUS
<1>3. CASE said.kind \in {"merge"} \cup Rejected
  <2>1. Fail("invalid") \/ Fail("panicked")
    BY <1>2, <1>3 DEF FilterLine, Rejected
  <2>. QED BY <1>1, <2>1, UFailed DEF Refusals
<1>4. CASE said.kind \notin {"merge"} \cup Rejected
  <2>1. /\ rules' = IF said.kind = "none" THEN rules ELSE Collect(rules, said)
        /\ next' = next + 1 /\ UNCHANGED <<tree, cli, pc, open>>
    BY <1>2, <1>4 DEF FilterLine, inputs
  <2>2. IsGood(pc, next)
    BY <1>1, <1>2, <1>4 DEF IsGood
  <2>3. PICK m \in Nat : /\ m = next - 1 /\ m + 1 = next /\ m < Len(cli.filter)
                         /\ \A i \in 1 .. m + 1 : IsGood("filter", i)
    <3>1. \E m \in Nat : /\ m = next - 1 /\ m + 1 = next /\ m < Len(cli[pc]) /\ m <= Len(cli[pc])
                         /\ \A i \in 1 .. m + 1 : IsGood(pc, i)
      BY <1>1, <2>2, NextGood
    <3>. QED BY <1>1, <3>1
  <2>4. FromLines(m + 1) = IF said = Nothing THEN FromLines(m) ELSE Append(FromLines(m), said)
    BY <1>1, <1>2, <2>3, LinesNext
  <2>5. said \in Said /\ said \in Spoken /\ IsSpoken(said)
    <3>1. next \in 1 .. Len(cli.filter)
      BY <1>1, NextPiece
    <3>2. said \in Said
      BY <1>1, <1>2, <2>2, <3>1, GoodLine
    <3>. QED BY <3>2, LinesSpeak, SideLinesSpeak DEF Said, Spoken
  <2>6. PICK x \in Seq(Entries) : x = FromLines(m)
    <3>1. m <= Len(cli.filter) /\ \A i \in 1 .. m : IsGood("filter", i)
      <4>1. \A i \in 1 .. m : i \in 1 .. m + 1
        OBVIOUS
      <4>2. Len(cli.filter) \in Nat
        BY <1>1, InputsFacts DEF OptionsOK
      <4>. QED BY <2>3, <4>1, <4>2
    <3>. QED BY <1>1, <3>1, LinesType
  <2>7. LinePart(pc, next) = FromLines(m + 1) /\ LinePart(pc, next - 1) = x
    BY <1>1, <2>3, <2>6 DEF LinePart
  <2>8. CASE said = Nothing
    <3>1. rules' = rules
      BY <2>1, <2>8 DEF Nothing
    <3>2. PICK more : more = <<>>
      OBVIOUS
    <3>3. x = x \o <<>> /\ <<>> \in Seq(Entries)
      BY SeqOfNone
    <3>4. LinePart(pc, next) = LinePart(pc, next - 1) \o more /\ more \in Seq(Entries)
      BY <2>4, <2>6, <2>7, <2>8, <3>2, <3>3
    <3>5. rules \in Seq(RuleSet)
      BY <1>1 DEF LInv
    <3>6. rules' = Collected(rules, more)
      BY <3>1, <3>2, <3>5, CollectedNone
    <3>. QED BY <1>1, <2>1, <3>4, <3>6, UPiece
  <2>9. CASE said # Nothing
    <3>1. said \in Entries
      BY <2>5, <2>9, SaidAreEntries
    <3>2. said.kind # "none"
      BY <2>5, <2>9, SpokenKinds
    <3>3. PICK more : more = <<said>>
      OBVIOUS
    <3>4. Append(x, said) = x \o <<said>> /\ <<said>> \in Seq(Entries)
      BY <3>1
    <3>5. LinePart(pc, next) = LinePart(pc, next - 1) \o more /\ more \in Seq(Entries)
      BY <2>4, <2>6, <2>7, <2>9, <3>3, <3>4
    <3>6. rules' = Collect(rules, said)
      BY <2>1, <3>2
    <3>7. rules \in Seq(RuleSet)
      BY <1>1 DEF LInv
    <3>8. Collected(rules, more) = Collect(rules, said)
      <4>1. PICK none : none = <<>> /\ none \in Seq(Entries)
        BY SeqOfNone
      <4>2. Collected(rules, Append(none, said)) = Collect(Collected(rules, none), said)
        BY <3>1, <3>7, <4>1, CollectedAppend
      <4>3. Append(none, said) = more
        BY <3>3, <4>1
      <4>4. Collected(rules, none) = rules
        BY <3>7, <4>1, CollectedNone
      <4>. QED BY <4>2, <4>3, <4>4
    <3>. QED BY <1>1, <2>1, <3>5, <3>6, <3>8, UPiece
  <2>. QED BY <2>8, <2>9
<1>. QED BY <1>3, <1>4

LEMMA USideFile == UInv /\ SideFile => UInv'
<1>. SUFFICES ASSUME UInv, SideFile PROVE UInv'
  OBVIOUS
<1>1. /\ CInv /\ CInv' /\ LInv /\ PiecesGood /\ InputsOK /\ pc \notin Refusals
      /\ pc \in {"include_from", "exclude_from"} /\ next <= Len(cli[pc])
  BY CSideFile DEF UInv, CInv, LInv, SideFile, Refusals
<1>2. /\ pc \in ToSet(Sources) /\ open = <<>> /\ pc \in LineSources /\ next \in 1 .. Len(cli[pc])
  BY <1>1, SideFacts DEF LineSources
<1>3. PICK path, include : path = cli[pc][next] /\ include = (pc = "include_from")
  OBVIOUS
<1>4. CASE \E refusal \in Refusals : Fail(refusal)
  BY <1>1, <1>4, UFailed
<1>5. CASE ~\E refusal \in Refusals : Fail(refusal)
  <2>1. /\ Exists(path) /\ IsText(tree[Canonical(path)])
        /\ \A k \in DOMAIN tree[Canonical(path)] :
             ParseSideLine(tree[Canonical(path)][k], include) # Invalid
        /\ rules' = Collected(rules, SideLines(tree[Canonical(path)], include))
        /\ next' = next + 1 /\ UNCHANGED <<tree, cli, pc, open>>
    BY <1>3, <1>5, SideFileIs DEF UInv, CInv
  <2>2. IsSideSource(pc, include)
    <3>1. CASE pc = "include_from"
      BY <1>3, <3>1 DEF IsSideSource
    <3>2. CASE pc = "exclude_from"
      <4>1. (pc = "include_from") = FALSE
        BY <3>2
      <4>. QED BY <1>3, <3>2, <4>1 DEF IsSideSource
    <3>. QED BY <1>1, <3>1, <3>2
  <2>3. IsGood(pc, next)
    <3>1. \A refusal \in Refusals : ~FaultySide(Canonical(path), include, refusal)
      BY <2>1 DEF FaultySide, NoLines, LinesOf, Exists, ToSet
    <3>2. CASE pc = "include_from" /\ include = TRUE
      <4>1. /\ path = cli.include_from[next]
            /\ \A refusal \in Refusals : ~FaultySide(Canonical(path), TRUE, refusal)
        BY <1>3, <3>1, <3>2
      <4>2. IsGood("include_from", next)
        BY <4>1 DEF IsGood
      <4>. QED BY <3>2, <4>2
    <3>3. CASE pc = "exclude_from" /\ include = FALSE
      <4>1. /\ path = cli.exclude_from[next]
            /\ \A refusal \in Refusals : ~FaultySide(Canonical(path), FALSE, refusal)
        BY <1>3, <3>1, <3>3
      <4>2. IsGood("exclude_from", next)
        BY <4>1 DEF IsGood
      <4>. QED BY <3>3, <4>2
    <3>. QED BY <2>2, <3>2, <3>3 DEF IsSideSource
  <2>4. PICK m \in Nat : /\ m = next - 1 /\ m + 1 = next /\ m < Len(cli[pc])
                         /\ \A i \in 1 .. m + 1 : IsGood(pc, i)
    <3>1. \E m \in Nat : /\ m = next - 1 /\ m + 1 = next /\ m < Len(cli[pc]) /\ m <= Len(cli[pc])
                         /\ \A i \in 1 .. m + 1 : IsGood(pc, i)
      BY <1>1, <1>2, <2>3, NextGood
    <3>. QED BY <3>1
  <2>5. PICK s : s = pc
    OBVIOUS
  <2>6. FromSides(s, m + 1, include) =
          FromSides(s, m, include) \o SideLines(tree[Canonical(cli[s][m + 1])], include)
    <3>1. IsSideSource(s, include) /\ m < Len(cli[s]) /\ \A i \in 1 .. m + 1 : IsGood(s, i)
      BY <2>2, <2>4, <2>5
    <3>. QED BY <1>1, <3>1, SidesNext
  <2>7. PICK more : more = SideLines(tree[Canonical(path)], include)
    OBVIOUS
  <2>8. more \in Seq(Entries)
    BY <1>1, <1>2, <1>3, <2>2, <2>3, <2>7, GoodSide
  <2>9. LinePart(pc, next) = LinePart(pc, next - 1) \o more
    <3>1. \A k : LinePart(s, k) = FromSides(s, k, include)
      <4>1. CASE s = "include_from" /\ include = TRUE
        BY <4>1 DEF LinePart
      <4>2. CASE s = "exclude_from" /\ include = FALSE
        BY <4>2 DEF LinePart
      <4>. QED BY <2>2, <2>5, <4>1, <4>2 DEF IsSideSource
    <3>. QED BY <1>3, <2>4, <2>5, <2>6, <2>7, <3>1
  <2>10. rules' = Collected(rules, more) /\ open' = <<>>
    BY <1>2, <2>1, <2>7
  <2>. QED BY <1>1, <1>2, <2>1, <2>8, <2>9, <2>10, UPiece
<1>. QED BY <1>4, <1>5

LEMMA URegex == UInv /\ Regex => UInv'
<1>. SUFFICES ASSUME UInv, Regex PROVE UInv'
  OBVIOUS
<1>1. /\ CInv /\ CInv' /\ LInv /\ PiecesGood /\ InputsOK /\ pc \notin Refusals
      /\ pc \in {"regex_includes", "regex_excludes"} /\ next <= Len(cli[pc])
      /\ pc \in ToSet(Sources) /\ open = <<>> /\ rules = RulesAt(pc, next)
  BY CRegex, SourceSet DEF UInv, CInv, LInv, Regex, Refusals
<1>2. next \in 1 .. Len(cli[pc]) /\ Len(cli[pc]) \in Nat
  BY <1>1, NextPiece, InputsFacts, SourceLengths
<1>3. CASE ~cli[pc][next].compiles
  BY <1>1, <1>3, UFailed DEF Regex, Refusals
<1>4. CASE cli[pc][next].compiles
  <2>1. PICK rule : rule = [syntax |-> "regex", original |-> cli[pc][next].text,
                            include |-> pc = "regex_includes"]
    OBVIOUS
  <2>2. /\ rules' = Append(rules, rule) /\ next' = next + 1
        /\ UNCHANGED <<tree, cli, pc, open>>
    BY <1>4, <2>1 DEF Regex, inputs
  <2>3. PICK m \in Nat : m = next - 1 /\ m + 1 = next /\ m < Len(cli[pc])
                         /\ m <= Len(cli[pc]) /\ m + 1 <= Len(cli[pc])
    <3>1. next - 1 \in Nat /\ (next - 1) + 1 = next /\ next - 1 < Len(cli[pc])
          /\ next - 1 <= Len(cli[pc]) /\ (next - 1) + 1 <= Len(cli[pc])
      BY <1>2
    <3>. QED BY <3>1
  <2>4. PICK x \in Seq(RuleSet) : x = Uncleared(LinesAt(pc, next))
    BY <1>1, PartsType, UnclearedType
  <2>5. LinesAt(pc, next + 1) = LinesAt(pc, next)
    <3>1. \A s \in LineSources : Count(s, pc, next + 1) = Count(s, pc, next)
      BY <1>1 DEF Count, Rank, LineSources
    <3>. QED BY <3>1 DEF LinesAt, LineSources
  <2>6. RulesAt(pc, next + 1) = Append(RulesAt(pc, next), rule)
    <3>1. CASE pc = "regex_includes"
      <4>1. PICK a, b : /\ a = FromRegexes("regex_includes", m, TRUE)
                        /\ b = FromRegexes("regex_includes", m + 1, TRUE)
        OBVIOUS
      <4>2. a \in Seq(RuleSet) /\ b \in Seq(RuleSet)
        <5>1. m \in Nat /\ m + 1 \in Nat /\ m <= Len(cli["regex_includes"])
              /\ m + 1 <= Len(cli["regex_includes"])
          BY <2>3, <3>1
        <5>2. "regex_includes" \in {"regex_includes", "regex_excludes"} /\ TRUE \in BOOLEAN /\ InputsOK
          BY <1>1
        <5>3. FromRegexes("regex_includes", m, TRUE) \in Seq(RuleSet)
          BY <5>1, <5>2, RegexesType
        <5>4. FromRegexes("regex_includes", m + 1, TRUE) \in Seq(RuleSet)
          BY <5>1, <5>2, RegexesType
        <5>. QED BY <4>1, <5>3, <5>4
      <4>3. b = Append(a, rule)
        <5>1. (pc = "regex_includes") = TRUE
          BY <3>1
        <5>2. rule = [syntax |-> "regex", original |-> cli["regex_includes"][m + 1].text,
                      include |-> TRUE]
          BY <2>1, <2>3, <3>1, <5>1
        <5>. QED BY <1>1, <2>3, <3>1, <4>1, <5>2, RegexesNext
      <4>4. RulesAt(pc, next) = (x \o a) \o <<>>
        BY <2>3, <2>4, <3>1, <4>1, FromNone, LaterRegexCounts DEF RulesAt
      <4>5. RulesAt(pc, next + 1) = (x \o b) \o <<>>
        <5>1. Count("regex_includes", pc, next + 1) = m + 1
          <6>1. (next + 1) - 1 = m + 1
            BY <2>3
          <6>. QED BY <3>1, <6>1, LaterRegexCounts
        <5>2. Count("regex_excludes", pc, next + 1) = 0
          BY <3>1, LaterRegexCounts
        <5>. QED BY <2>4, <2>5, <3>1, <4>1, <5>1, <5>2, FromNone DEF RulesAt
      <4>6. (x \o a) \o <<>> = x \o a /\ (x \o b) \o <<>> = x \o b
        BY <4>2
      <4>7. rule \in RuleSet
        <5>1. rule = b[m + 1] /\ Len(b) = m + 1
          <6>1. Len(b) = m + 1
            BY <4>1, <4>2, <2>3 DEF FromRegexes
          <6>2. Len(a) = m
            BY <4>1, <4>2, <2>3 DEF FromRegexes
          <6>. QED BY <4>2, <4>3, <6>1, <6>2
        <5>. QED BY <4>2, <5>1
      <4>8. x \o Append(a, rule) = Append(x \o a, rule)
        BY <4>2, <4>7
      <4>. QED BY <4>3, <4>4, <4>5, <4>6, <4>8
    <3>2. CASE pc = "regex_excludes"
      <4>1. PICK a, b : /\ a = FromRegexes("regex_excludes", m, FALSE)
                        /\ b = FromRegexes("regex_excludes", m + 1, FALSE)
        OBVIOUS
      <4>2. a \in Seq(RuleSet) /\ b \in Seq(RuleSet)
        <5>1. m \in Nat /\ m + 1 \in Nat /\ m <= Len(cli["regex_excludes"])
              /\ m + 1 <= Len(cli["regex_excludes"])
          BY <2>3, <3>2
        <5>2. "regex_excludes" \in {"regex_includes", "regex_excludes"} /\ FALSE \in BOOLEAN /\ InputsOK
          BY <1>1
        <5>3. FromRegexes("regex_excludes", m, FALSE) \in Seq(RuleSet)
          BY <5>1, <5>2, RegexesType
        <5>4. FromRegexes("regex_excludes", m + 1, FALSE) \in Seq(RuleSet)
          BY <5>1, <5>2, RegexesType
        <5>. QED BY <4>1, <5>3, <5>4
      <4>3. b = Append(a, rule)
        <5>1. (pc = "regex_includes") = FALSE
          BY <3>2
        <5>2. rule = [syntax |-> "regex", original |-> cli["regex_excludes"][m + 1].text,
                      include |-> FALSE]
          BY <2>1, <2>3, <3>2, <5>1
        <5>. QED BY <1>1, <2>3, <3>2, <4>1, <5>2, RegexesNext
      <4>4. PICK y : y = x \o FromRegexes("regex_includes", Len(cli.regex_includes), TRUE)
        OBVIOUS
      <4>5. y \in Seq(RuleSet)
        <5>1. Len(cli["regex_includes"]) \in Nat
          BY <1>1, InputsFacts DEF OptionsOK
        <5>2. "regex_includes" \in {"regex_includes", "regex_excludes"} /\ TRUE \in BOOLEAN
              /\ InputsOK
          BY <1>1
        <5>3. Len(cli["regex_includes"]) <= Len(cli["regex_includes"])
          BY <5>1
        <5>4. FromRegexes("regex_includes", Len(cli["regex_includes"]), TRUE) \in Seq(RuleSet)
          BY <5>1, <5>2, <5>3, RegexesType
        <5>5. PICK z \in Seq(RuleSet) :
                     z = FromRegexes("regex_includes", Len(cli["regex_includes"]), TRUE)
          BY <5>4
        <5>6. y = x \o z
          BY <4>4, <5>5
        <5>7. x \o z \in Seq(RuleSet)
          OBVIOUS
        <5>. QED BY <5>6, <5>7
      <4>6. RulesAt(pc, next) = y \o a
        BY <2>3, <2>4, <3>2, <4>1, <4>4, LaterRegexCounts DEF RulesAt
      <4>7. RulesAt(pc, next + 1) = y \o b
        <5>1. Count("regex_excludes", pc, next + 1) = m + 1
          <6>1. (next + 1) - 1 = m + 1
            BY <2>3
          <6>. QED BY <3>2, <6>1, LaterRegexCounts
        <5>2. Count("regex_includes", pc, next + 1) = Len(cli.regex_includes)
          BY <3>2, LaterRegexCounts
        <5>. QED BY <2>4, <2>5, <3>2, <4>1, <4>4, <5>1, <5>2 DEF RulesAt
      <4>8. rule \in RuleSet
        <5>1. rule = b[m + 1] /\ Len(b) = m + 1
          <6>1. Len(b) = m + 1
            BY <4>1, <4>2, <2>3 DEF FromRegexes
          <6>2. Len(a) = m
            BY <4>1, <4>2, <2>3 DEF FromRegexes
          <6>. QED BY <4>2, <4>3, <6>1, <6>2
        <5>. QED BY <4>2, <5>1
      <4>9. y \o Append(a, rule) = Append(y \o a, rule)
        BY <4>2, <4>5, <4>8
      <4>. QED BY <4>3, <4>6, <4>7, <4>9
    <3>. QED BY <1>1, <3>1, <3>2
  <2>7. PICK p, n : p = pc' /\ n = next' /\ p = pc /\ n = next + 1
    BY <2>2
  <2>8. RulesAt(pc, next)' = RulesAt(p, n)
    BY <2>2, <2>7, SameRules
  <2>9. rules' = RulesAt(pc, next)'
    BY <1>1, <2>2, <2>6, <2>7, <2>8
  <2>. QED BY <1>1, <2>2, <2>9, LoadedNone DEF UInv
<1>. QED BY <1>3, <1>4

LEMMA USourceDone == UInv /\ SourceDone => UInv'
<1>. SUFFICES ASSUME UInv, SourceDone PROVE UInv'
  OBVIOUS
<1>1. /\ CInv /\ CInv' /\ LInv /\ pc \in ToSet(Sources) /\ open = <<>> /\ next > Len(cli[pc])
      /\ pc' = After(pc) /\ next' = 1 /\ UNCHANGED <<tree, cli, open, loaded, rules>>
      /\ rules = RulesAt(pc, next)
  BY CSourceDone, NextSourceIs, SourceSet DEF UInv, CInv, SourceDone, Refusals, inputs
<1>2. PICK q : q = After(pc)
  OBVIOUS
<1>3. next = Len(cli[pc]) + 1 /\ next - 1 = Len(cli[pc])
  <2>1. next \in 1 .. Len(cli[pc]) + 1 /\ Len(cli[pc]) \in Nat
    BY <1>1, InputsFacts, SourceLengths DEF LInv
  <2>. QED BY <1>1, <2>1
<1>4. ASSUME NEW s \in ToSet(Sources) PROVE Count(s, q, 1) = Count(s, pc, next)
  <2>1. CASE s = pc
    <3>1. Rank(s) < Rank(q) /\ ~(Rank(s) < Rank(pc))
      BY <1>1, <1>2, <2>1, SourceSet DEF Rank, After
    <3>. QED BY <1>3, <2>1, <3>1 DEF Count
  <2>2. CASE s # pc /\ Rank(s) < Rank(pc)
    <3>1. Rank(s) < Rank(q)
      BY <1>1, <1>2, <2>2, SourceSet DEF Rank, After
    <3>. QED BY <2>2, <3>1 DEF Count
  <2>3. CASE s # pc /\ ~(Rank(s) < Rank(pc))
    <3>1. ~(Rank(s) < Rank(q))
      BY <1>1, <1>2, <1>4, <2>3, SourceSet DEF Rank, After
    <3>2. 1 - 1 = 0
      OBVIOUS
    <3>. QED BY <2>3, <3>1, <3>2 DEF Count
  <2>. QED BY <2>1, <2>2, <2>3
<1>5. RulesAt(q, 1) = RulesAt(pc, next)
  <2>1. /\ Count("filter_from", q, 1) = Count("filter_from", pc, next)
        /\ Count("filter", q, 1) = Count("filter", pc, next)
        /\ Count("include_from", q, 1) = Count("include_from", pc, next)
        /\ Count("exclude_from", q, 1) = Count("exclude_from", pc, next)
    BY <1>4, SourceSet
  <2>2. /\ Count("regex_includes", q, 1) = Count("regex_includes", pc, next)
        /\ Count("regex_excludes", q, 1) = Count("regex_excludes", pc, next)
    BY <1>4, SourceSet
  <2>3. LinesAt(q, 1) = LinesAt(pc, next)
    BY <2>1, Zenon DEF LinesAt
  <2>. QED BY <2>2, <2>3, Zenon DEF RulesAt
<1>6. RulesAt(pc, next)' = RulesAt(q, 1)
  <2>1. PICK n : n = 1
    OBVIOUS
  <2>2. q = pc' /\ n = next'
    BY <1>1, <1>2, <2>1
  <2>3. RulesAt(pc, next)' = RulesAt(q, n)
    BY <1>1, <2>2, SameRules
  <2>. QED BY <2>1, <2>3
<1>7. rules' = RulesAt(pc, next)'
  BY <1>1, <1>5, <1>6
<1>. QED BY <1>1, <1>7, LoadedNone DEF UInv

LEMMA UInit == Init => UInv
<1>. SUFFICES ASSUME Init PROVE UInv
  OBVIOUS
<1>1. CInv /\ pc = "filter_from" /\ next = 1 /\ open = <<>> /\ rules = <<>>
  BY CInit DEF Init
<1>2. \A s \in ToSet(Sources) : Count(s, pc, next) = 0
  <2>1. \A s \in ToSet(Sources) : ~(Rank(s) < Rank(pc)) /\ next - 1 = 0
    BY <1>1, SourceSet DEF Rank
  <2>. QED BY <1>1, <2>1 DEF Count
<1>3. LinesAt(pc, next) = <<>>
  <2>1. LinesAt(pc, next) = ((<<>> \o <<>>) \o <<>>) \o <<>>
    BY <1>2, SourceSet, LinePartNone DEF LinesAt, LineSources
  <2>. QED BY <2>1
<1>4. RulesAt(pc, next) = <<>>
  <2>1. RulesAt(pc, next) = (<<>> \o <<>>) \o <<>>
    <3>1. /\ Count("regex_includes", pc, next) = 0
          /\ Count("regex_excludes", pc, next) = 0
      BY <1>2, SourceSet
    <3>2. /\ FromRegexes("regex_includes", 0, TRUE) = <<>>
          /\ FromRegexes("regex_excludes", 0, FALSE) = <<>>
      BY FromNone
    <3>. QED BY <1>3, <3>1, <3>2, UnclearedNone, Zenon DEF RulesAt
  <2>. QED BY <2>1
<1>. QED BY <1>1, <1>4 DEF UInv, LoadedOK

LEMMA UStep == UInv /\ [Next]_vars => UInv'
<1>. SUFFICES ASSUME UInv, [Next]_vars PROVE UInv'
  OBVIOUS
<1>1. CASE OpenFile
  BY <1>1, UOpenFile
<1>2. CASE ReadNothing \/ ReadRule
  BY <1>2, UReadOn
<1>3. CASE ReadMerge
  BY <1>3, UReadMerge
<1>4. CASE ReadRejected
  <2>1. CInv'
    BY <1>4, CReadRejected DEF UInv
  <2>. QED BY <1>4, <2>1, UFailed DEF ReadRejected, Rejected, Refusals
<1>5. CASE LeaveMerged
  BY <1>5, ULeaveMerged
<1>6. CASE LeaveFile
  BY <1>6, ULeaveFile
<1>7. CASE FilterLine
  BY <1>7, UFilterLine
<1>8. CASE SideFile
  BY <1>8, USideFile
<1>9. CASE Regex
  BY <1>9, URegex
<1>10. CASE SourceDone
  BY <1>10, USourceDone
<1>11. CASE UNCHANGED vars
  <2>1. UNCHANGED <<tree, cli, pc, next, open, loaded, rules>>
    BY <1>11 DEF vars, inputs
  <2>2. CInv'
    BY CStep DEF UInv
  <2>3. RulesAt(pc, next)' = RulesAt(pc, next)
    BY <2>1, SameRules
  <2>4. pc \notin Refusals => LoadedOK(open, loaded)'
    BY <2>1, LoadedNext DEF UInv
  <2>. QED BY <2>1, <2>2, <2>3, <2>4 DEF UInv
<1>. QED BY <1>1, <1>2, <1>3, <1>4, <1>5, <1>6, <1>7, <1>8, <1>9, <1>10, <1>11
       DEF Next, Load, Terminated

LEMMA UAlways == Spec => []UInv
BY UInit, UStep, PTL DEF Spec

LEMMA URules == UInv => RulesAreTheUnfoldedLines
<1>. SUFFICES ASSUME UInv, pc = "done"
              PROVE  rules = Uncleared(AllLines) \o RegexRules(cli.regex_includes, TRUE)
                                                 \o RegexRules(cli.regex_excludes, FALSE)
  BY DEF RulesAreTheUnfoldedLines
<1>1. rules = RulesAt(pc, next) /\ OptionsOK(cli)
  BY InputsFacts DEF UInv, CInv, LInv, Refusals
<1>2. \A s \in ToSet(Sources) : Count(s, pc, next) = Len(cli[s])
  BY SourceSet DEF Count, Rank
<1>3. LinesAt(pc, next) = AllLines
  <2>1. LinePart("filter_from", Len(cli.filter_from)) =
          FlattenSeq([i \in DOMAIN cli.filter_from |-> Unfolded[Canonical(cli.filter_from[i])]])
    <3>1. DOMAIN cli.filter_from = 1 .. Len(cli.filter_from)
      BY <1>1 DEF OptionsOK
    <3>. QED BY <3>1 DEF LinePart, FromFiles
  <2>2. LinePart("filter", Len(cli.filter)) = Without(Nothing, FilterLines)
    <3>1. DOMAIN cli.filter = 1 .. Len(cli.filter)
      BY <1>1 DEF OptionsOK
    <3>. QED BY <3>1 DEF LinePart, FromLines, FilterLines
  <2>3. LinePart("include_from", Len(cli.include_from)) = SideFiles(cli.include_from, TRUE)
    <3>1. DOMAIN cli.include_from = 1 .. Len(cli.include_from)
      BY <1>1 DEF OptionsOK
    <3>. QED BY <3>1 DEF LinePart, FromSides, SideFiles
  <2>4. LinePart("exclude_from", Len(cli.exclude_from)) = SideFiles(cli.exclude_from, FALSE)
    <3>1. DOMAIN cli.exclude_from = 1 .. Len(cli.exclude_from)
      BY <1>1 DEF OptionsOK
    <3>. QED BY <3>1 DEF LinePart, FromSides, SideFiles
  <2>. QED BY <1>2, <2>1, <2>2, <2>3, <2>4, SourceSet DEF LinesAt, AllLines
<1>4. FromRegexes("regex_includes", Len(cli.regex_includes), TRUE) = RegexRules(cli.regex_includes, TRUE)
  <2>1. DOMAIN cli.regex_includes = 1 .. Len(cli.regex_includes)
    BY <1>1 DEF OptionsOK
  <2>. QED BY <2>1 DEF FromRegexes, RegexRules
<1>5. FromRegexes("regex_excludes", Len(cli.regex_excludes), FALSE) = RegexRules(cli.regex_excludes, FALSE)
  <2>1. DOMAIN cli.regex_excludes = 1 .. Len(cli.regex_excludes)
    BY <1>1 DEF OptionsOK
  <2>. QED BY <2>1 DEF FromRegexes, RegexRules
<1>. QED BY <1>1, <1>2, <1>3, <1>4, <1>5, SourceSet DEF RulesAt

(* The rules of a filter are the lines of its sources in their order, with *)
(* every merged file, on however many levels, in the place of its merge    *)
(* line and without what a later `clear' of any file dropped (from_cli,    *)
(* load_filter_file_inner, add_filter_from).                               *)
THEOREM RulesInPlaceOfTheirMerges == Spec => []RulesAreTheUnfoldedLines
BY UAlways, URules, PTL

-----------------------------------------------------------------------------
(* The tokens of a pattern.                                                *)

RangeAt(pat, i) == i + 2 <= Len(pat) /\ pat[i + 1] = "-" /\ pat[i + 2] # "]"

ClassRow(g, pat, first, i) ==
  CASE i > Len(pat) -> [of |-> {}, next |-> 0]
    [] i <= Len(pat) /\ pat[i] = "]" /\ i # first -> [of |-> {}, next |-> i + 1]
    [] OTHER ->
         [of |-> (IF RangeAt(pat, i) THEN Span(pat[i], pat[i + 2]) ELSE {pat[i]})
                   \cup g[IF RangeAt(pat, i) THEN i + 3 ELSE i + 1].of,
          next |-> g[IF RangeAt(pat, i) THEN i + 3 ELSE i + 1].next]

\* where the row at i looks
ClassOn(pat, i) == IF RangeAt(pat, i) THEN i + 3 ELSE i + 1

Closes(pat, first, i) == i <= Len(pat) /\ pat[i] = "]" /\ i # first

Past == [of |-> {}, next |-> 0]
GoneOn(g, pat, i) ==
  [of |-> (IF RangeAt(pat, i) THEN Span(pat[i], pat[i + 2]) ELSE {pat[i]})
            \cup g[ClassOn(pat, i)].of,
   next |-> g[ClassOn(pat, i)].next]

LEMMA ClassRowIs ==
  ASSUME NEW pat, NEW first, NEW i, NEW g
  PROVE  ClassRow(g, pat, first, i) =
           CASE i > Len(pat) -> Past [] Closes(pat, first, i) -> [of |-> {}, next |-> i + 1]
             [] OTHER -> GoneOn(g, pat, i)
BY DEF ClassRow, Closes, Past, GoneOn, ClassOn

LEMMA ClassPast ==
  ASSUME NEW S, NEW pat \in Seq(S), NEW first, NEW i \in Nat, NEW g, i > Len(pat)
  PROVE  ClassRow(g, pat, first, i) = Past
<1>1. i > Len(pat) /\ ~Closes(pat, first, i)
  BY DEF Closes
<1>. QED BY <1>1, ClassRowIs, Zenon

LEMMA ClassCloses ==
  ASSUME NEW S, NEW pat \in Seq(S), NEW first, NEW i \in Nat, NEW g, Closes(pat, first, i)
  PROVE  ClassRow(g, pat, first, i) = [of |-> {}, next |-> i + 1]
<1>1. ~(i > Len(pat))
  BY DEF Closes
<1>. QED BY <1>1, ClassRowIs, Zenon

LEMMA ClassGoesOn ==
  ASSUME NEW pat, NEW first, NEW i, NEW g, ~(i > Len(pat)), ~Closes(pat, first, i)
  PROVE  ClassRow(g, pat, first, i) = GoneOn(g, pat, i)
BY ClassRowIs, Zenon

LEMMA ClassOnFacts ==
  ASSUME NEW S, NEW pat \in Seq(S), NEW i \in 1 .. Len(pat) + 1, ~(i > Len(pat))
  PROVE  ClassOn(pat, i) \in 1 .. Len(pat) + 1 /\ i < ClassOn(pat, i)
BY DEF ClassOn, RangeAt

LEMMA ClassExists ==
  ASSUME NEW S, NEW pat \in Seq(S), NEW first
  PROVE  \E g : g = [i \in 1 .. Len(pat) + 1 |-> ClassRow(g, pat, first, i)]
<1>. DEFINE m == Len(pat) + 1
            W == S \cup ToSet(Alphabet)
            V == [of : SUBSET W, next : Nat]
            R == [i \in 1 .. m |-> [g \in [1 .. m -> V] |-> ClassRow(g, pat, first, i)]]
<1>1. m \in Nat /\ Len(pat) \in Nat /\ V # {}
  <2>1. {} \in SUBSET W /\ 0 \in Nat
    OBVIOUS
  <2>2. [of |-> {}, next |-> 0] \in V
    BY <2>1
  <2>3. V # {}
    BY <2>2, Zenon
  <2>. QED BY <2>3
<1>2. R \in [1 .. m -> [[1 .. m -> V] -> V]]
  <2>. SUFFICES ASSUME NEW i \in 1 .. m, NEW g \in [1 .. m -> V]
                PROVE  ClassRow(g, pat, first, i) \in V
    OBVIOUS
  <2>1. CASE i > Len(pat)
    <3>1. ClassRow(g, pat, first, i) = Past
      BY <2>1, ClassPast
    <3>2. {} \in SUBSET W /\ 0 \in Nat
      OBVIOUS
    <3>3. Past \in V
      BY <3>2 DEF Past
    <3>. QED BY <3>1, <3>3
  <2>2. CASE Closes(pat, first, i)
    BY <2>2, ClassCloses
  <2>3. CASE ~(i > Len(pat)) /\ ~Closes(pat, first, i)
    <3>1. ClassOn(pat, i) \in 1 .. m
      BY <2>3, ClassOnFacts
    <3>2. PICK v \in V : v = g[ClassOn(pat, i)]
      BY <3>1
    <3>3. PICK chars : chars = IF RangeAt(pat, i) THEN Span(pat[i], pat[i + 2]) ELSE {pat[i]}
      OBVIOUS
    <3>4. chars \subseteq W
      <4>1. pat[i] \in S
        BY <1>1, <2>3
      <4>2. \A a, b : Span(a, b) \subseteq ToSet(Alphabet)
        BY DEF Span
      <4>. QED BY <3>3, <4>1, <4>2
    <3>5. ClassRow(g, pat, first, i) = [of |-> chars \cup v.of, next |-> v.next]
      BY <2>3, <3>2, <3>3, ClassGoesOn DEF GoneOn
    <3>. QED BY <3>2, <3>4, <3>5
  <2>. QED BY <2>1, <2>2, <2>3
<1>3. ASSUME NEW i \in 1 .. m, NEW g \in [1 .. m -> V], NEW h \in [1 .. m -> V],
             \A j \in 1 .. m : i < j => g[j] = h[j]
      PROVE  R[i][g] = R[i][h]
  <2>1. ~(i > Len(pat)) => g[ClassOn(pat, i)] = h[ClassOn(pat, i)]
    BY <1>3, ClassOnFacts
  <2>2. ClassRow(g, pat, first, i) = ClassRow(h, pat, first, i)
    <3>1. CASE i > Len(pat)
      BY <3>1, ClassPast
    <3>2. CASE Closes(pat, first, i)
      <4>1. i \in Nat
        BY <1>1
      <4>2. ClassRow(g, pat, first, i) = [of |-> {}, next |-> i + 1]
        BY <3>2, <4>1, ClassCloses
      <4>3. ClassRow(h, pat, first, i) = [of |-> {}, next |-> i + 1]
        BY <3>2, <4>1, ClassCloses
      <4>. QED BY <4>2, <4>3
    <3>3. CASE ~(i > Len(pat)) /\ ~Closes(pat, first, i)
      BY <2>1, <3>3, ClassGoesOn DEF GoneOn
    <3>. QED BY <3>1, <3>2, <3>3
  <2>. QED BY <2>2
<1>4. PICK g \in [1 .. m -> V] : \A i \in 1 .. m : g[i] = R[i][g]
  <2>. HIDE DEF m, V, R
  <2>1. FromAbove(R, m, V)
    BY <1>3 DEF FromAbove
  <2>2. SolvedFromAbove(R, m, V)
    BY <1>1, <1>2, <2>1, DownRecursion
  <2>. QED BY <2>2 DEF SolvedFromAbove
<1>. QED BY <1>4

FirstOf(pat, start) ==
  IF start < Len(pat) /\ pat[start + 1] \in {"!", "^"} THEN start + 2 ELSE start + 1

\* a class is one token; the text after it goes on behind the two characters it has at least
LEMMA ClassFacts ==
  ASSUME NEW S, NEW pat \in Seq(S), NEW start \in 1 .. Len(pat)
  PROVE  /\ parse_class(pat, start).next \in {0} \cup (start + 1) .. (Len(pat) + 1)
         /\ parse_class(pat, start).tok.kind \in {"class", "negated"}
<1>. DEFINE first == FirstOf(pat, start)
            Row(f) == [i \in 1 .. Len(pat) + 1 |->
                         CASE i > Len(pat) -> [of |-> {}, next |-> 0]
                           [] i <= Len(pat) /\ pat[i] = "]" /\ i # first -> [of |-> {}, next |-> i + 1]
                           [] OTHER ->
                                [of |-> (IF i + 2 <= Len(pat) /\ pat[i + 1] = "-" /\ pat[i + 2] # "]"
                                         THEN Span(pat[i], pat[i + 2]) ELSE {pat[i]})
                                          \cup f[IF i + 2 <= Len(pat) /\ pat[i + 1] = "-" /\ pat[i + 2] # "]"
                                                 THEN i + 3 ELSE i + 1].of,
                                 next |-> f[IF i + 2 <= Len(pat) /\ pat[i + 1] = "-" /\ pat[i + 2] # "]"
                                            THEN i + 3 ELSE i + 1].next]]
            c == CHOOSE f : f = Row(f)
<1>1. \E g : g = Row(g)
  <2>1. PICK g : g = [i \in 1 .. Len(pat) + 1 |-> ClassRow(g, pat, first, i)]
    BY ClassExists, SMTT(30)
  <2>2. Row(g) = [i \in 1 .. Len(pat) + 1 |-> ClassRow(g, pat, first, i)]
    BY DEF ClassRow, RangeAt
  <2>. HIDE DEF Row
  <2>. QED BY <2>1, <2>2
<1>2. c = Row(c)
  <2>. HIDE DEF Row
  <2>. QED BY <1>1
<1>3. /\ parse_class(pat, start).next = c[first].next
      /\ parse_class(pat, start).tok.kind \in {"class", "negated"}
  BY DEF parse_class, FirstOf
<1>. HIDE DEF c
<1>4. Len(pat) \in Nat /\ first \in (start + 1) .. (Len(pat) + 1) /\ first \in 1 .. (Len(pat) + 1)
  BY DEF FirstOf
<1>5. \A i \in 1 .. Len(pat) + 1 : c[i] = ClassRow(c, pat, first, i)
  BY <1>2 DEF ClassRow, RangeAt
<1>. HIDE DEF Row, first
<1>. DEFINE G == {n \in Nat : \A i \in 1 .. Len(pat) + 1 :
                     Len(pat) + 1 - n <= i => c[i].next \in {0} \cup (i + 1) .. (Len(pat) + 1)}
<1>6. 0 \in G
  <2>. SUFFICES ASSUME NEW i \in 1 .. Len(pat) + 1, Len(pat) + 1 - 0 <= i PROVE c[i].next = 0
    OBVIOUS
  <2>1. i > Len(pat)
    BY <1>4
  <2>. QED BY <1>5, <2>1, ClassPast, SMTT(30) DEF Past
<1>7. ASSUME NEW n \in G, n \in Nat, n < Len(pat) + 1 PROVE n + 1 \in G
  <2>. SUFFICES ASSUME NEW i \in 1 .. Len(pat) + 1, Len(pat) + 1 - (n + 1) <= i
                PROVE  c[i].next \in {0} \cup (i + 1) .. (Len(pat) + 1)
    OBVIOUS
  <2>1. CASE i > Len(pat)
    BY <1>5, <2>1, ClassPast DEF Past
  <2>2. CASE Closes(pat, first, i)
    <3>1. c[i].next = i + 1
      BY <1>5, <2>2, ClassCloses
    <3>. QED BY <1>4, <2>2, <3>1 DEF Closes
  <2>3. CASE ~(i > Len(pat)) /\ ~Closes(pat, first, i)
    <3>1. PICK k \in 1 .. Len(pat) + 1 : k = ClassOn(pat, i) /\ i < k
      BY <2>3, ClassOnFacts
    <3>2. c[i].next = c[k].next
      BY <1>5, <2>3, <3>1, ClassGoesOn DEF GoneOn
    <3>3. Len(pat) + 1 - n <= k
      BY <1>4, <3>1
    <3>4. c[k].next \in {0} \cup (k + 1) .. (Len(pat) + 1)
      BY <3>1, <3>3
    <3>. QED BY <1>4, <3>1, <3>2, <3>4
  <2>. QED BY <2>1, <2>2, <2>3
<1>8. Len(pat) + 1 \in G
  <2>. HIDE DEF G
  <2>1. \A n \in 0 .. (Len(pat) + 1) : n \in G
    BY <1>4, <1>6, <1>7, BoundedInduction
  <2>. QED BY <1>4, <2>1
<1>9. c[first].next \in {0} \cup (first + 1) .. (Len(pat) + 1)
  BY <1>4, <1>8
<1>. QED BY <1>3, <1>4, <1>9

LEMMA PastStarsFacts ==
  ASSUME NEW S, NEW pat \in Seq(S), NEW i \in 1 .. Len(pat), pat[i] = "*"
  PROVE  PastStars(pat, i) \in (i + 1) .. (Len(pat) + 1)
<1>. DEFINE K == {k \in i .. Len(pat) + 1 : \A j \in i .. k - 1 : pat[j] = "*"}
<1>1. Len(pat) \in Nat /\ i + 1 \in i .. Len(pat) + 1
  OBVIOUS
<1>2. i + 1 \in K
  <2>1. \A j \in i .. (i + 1) - 1 : j = i
    OBVIOUS
  <2>. QED BY <1>1, <2>1
<1>3. K \subseteq Nat /\ K # {} /\ \A k \in K : k <= Len(pat) + 1
  BY <1>1, <1>2
<1>4. Max(K) \in K /\ \A k \in K : Max(K) >= k
  <2>1. PICK n \in Nat : n = Len(pat) + 1
    BY <1>1
  <2>. HIDE DEF K
  <2>. QED BY <1>3, <2>1, MaxIsGreatest
<1>5. PastStars(pat, i) = Max(K)
  BY DEF PastStars
<1>. QED BY <1>1, <1>2, <1>4, <1>5

TokensOf(pat) ==
  {Malformed, Ques, Star, GlobStar} \cup {Lit(pat[i]) : i \in 1 .. Len(pat)}
    \cup {parse_class(pat, i).tok : i \in 1 .. Len(pat)}

\* the token that begins at i, and where the text goes on (0 after an error)
TokenAt(pat, i) ==
  CASE pat[i] = "\\" -> IF i = Len(pat) THEN Malformed ELSE Lit(pat[i + 1])
    [] pat[i] = "?"  -> Ques
    [] pat[i] = "*"  -> IF PastStars(pat, i) = i + 1 THEN Star ELSE GlobStar
    [] pat[i] = "["  -> IF parse_class(pat, i).next = 0 THEN Malformed ELSE parse_class(pat, i).tok
    [] OTHER         -> Lit(pat[i])

TokenOn(pat, i) ==
  CASE pat[i] = "\\" -> IF i = Len(pat) THEN 0 ELSE i + 2
    [] pat[i] = "?"  -> i + 1
    [] pat[i] = "*"  -> PastStars(pat, i)
    [] pat[i] = "["  -> parse_class(pat, i).next
    [] OTHER         -> i + 1

LEMMA TokenFacts ==
  ASSUME NEW S, NEW pat \in Seq(S), NEW i \in 1 .. Len(pat)
  PROVE  /\ TokenAt(pat, i) \in TokensOf(pat)
         /\ TokenOn(pat, i) \in {0} \cup (i + 1) .. (Len(pat) + 1)
<1>1. Len(pat) \in Nat
  OBVIOUS
<1>2. CASE pat[i] = "\\"
  <2>1. TokenAt(pat, i) = (IF i = Len(pat) THEN Malformed ELSE Lit(pat[i + 1]))
        /\ TokenOn(pat, i) = (IF i = Len(pat) THEN 0 ELSE i + 2)
    BY <1>2 DEF TokenAt, TokenOn
  <2>2. i # Len(pat) => i + 1 \in 1 .. Len(pat) /\ i + 2 \in (i + 1) .. (Len(pat) + 1)
    BY <1>1
  <2>. QED BY <2>1, <2>2 DEF TokensOf
<1>3. CASE pat[i] = "?"
  <2>1. TokenAt(pat, i) = Ques /\ TokenOn(pat, i) = i + 1
    BY <1>3 DEF TokenAt, TokenOn
  <2>. QED BY <1>1, <2>1 DEF TokensOf
<1>4. CASE pat[i] = "*"
  <2>1. TokenAt(pat, i) \in {Star, GlobStar} /\ TokenOn(pat, i) = PastStars(pat, i)
    BY <1>4 DEF TokenAt, TokenOn
  <2>2. PastStars(pat, i) \in (i + 1) .. (Len(pat) + 1)
    BY <1>4, PastStarsFacts
  <2>. QED BY <2>1, <2>2 DEF TokensOf
<1>5. CASE pat[i] = "["
  <2>1. TokenAt(pat, i) \in {Malformed, parse_class(pat, i).tok}
        /\ TokenOn(pat, i) = parse_class(pat, i).next
    BY <1>5 DEF TokenAt, TokenOn
  <2>2. parse_class(pat, i).next \in {0} \cup (i + 1) .. (Len(pat) + 1)
    BY ClassFacts
  <2>. QED BY <2>1, <2>2 DEF TokensOf
<1>6. CASE pat[i] \notin {"\\", "?", "*", "["}
  <2>1. TokenAt(pat, i) = Lit(pat[i]) /\ TokenOn(pat, i) = i + 1
    BY <1>6 DEF TokenAt, TokenOn
  <2>. QED BY <1>1, <2>1 DEF TokensOf
<1>. QED BY <1>2, <1>3, <1>4, <1>5, <1>6

TokenRow(g, pat, i) ==
  IF i > Len(pat) THEN <<>>
  ELSE IF TokenOn(pat, i) = 0 THEN <<TokenAt(pat, i)>>
       ELSE <<TokenAt(pat, i)>> \o g[TokenOn(pat, i)]

SourceRow(g, pat, i) ==
  IF i > Len(pat) THEN <<>>
  ELSE CASE pat[i] = "\\" ->
              IF i = Len(pat) THEN <<Malformed>> ELSE <<Lit(pat[i + 1])>> \o g[i + 2]
         [] pat[i] = "?" -> <<Ques>> \o g[i + 1]
         [] pat[i] = "*" ->
              <<IF PastStars(pat, i) = i + 1 THEN Star ELSE GlobStar>> \o g[PastStars(pat, i)]
         [] pat[i] = "[" ->
              IF parse_class(pat, i).next = 0 THEN <<Malformed>>
              ELSE <<parse_class(pat, i).tok>> \o g[parse_class(pat, i).next]
         [] OTHER -> <<Lit(pat[i])>> \o g[i + 1]

LEMMA SourceRowIs ==
  ASSUME NEW S, NEW pat \in Seq(S), NEW i \in 1 .. Len(pat) + 1, NEW g
  PROVE  SourceRow(g, pat, i) = TokenRow(g, pat, i)
<1>1. CASE i > Len(pat)
  BY <1>1 DEF SourceRow, TokenRow
<1>2. CASE i <= Len(pat)
  <2>1. i \in 1 .. Len(pat) /\ ~(i > Len(pat)) /\ i + 2 # 0 /\ i + 1 # 0
    BY <1>2
  <2>2. CASE pat[i] = "\\"
    BY <2>1, <2>2 DEF SourceRow, TokenRow, TokenAt, TokenOn
  <2>3. CASE pat[i] = "?"
    BY <2>1, <2>3 DEF SourceRow, TokenRow, TokenAt, TokenOn
  <2>4. CASE pat[i] = "*"
    <3>1. PastStars(pat, i) # 0
      BY <2>1, <2>4, PastStarsFacts
    <3>. QED BY <2>1, <2>4, <3>1 DEF SourceRow, TokenRow, TokenAt, TokenOn
  <2>5. CASE pat[i] = "["
    BY <2>1, <2>5 DEF SourceRow, TokenRow, TokenAt, TokenOn
  <2>6. CASE pat[i] \notin {"\\", "?", "*", "["}
    BY <2>1, <2>6 DEF SourceRow, TokenRow, TokenAt, TokenOn
  <2>. QED BY <2>2, <2>3, <2>4, <2>5, <2>6
<1>. QED BY <1>1, <1>2

LEMMA TokensExist ==
  ASSUME NEW S, NEW pat \in Seq(S)
  PROVE  \E g \in [1 .. Len(pat) + 1 -> Seq(TokensOf(pat))] :
           \A i \in 1 .. Len(pat) + 1 : g[i] = TokenRow(g, pat, i)
<1>. DEFINE m == Len(pat) + 1
            T == TokensOf(pat)
            V == Seq(T)
            R == [i \in 1 .. m |-> [g \in [1 .. m -> V] |-> TokenRow(g, pat, i)]]
<1>1. m \in Nat /\ Len(pat) \in Nat /\ V # {}
  <2>1. <<>> \in V
    BY SeqOfNone
  <2>2. V # {}
    BY <2>1, Zenon
  <2>. QED BY <2>2
<1>2. R \in [1 .. m -> [[1 .. m -> V] -> V]]
  <2>. SUFFICES ASSUME NEW i \in 1 .. m, NEW g \in [1 .. m -> V]
                PROVE  TokenRow(g, pat, i) \in V
    OBVIOUS
  <2>1. CASE i > Len(pat)
    BY <2>1, SeqOfNone DEF TokenRow
  <2>2. CASE ~(i > Len(pat))
    <3>1. i \in 1 .. Len(pat)
      BY <1>1, <2>2
    <3>2. PICK t \in T : t = TokenAt(pat, i)
      BY <3>1, TokenFacts
    <3>3. PICK k : k = TokenOn(pat, i) /\ k \in {0} \cup (i + 1) .. (Len(pat) + 1)
      BY <3>1, TokenFacts
    <3>4. <<t>> \in Seq(T)
      <4>. HIDE DEF T
      <4>. QED BY SeqOfOne
    <3>5. CASE k = 0
      BY <2>2, <3>2, <3>3, <3>4, <3>5 DEF TokenRow
    <3>6. CASE k # 0
      <4>1. g[k] \in Seq(T)
        <5>1. k \in 1 .. m
          BY <1>1, <3>3, <3>6
        <5>. HIDE DEF T, m
        <5>. QED BY <5>1
      <4>2. <<t>> \o g[k] \in Seq(T)
        <5>. HIDE DEF T
        <5>. QED BY <3>4, <4>1, ConcatFacts
      <4>. QED BY <2>2, <3>2, <3>3, <3>6, <4>2 DEF TokenRow
    <3>. QED BY <3>5, <3>6
  <2>. QED BY <2>1, <2>2
<1>3. ASSUME NEW i \in 1 .. m, NEW g \in [1 .. m -> V], NEW h \in [1 .. m -> V],
             \A j \in 1 .. m : i < j => g[j] = h[j]
      PROVE  R[i][g] = R[i][h]
  <2>1. ~(i > Len(pat)) /\ TokenOn(pat, i) # 0 => g[TokenOn(pat, i)] = h[TokenOn(pat, i)]
    <3>. SUFFICES ASSUME ~(i > Len(pat)), TokenOn(pat, i) # 0
                  PROVE  g[TokenOn(pat, i)] = h[TokenOn(pat, i)]
      OBVIOUS
    <3>1. i \in 1 .. Len(pat)
      BY <1>1
    <3>2. TokenOn(pat, i) \in 1 .. m /\ i < TokenOn(pat, i)
      BY <1>1, <3>1, TokenFacts
    <3>. QED BY <1>3, <3>2
  <2>2. TokenRow(g, pat, i) = TokenRow(h, pat, i)
    BY <2>1 DEF TokenRow
  <2>. QED BY <2>2
<1>4. PICK g \in [1 .. m -> V] : \A i \in 1 .. m : g[i] = R[i][g]
  <2>. HIDE DEF m, V, R
  <2>1. FromAbove(R, m, V)
    BY <1>3 DEF FromAbove
  <2>2. SolvedFromAbove(R, m, V)
    BY <1>1, <1>2, <2>1, DownRecursion
  <2>. QED BY <2>2 DEF SolvedFromAbove
<1>. QED BY <1>4

\* g is what the loop of tokenize has from each place on
IsTokenizing(g, pat) ==
  /\ g \in [1 .. Len(pat) + 1 -> Seq(TokensOf(pat))]
  /\ \A i \in 1 .. Len(pat) + 1 : g[i] = TokenRow(g, pat, i)
  /\ tokenize(pat) = g[1]

LEMMA TokenizeFacts ==
  ASSUME NEW S, NEW pat \in Seq(S)
  PROVE  \E g : IsTokenizing(g, pat)
<1>. DEFINE Row(f) == [i \in 1 .. Len(pat) + 1 |->
              IF i > Len(pat) THEN <<>>
              ELSE CASE pat[i] = "\\" ->
                          IF i = Len(pat) THEN <<Malformed>> ELSE <<Lit(pat[i + 1])>> \o f[i + 2]
                     [] pat[i] = "?" -> <<Ques>> \o f[i + 1]
                     [] pat[i] = "*" ->
                          <<IF PastStars(pat, i) = i + 1 THEN Star ELSE GlobStar>>
                            \o f[PastStars(pat, i)]
                     [] pat[i] = "[" ->
                          IF parse_class(pat, i).next = 0 THEN <<Malformed>>
                          ELSE <<parse_class(pat, i).tok>> \o f[parse_class(pat, i).next]
                     [] OTHER -> <<Lit(pat[i])>> \o f[i + 1]]
            c == CHOOSE f : f = Row(f)
<1>1. PICK g \in [1 .. Len(pat) + 1 -> Seq(TokensOf(pat))] :
        \A i \in 1 .. Len(pat) + 1 : g[i] = TokenRow(g, pat, i)
  BY TokensExist
<1>2. Len(pat) \in Nat /\ 1 \in 1 .. Len(pat) + 1
  OBVIOUS
<1>3. ASSUME NEW f PROVE Row(f) = [i \in 1 .. Len(pat) + 1 |-> TokenRow(f, pat, i)]
  <2>1. Row(f) = [i \in 1 .. Len(pat) + 1 |-> SourceRow(f, pat, i)]
    BY Zenon DEF SourceRow
  <2>. HIDE DEF Row
  <2>. QED BY <2>1, SourceRowIs
<1>4. tokenize(pat) = c[1]
  BY DEF tokenize
<1>. HIDE DEF Row
<1>5. g = Row(g)
  BY <1>1, <1>3
<1>6. c = Row(c)
  BY <1>5
<1>. HIDE DEF c
<1>7. \A i \in 1 .. Len(pat) + 1 : c[i] = TokenRow(c, pat, i)
  BY <1>3, <1>6
<1>8. EqualFromAbove(c, g, Len(pat) + 1)
  <2>. SUFFICES ASSUME NEW i \in 1 .. Len(pat) + 1,
                       \A j \in 1 .. Len(pat) + 1 : i < j => c[j] = g[j]
                PROVE  c[i] = g[i]
    BY DEF EqualFromAbove
  <2>1. TokenRow(c, pat, i) = TokenRow(g, pat, i)
    <3>1. CASE i > Len(pat)
      BY <3>1 DEF TokenRow
    <3>2. CASE ~(i > Len(pat))
      <4>1. i \in 1 .. Len(pat)
        BY <1>2, <3>2
      <4>2. PICK k : k = TokenOn(pat, i) /\ k \in {0} \cup (i + 1) .. (Len(pat) + 1)
        BY <4>1, TokenFacts
      <4>3. k # 0 => c[k] = g[k]
        BY <1>2, <4>2
      <4>. QED BY <3>2, <4>2, <4>3 DEF TokenRow
    <3>. QED BY <3>1, <3>2
  <2>. QED BY <1>1, <1>7, <2>1
<1>9. \A i \in 1 .. Len(pat) + 1 : c[i] = g[i]
  <2>1. Len(pat) + 1 \in Nat
    BY <1>2
  <2>. QED BY <1>8, <2>1, DownUnique
<1>. QED BY <1>1, <1>2, <1>4, <1>9 DEF IsTokenizing

LEMMA TokenizeType ==
  ASSUME NEW S, NEW pat \in Seq(S)
  PROVE  tokenize(pat) \in Seq(TokensOf(pat))
<1>1. PICK g : IsTokenizing(g, pat)
  BY TokenizeFacts
<1>2. 1 \in 1 .. Len(pat) + 1
  OBVIOUS
<1>. QED BY <1>1, <1>2 DEF IsTokenizing

\* of the tokens only `**' has its kind
LEMMA GlobStarAlone ==
  ASSUME NEW S, NEW pat \in Seq(S), NEW tok \in TokensOf(pat), tok.kind = "globstar"
  PROVE  tok = GlobStar
<1>1. \A i \in 1 .. Len(pat) : parse_class(pat, i).tok.kind # "globstar"
  BY ClassFacts
<1>2. \A x : Lit(x).kind # "globstar"
  BY DEF Lit
<1>3. Malformed.kind # "globstar" /\ Ques.kind # "globstar" /\ Star.kind # "globstar"
  BY DEF Malformed, Ques, Star
<1>. QED BY <1>1, <1>2, <1>3 DEF TokensOf

-----------------------------------------------------------------------------
(* The matcher finds a way through the text exactly when the text can be   *)
(* cut as the tokens say.                                                  *)

SkipsSlash(pat, i) == i < Len(pat) /\ pat[i] = GlobStar /\ pat[i + 1] = Lit("/")

\* the rest of the text from ti on is matched by the tokens from pi on
MatchRow(g, pat, text, pi) ==
  [ti \in 1 .. Len(text) + 1 |->
     IF pi > Len(pat) THEN ti > Len(text)
     ELSE CASE pat[pi].kind = "globstar" ->
                 \E k \in ti .. Len(text) + 1 :
                   \/ g[pi + 1][k]
                   \/ /\ pi < Len(pat) /\ pat[pi + 1] = Lit("/")
                      /\ k = ti \/ text[k - 1] = "/"
                      /\ g[pi + 2][k]
            [] pat[pi].kind = "star" ->
                 \E k \in ti .. Len(text) + 1 :
                   /\ \A j \in ti .. k - 1 : text[j] # "/"
                   /\ g[pi + 1][k]
            [] OTHER -> /\ ti <= Len(text) /\ OneMatches(pat[pi], text[ti])
                        /\ g[pi + 1][ti + 1]]

LEMMA MatchExists ==
  ASSUME NEW T, NEW pat \in Seq(T), NEW S, NEW text \in Seq(S)
  PROVE  \E g \in [1 .. Len(pat) + 1 -> [1 .. Len(text) + 1 -> BOOLEAN]] :
           \A pi \in 1 .. Len(pat) + 1 : g[pi] = MatchRow(g, pat, text, pi)
<1>. DEFINE m == Len(pat) + 1
            V == [1 .. Len(text) + 1 -> BOOLEAN]
            R == [i \in 1 .. m |-> [g \in [1 .. m -> V] |-> MatchRow(g, pat, text, i)]]
<1>1. m \in Nat /\ Len(pat) \in Nat /\ V # {}
  <2>1. [ti \in 1 .. Len(text) + 1 |-> TRUE] \in V
    OBVIOUS
  <2>2. V # {}
    BY <2>1, Zenon
  <2>. QED BY <2>2
<1>2. R \in [1 .. m -> [[1 .. m -> V] -> V]]
  <2>. SUFFICES ASSUME NEW i \in 1 .. m, NEW g \in [1 .. m -> V]
                PROVE  MatchRow(g, pat, text, i) \in V
    OBVIOUS
  <2>1. CASE i > Len(pat)
    BY <2>1 DEF MatchRow
  <2>2. CASE ~(i > Len(pat)) /\ pat[i].kind = "globstar"
    BY <2>2 DEF MatchRow
  <2>3. CASE ~(i > Len(pat)) /\ pat[i].kind # "globstar" /\ pat[i].kind = "star"
    BY <2>3 DEF MatchRow
  <2>4. CASE ~(i > Len(pat)) /\ pat[i].kind # "globstar" /\ pat[i].kind # "star"
    BY <2>4 DEF MatchRow
  <2>. QED BY <2>1, <2>2, <2>3, <2>4
<1>3. ASSUME NEW i \in 1 .. m, NEW g \in [1 .. m -> V], NEW h \in [1 .. m -> V],
             \A j \in 1 .. m : i < j => g[j] = h[j]
      PROVE  R[i][g] = R[i][h]
  <2>1. ~(i > Len(pat)) => g[i + 1] = h[i + 1]
    BY <1>1, <1>3
  <2>2. i < Len(pat) => g[i + 2] = h[i + 2]
    BY <1>1, <1>3
  <2>3. MatchRow(g, pat, text, i) = MatchRow(h, pat, text, i)
    <3>1. CASE i > Len(pat)
      BY <3>1 DEF MatchRow
    <3>2. CASE i < Len(pat)
      BY <1>1, <2>1, <2>2, <3>2 DEF MatchRow
    <3>3. CASE i = Len(pat)
      BY <1>1, <2>1, <3>3 DEF MatchRow
    <3>. QED BY <1>1, <3>1, <3>2, <3>3
  <2>. QED BY <2>3
<1>4. PICK g \in [1 .. m -> V] : \A i \in 1 .. m : g[i] = R[i][g]
  <2>. HIDE DEF m, V, R
  <2>1. FromAbove(R, m, V)
    BY <1>3 DEF FromAbove
  <2>2. SolvedFromAbove(R, m, V)
    BY <1>1, <1>2, <2>1, DownRecursion
  <2>. QED BY <2>2 DEF SolvedFromAbove
<1>. QED BY <1>4

\* the tokens from i on match what is behind b characters of the text
IsMatching(g, pat, text) ==
  /\ \A i \in 1 .. Len(pat) + 1 : g[i] = MatchRow(g, pat, text, i)
  /\ match_tokens(pat, text) <=> g[1][1]

LEMMA MatchFacts ==
  ASSUME NEW T, NEW pat \in Seq(T), NEW S, NEW text \in Seq(S)
  PROVE  \E g : IsMatching(g, pat, text)
<1>. DEFINE Row(f) == [pi \in 1 .. Len(pat) + 1 |-> [ti \in 1 .. Len(text) + 1 |->
        IF pi > Len(pat) THEN ti > Len(text)
        ELSE CASE pat[pi].kind = "globstar" ->
                    \E k \in ti .. Len(text) + 1 :
                      \/ f[pi + 1][k]
                      \/ /\ pi < Len(pat) /\ pat[pi + 1] = Lit("/")
                         /\ k = ti \/ text[k - 1] = "/"
                         /\ f[pi + 2][k]
               [] pat[pi].kind = "star" ->
                    \E k \in ti .. Len(text) + 1 :
                      /\ \A j \in ti .. k - 1 : text[j] # "/"
                      /\ f[pi + 1][k]
               [] OTHER -> /\ ti <= Len(text) /\ OneMatches(pat[pi], text[ti])
                           /\ f[pi + 1][ti + 1]]]
            c == CHOOSE f : f = Row(f)
<1>1. PICK g \in [1 .. Len(pat) + 1 -> [1 .. Len(text) + 1 -> BOOLEAN]] :
        \A pi \in 1 .. Len(pat) + 1 : g[pi] = MatchRow(g, pat, text, pi)
  BY MatchExists
<1>2. ASSUME NEW f PROVE Row(f) = [pi \in 1 .. Len(pat) + 1 |-> MatchRow(f, pat, text, pi)]
  BY Zenon DEF MatchRow
<1>3. match_tokens(pat, text) <=> c[1][1]
  BY DEF match_tokens
<1>. HIDE DEF Row
<1>4. g = Row(g)
  BY <1>1, <1>2
<1>5. c = Row(c)
  BY <1>4
<1>. HIDE DEF c
<1>6. \A i \in 1 .. Len(pat) + 1 : c[i] = MatchRow(c, pat, text, i)
  BY <1>2, <1>5
<1>. QED BY <1>3, <1>6 DEF IsMatching

\* the set has no other token of the kind of `**'
MatchKinds(T) == \A tok \in T : tok.kind = "globstar" => tok = GlobStar

\* one step of the matcher, in the terms of the description
LEMMA MatchStep ==
  ASSUME NEW T, NEW pat \in Seq(T), NEW S, NEW text \in Seq(S), NEW g, IsMatching(g, pat, text),
         MatchKinds(T),
         NEW i \in 1 .. Len(pat), NEW b \in 0 .. Len(text)
  PROVE  g[i][b + 1] <=>
           \E e \in b .. Len(text) :
             \/ StandsFor(pat[i], SubSeq(text, b + 1, e)) /\ g[i + 1][e + 1]
             \/ SkipsSlash(pat, i) /\ (e = b \/ text[e] = "/") /\ g[i + 2][e + 1]
<1>. DEFINE Stands(e) == StandsFor(pat[i], SubSeq(text, b + 1, e))
            Skips(e)  == SkipsSlash(pat, i) /\ (e = b \/ text[e] = "/")
<1>1. /\ Len(text) \in Nat /\ Len(pat) \in Nat /\ b + 1 \in 1 .. Len(text) + 1
      /\ ~(i > Len(pat)) /\ i \in 1 .. Len(pat) + 1 /\ pat[i] \in T
  OBVIOUS
<1>2. g[i] = MatchRow(g, pat, text, i)
  BY <1>1 DEF IsMatching
<1>3. ASSUME NEW e \in b .. Len(text)
      PROVE  /\ e + 1 \in (b + 1) .. (Len(text) + 1) /\ (e + 1) - 1 = e
  BY <1>1
<1>4. ASSUME NEW k \in (b + 1) .. (Len(text) + 1)
      PROVE  k - 1 \in b .. Len(text) /\ (k - 1) + 1 = k
  BY <1>1
<1>5. CASE pat[i].kind = "globstar"
  <2>1. pat[i] = GlobStar
    BY <1>1, <1>5 DEF MatchKinds
  <2>2. \A e : Stands(e)
    BY <1>5 DEF StandsFor
  <2>3. g[i][b + 1] <=>
          \E k \in (b + 1) .. (Len(text) + 1) :
             \/ g[i + 1][k]
             \/ /\ i < Len(pat) /\ pat[i + 1] = Lit("/")
                /\ k = b + 1 \/ text[k - 1] = "/"
                /\ g[i + 2][k]
    BY <1>1, <1>2, <1>5 DEF MatchRow
  <2>4. ASSUME NEW k \in (b + 1) .. (Len(text) + 1), NEW e \in b .. Len(text), k = e + 1
        PROVE  (\/ g[i + 1][k]
                \/ /\ i < Len(pat) /\ pat[i + 1] = Lit("/")
                   /\ k = b + 1 \/ text[k - 1] = "/"
                   /\ g[i + 2][k])
               <=> (Stands(e) /\ g[i + 1][e + 1]) \/ (Skips(e) /\ g[i + 2][e + 1])
    <3>1. (k = b + 1 <=> e = b) /\ k - 1 = e
      BY <1>1, <2>4
    <3>. HIDE DEF Stands
    <3>. QED BY <2>1, <2>2, <2>4, <3>1 DEF SkipsSlash
  <2>. HIDE DEF Stands, Skips
  <2>5. g[i][b + 1] <=> \E e \in b .. Len(text) :
                          (Stands(e) /\ g[i + 1][e + 1]) \/ (Skips(e) /\ g[i + 2][e + 1])
    <3>1. ASSUME g[i][b + 1]
          PROVE  \E e \in b .. Len(text) :
                    (Stands(e) /\ g[i + 1][e + 1]) \/ (Skips(e) /\ g[i + 2][e + 1])
      <4>1. PICK k \in (b + 1) .. (Len(text) + 1) :
               \/ g[i + 1][k]
               \/ /\ i < Len(pat) /\ pat[i + 1] = Lit("/")
                  /\ k = b + 1 \/ text[k - 1] = "/"
                  /\ g[i + 2][k]
        BY <2>3, <3>1
      <4>2. PICK e \in b .. Len(text) : k = e + 1
        BY <1>4
      <4>. QED BY <2>4, <4>1, <4>2
    <3>2. ASSUME NEW e \in b .. Len(text),
                 (Stands(e) /\ g[i + 1][e + 1]) \/ (Skips(e) /\ g[i + 2][e + 1])
          PROVE  g[i][b + 1]
      <4>1. PICK k \in (b + 1) .. (Len(text) + 1) : k = e + 1
        BY <1>3
      <4>. QED BY <2>3, <2>4, <3>2, <4>1
    <3>. QED BY <3>1, <3>2
  <2>. QED BY <2>5 DEF Stands, Skips
<1>6. CASE pat[i].kind = "star"
  <2>1. ~SkipsSlash(pat, i)
    BY <1>6 DEF SkipsSlash, GlobStar
  <2>2. g[i][b + 1] <=>
          \E k \in (b + 1) .. (Len(text) + 1) :
             /\ \A j \in (b + 1) .. k - 1 : text[j] # "/"
             /\ g[i + 1][k]
    BY <1>1, <1>2, <1>6 DEF MatchRow
  <2>3. ASSUME NEW k \in (b + 1) .. (Len(text) + 1), NEW e \in b .. Len(text), k = e + 1
        PROVE  (\A j \in (b + 1) .. k - 1 : text[j] # "/") <=> Stands(e)
    <3>1. k - 1 = e
      BY <1>1, <2>3
    <3>2. Stands(e) <=> \A j \in 1 .. e - b : text[b + j] # "/"
      <4>1. /\ Len(SubSeq(text, b + 1, e)) = e - b
            /\ \A j \in 1 .. e - b : SubSeq(text, b + 1, e)[j] = text[b + j]
        BY <1>1
      <4>2. Stands(e) <=> ~Contains(SubSeq(text, b + 1, e), "/")
        BY <1>6 DEF StandsFor
      <4>. HIDE DEF Stands
      <4>. QED BY <4>1, <4>2 DEF Contains
    <3>. HIDE DEF Stands
    <3>3. ASSUME \A j \in 1 .. e - b : text[b + j] # "/", NEW j \in (b + 1) .. e
          PROVE  text[j] # "/"
      <4>1. j - b \in 1 .. e - b /\ b + (j - b) = j
        BY <1>1
      <4>. QED BY <3>3, <4>1
    <3>4. ASSUME \A j \in (b + 1) .. e : text[j] # "/", NEW j \in 1 .. e - b
          PROVE  text[b + j] # "/"
      <4>1. b + j \in (b + 1) .. e
        BY <1>1
      <4>. QED BY <3>4, <4>1
    <3>. QED BY <3>1, <3>2, <3>3, <3>4
  <2>. HIDE DEF Stands
  <2>4. g[i][b + 1] <=> \E e \in b .. Len(text) : Stands(e) /\ g[i + 1][e + 1]
    <3>1. ASSUME g[i][b + 1]
          PROVE  \E e \in b .. Len(text) : Stands(e) /\ g[i + 1][e + 1]
      <4>1. PICK k \in (b + 1) .. (Len(text) + 1) :
               /\ \A j \in (b + 1) .. k - 1 : text[j] # "/"
               /\ g[i + 1][k]
        BY <2>2, <3>1
      <4>2. PICK e \in b .. Len(text) : k = e + 1
        BY <1>4
      <4>. QED BY <2>3, <4>1, <4>2
    <3>2. ASSUME NEW e \in b .. Len(text), Stands(e), g[i + 1][e + 1]
          PROVE  g[i][b + 1]
      <4>1. PICK k \in (b + 1) .. (Len(text) + 1) : k = e + 1
        BY <1>3
      <4>2. \A j \in (b + 1) .. k - 1 : text[j] # "/"
        BY <2>3, <3>2, <4>1
      <4>. QED BY <2>2, <3>2, <4>1, <4>2
    <3>. QED BY <3>1, <3>2
  <2>. QED BY <2>1, <2>4 DEF Stands
<1>7. CASE pat[i].kind \notin {"globstar", "star"}
  <2>1. ~SkipsSlash(pat, i)
    BY <1>7 DEF SkipsSlash, GlobStar
  <2>2. g[i][b + 1] <=> /\ b + 1 <= Len(text) /\ OneMatches(pat[i], text[b + 1])
                        /\ g[i + 1][(b + 1) + 1]
    BY <1>1, <1>2, <1>7 DEF MatchRow
  <2>3. ASSUME NEW e \in b .. Len(text)
        PROVE  Stands(e) <=> e = b + 1 /\ OneMatches(pat[i], text[b + 1])
    <3>1. /\ Len(SubSeq(text, b + 1, e)) = e - b
          /\ e = b + 1 => SubSeq(text, b + 1, e)[1] = text[b + 1]
      BY <1>1
    <3>2. e - b = 1 <=> e = b + 1
      BY <1>1
    <3>3. Stands(e) <=> /\ Len(SubSeq(text, b + 1, e)) = 1
                        /\ OneMatches(pat[i], SubSeq(text, b + 1, e)[1])
      BY <1>7 DEF StandsFor
    <3>. HIDE DEF Stands
    <3>. QED BY <3>1, <3>2, <3>3, Zenon
  <2>. HIDE DEF Stands
  <2>4. g[i][b + 1] <=> \E e \in b .. Len(text) : Stands(e) /\ g[i + 1][e + 1]
    <3>1. b + 1 <= Len(text) <=> b + 1 \in b .. Len(text)
      BY <1>1
    <3>. QED BY <2>2, <2>3, <3>1, Zenon
  <2>. QED BY <2>1, <2>4 DEF Stands
<1>. QED BY <1>5, <1>6, <1>7

\* the places where the pieces of the first i tokens can end
EndsRow(g, tokens, text, i) ==
  IF i = 0 THEN {0}
  ELSE {end \in 0 .. Len(text) :
          \/ \E begin \in g[i - 1] :
               begin <= end /\ StandsFor(tokens[i], SubSeq(text, begin + 1, end))
          \/ /\ end \in g[i - 1] /\ i > 1 /\ tokens[i - 1] = GlobStar /\ tokens[i] = Lit("/")
             /\ end \in g[i - 2] \/ text[end] = "/"}

LEMMA EndsExist ==
  ASSUME NEW T, NEW tokens \in Seq(T), NEW S, NEW text \in Seq(S)
  PROVE  \E g \in [0 .. Len(tokens) -> SUBSET (0 .. Len(text))] :
           \A i \in 0 .. Len(tokens) : g[i] = EndsRow(g, tokens, text, i)
<1>. DEFINE m == Len(tokens)
            V == SUBSET (0 .. Len(text))
            R == [i \in 0 .. m |-> [g \in [0 .. m -> V] |-> EndsRow(g, tokens, text, i)]]
<1>1. m \in Nat /\ Len(text) \in Nat /\ V # {}
  <2>1. {} \in V
    OBVIOUS
  <2>2. V # {}
    BY <2>1, Zenon
  <2>. QED BY <2>2
<1>2. R \in [0 .. m -> [[0 .. m -> V] -> V]]
  <2>. SUFFICES ASSUME NEW i \in 0 .. m, NEW g \in [0 .. m -> V]
                PROVE  EndsRow(g, tokens, text, i) \in V
    OBVIOUS
  <2>. QED BY <1>1 DEF EndsRow
<1>3. ASSUME NEW i \in 0 .. m, NEW g \in [0 .. m -> V], NEW h \in [0 .. m -> V],
             \A j \in 0 .. m : j < i => g[j] = h[j]
      PROVE  R[i][g] = R[i][h]
  <2>1. i # 0 => g[i - 1] = h[i - 1]
    BY <1>1, <1>3
  <2>2. i > 1 => g[i - 2] = h[i - 2]
    BY <1>1, <1>3
  <2>3. EndsRow(g, tokens, text, i) = EndsRow(h, tokens, text, i)
    BY <2>1, <2>2 DEF EndsRow
  <2>. QED BY <2>3
<1>4. \E g \in [0 .. m -> V] : \A i \in 0 .. m : g[i] = R[i][g]
  <2>. HIDE DEF m, V, R
  <2>1. FromBelow(R, m, V)
    BY <1>3 DEF FromBelow
  <2>2. SolvedFromBelow(R, m, V)
    BY <1>1, <1>2, <2>1, UpRecursion
  <2>. QED BY <2>2 DEF SolvedFromBelow
<1>. QED BY <1>4

IsCutting(g, tokens, text) ==
  /\ \A i \in 0 .. Len(tokens) : g[i] = EndsRow(g, tokens, text, i)
  /\ Described(tokens, text) <=> Len(text) \in g[Len(tokens)]

LEMMA CutFacts ==
  ASSUME NEW T, NEW tokens \in Seq(T), NEW S, NEW text \in Seq(S)
  PROVE  \E g : IsCutting(g, tokens, text)
<1>. DEFINE Row(f) == [i \in 0 .. Len(tokens) |->
        IF i = 0 THEN {0}
        ELSE {end \in 0 .. Len(text) :
                \/ \E begin \in f[i - 1] :
                     begin <= end /\ StandsFor(tokens[i], SubSeq(text, begin + 1, end))
                \/ /\ end \in f[i - 1] /\ i > 1 /\ tokens[i - 1] = GlobStar /\ tokens[i] = Lit("/")
                   /\ end \in f[i - 2] \/ text[end] = "/"}]
            c == CHOOSE f : f = Row(f)
<1>1. PICK g \in [0 .. Len(tokens) -> SUBSET (0 .. Len(text))] :
        \A i \in 0 .. Len(tokens) : g[i] = EndsRow(g, tokens, text, i)
  BY EndsExist
<1>2. ASSUME NEW f PROVE Row(f) = [i \in 0 .. Len(tokens) |-> EndsRow(f, tokens, text, i)]
  BY Zenon DEF EndsRow
<1>3. Described(tokens, text) <=> Len(text) \in c[Len(tokens)]
  BY DEF Described
<1>. HIDE DEF Row
<1>4. g = Row(g)
  BY <1>1, <1>2
<1>5. c = Row(c)
  BY <1>4
<1>. HIDE DEF c
<1>6. \A i \in 0 .. Len(tokens) : c[i] = EndsRow(c, tokens, text, i)
  BY <1>2, <1>5
<1>. QED BY <1>3, <1>6 DEF IsCutting

LEMMA CutStep ==
  ASSUME NEW T, NEW pat \in Seq(T), NEW S, NEW text \in Seq(S), NEW h, IsCutting(h, pat, text)
  PROVE  /\ h[0] = {0}
         /\ \A i \in 0 .. Len(pat) : h[i] \subseteq 0 .. Len(text)
         /\ \A i \in 1 .. Len(pat) : \A e \in 0 .. Len(text) :
              e \in h[i] <=>
                \/ \E b \in h[i - 1] : b <= e /\ StandsFor(pat[i], SubSeq(text, b + 1, e))
                \/ /\ e \in h[i - 1] /\ i > 1 /\ SkipsSlash(pat, i - 1)
                   /\ (e \in h[i - 2] \/ text[e] = "/")
<1>1. Len(pat) \in Nat /\ Len(text) \in Nat
  OBVIOUS
<1>2. \A i \in 0 .. Len(pat) : h[i] = EndsRow(h, pat, text, i)
  BY DEF IsCutting
<1>3. h[0] = {0}
  <2>1. EndsRow(h, pat, text, 0) = {0}
    BY Zenon DEF EndsRow
  <2>2. 0 \in 0 .. Len(pat)
    BY <1>1
  <2>. QED BY <1>2, <2>1, <2>2, Zenon
<1>4. ASSUME NEW i \in 0 .. Len(pat) PROVE h[i] \subseteq 0 .. Len(text)
  <2>1. CASE i = 0
    BY <1>1, <1>3, <2>1
  <2>2. CASE i # 0
    <3>1. EndsRow(h, pat, text, i) \subseteq 0 .. Len(text)
      BY <2>2, Zenon DEF EndsRow
    <3>. QED BY <1>2, <3>1, Zenon
  <2>. QED BY <2>1, <2>2
<1>5. ASSUME NEW i \in 1 .. Len(pat), NEW e \in 0 .. Len(text)
      PROVE  e \in h[i] <=>
                \/ \E b \in h[i - 1] : b <= e /\ StandsFor(pat[i], SubSeq(text, b + 1, e))
                \/ /\ e \in h[i - 1] /\ i > 1 /\ SkipsSlash(pat, i - 1)
                   /\ (e \in h[i - 2] \/ text[e] = "/")
  <2>1. i # 0 /\ i \in 0 .. Len(pat) /\ (i - 1) + 1 = i
        /\ (SkipsSlash(pat, i - 1) <=> pat[i - 1] = GlobStar /\ pat[i] = Lit("/"))
    BY <1>1 DEF SkipsSlash
  <2>2. e \in EndsRow(h, pat, text, i) <=>
          \/ \E b \in h[i - 1] : b <= e /\ StandsFor(pat[i], SubSeq(text, b + 1, e))
          \/ /\ e \in h[i - 1] /\ i > 1 /\ pat[i - 1] = GlobStar /\ pat[i] = Lit("/")
             /\ e \in h[i - 2] \/ text[e] = "/"
    BY <2>1 DEF EndsRow
  <2>. QED BY <1>2, <2>1, <2>2
<1>. QED BY <1>3, <1>4, <1>5

LEMMA CutsInText ==
  ASSUME NEW T, NEW pat \in Seq(T), NEW S, NEW text \in Seq(S), NEW h, IsCutting(h, pat, text),
         NEW i \in 0 .. Len(pat), NEW b \in h[i]
  PROVE  b \in 0 .. Len(text)
<1>1. \A k \in 0 .. Len(pat) : h[k] \subseteq 0 .. Len(text)
  BY CutStep
<1>. QED BY <1>1

\* what the matcher finds from a place that the pieces so far can end at is a cut
LEMMA MatchIsCut ==
  ASSUME NEW T, NEW pat \in Seq(T), NEW S, NEW text \in Seq(S), MatchKinds(T),
         NEW g, IsMatching(g, pat, text), NEW h, IsCutting(h, pat, text)
  PROVE  \A i \in 1 .. Len(pat) + 1 : \A b \in h[i - 1] :
            g[i][b + 1] => Len(text) \in h[Len(pat)]
<1>. DEFINE Ok(i) == \A b \in h[i - 1] : g[i][b + 1] => Len(text) \in h[Len(pat)]
            G == {n \in Nat : \A i \in 1 .. Len(pat) + 1 : Len(pat) + 1 - n <= i => Ok(i)}
<1>1. Len(pat) \in Nat /\ Len(text) \in Nat
  OBVIOUS
<1>2. Ok(Len(pat) + 1)
  <2>. SUFFICES ASSUME NEW b \in h[(Len(pat) + 1) - 1], g[Len(pat) + 1][b + 1]
                PROVE  Len(text) \in h[Len(pat)]
    OBVIOUS
  <2>1. (Len(pat) + 1) - 1 = Len(pat) /\ Len(pat) \in 0 .. Len(pat)
        /\ Len(pat) + 1 \in 1 .. Len(pat) + 1 /\ Len(pat) + 1 > Len(pat)
    BY <1>1
  <2>2. b \in h[Len(pat)] /\ b \in 0 .. Len(text)
    BY <2>1, CutsInText
  <2>3. b + 1 \in 1 .. Len(text) + 1
    BY <1>1, <2>2
  <2>4. g[Len(pat) + 1] = MatchRow(g, pat, text, Len(pat) + 1)
    BY <2>1 DEF IsMatching
  <2>5. b + 1 > Len(text)
    BY <2>1, <2>3, <2>4 DEF MatchRow
  <2>6. b = Len(text)
    BY <1>1, <2>2, <2>5
  <2>. QED BY <2>2, <2>6
<1>3. 0 \in G
  <2>. HIDE DEF Ok
  <2>. QED BY <1>1, <1>2
<1>4. ASSUME NEW n \in G, n \in Nat, n < Len(pat) + 1 PROVE n + 1 \in G
  <2>. SUFFICES ASSUME NEW i \in 1 .. Len(pat) + 1, Len(pat) + 1 - (n + 1) <= i PROVE Ok(i)
    <3>. HIDE DEF Ok
    <3>. QED OBVIOUS
  <2>1. CASE i = Len(pat) + 1
    <3>. HIDE DEF Ok
    <3>. QED BY <1>2, <2>1
  <2>2. CASE i # Len(pat) + 1
    <3>1. i \in 1 .. Len(pat) /\ i - 1 \in 0 .. Len(pat) /\ i + 1 \in 1 .. Len(pat) + 1
          /\ Len(pat) + 1 - n <= i + 1 /\ (i + 1) - 1 = i
      BY <1>1, <2>2
    <3>2. Ok(i + 1)
      <4>. HIDE DEF Ok
      <4>. QED BY <3>1
    <3>3. i < Len(pat) => i + 2 \in 1 .. Len(pat) + 1 /\ Len(pat) + 1 - n <= i + 2
                          /\ (i + 2) - 1 = i + 1 /\ i + 1 \in 1 .. Len(pat)
                          /\ (i + 1) - 2 = i - 1 /\ i + 1 > 1
      BY <1>1, <3>1
    <3>4. i < Len(pat) => Ok(i + 2)
      <4>. HIDE DEF Ok
      <4>. QED BY <3>3
    <3>. SUFFICES ASSUME NEW b \in h[i - 1], g[i][b + 1] PROVE Len(text) \in h[Len(pat)]
      OBVIOUS
    <3>5. b \in 0 .. Len(text)
      BY <3>1, CutsInText
    <3>6. PICK e \in b .. Len(text) :
             \/ StandsFor(pat[i], SubSeq(text, b + 1, e)) /\ g[i + 1][e + 1]
             \/ SkipsSlash(pat, i) /\ (e = b \/ text[e] = "/") /\ g[i + 2][e + 1]
      BY <3>1, <3>5, MatchStep
    <3>7. e \in 0 .. Len(text) /\ b <= e
      BY <3>5
    <3>8. StandsFor(pat[i], SubSeq(text, b + 1, e)) => e \in h[i]
      BY <3>1, <3>7, CutStep
    <3>9. CASE StandsFor(pat[i], SubSeq(text, b + 1, e)) /\ g[i + 1][e + 1]
      BY <3>1, <3>2, <3>8, <3>9
    <3>10. CASE SkipsSlash(pat, i) /\ (e = b \/ text[e] = "/") /\ g[i + 2][e + 1]
      <4>1. i < Len(pat) /\ pat[i] = GlobStar
        BY <3>10 DEF SkipsSlash
      <4>2. StandsFor(pat[i], SubSeq(text, b + 1, e))
        BY <4>1 DEF StandsFor, GlobStar
      <4>3. e \in h[i] /\ (e \in h[i - 1] \/ text[e] = "/")
        BY <3>8, <3>10, <4>2
      <4>4. e \in h[i + 1]
        <5>1. \A k \in 1 .. Len(pat) : k > 1 /\ e \in h[k - 1] /\ SkipsSlash(pat, k - 1)
                                        /\ (e \in h[k - 2] \/ text[e] = "/") => e \in h[k]
          BY <3>7, CutStep
        <5>. QED BY <3>1, <3>3, <3>10, <4>1, <4>3, <5>1
      <4>. QED BY <3>3, <3>4, <3>10, <4>1, <4>4
    <3>. QED BY <3>6, <3>9, <3>10
  <2>. QED BY <2>1, <2>2
<1>5. Len(pat) + 1 \in G
  <2>. HIDE DEF G
  <2>1. \A n \in 0 .. (Len(pat) + 1) : n \in G
    BY <1>1, <1>3, <1>4, BoundedInduction
  <2>. QED BY <1>1, <2>1
<1>6. \A i \in 1 .. Len(pat) + 1 : Ok(i)
  <2>. HIDE DEF Ok
  <2>. QED BY <1>1, <1>5
<1>. QED BY <1>6

\* the matcher finds every cut
LEMMA CutIsMatch ==
  ASSUME NEW T, NEW pat \in Seq(T), NEW S, NEW text \in Seq(S), MatchKinds(T),
         NEW g, IsMatching(g, pat, text), NEW h, IsCutting(h, pat, text)
  PROVE  \A i \in 0 .. Len(pat) : \A e \in h[i] : g[i + 1][e + 1] => g[1][1]
<1>. DEFINE Ok(i) == \A e \in h[i] : g[i + 1][e + 1] => g[1][1]
            G == {n \in Nat : \A i \in 0 .. Len(pat) : i <= n => Ok(i)}
<1>1. Len(pat) \in Nat /\ Len(text) \in Nat
  OBVIOUS
<1>2. 0 \in G
  <2>1. Ok(0)
    BY CutStep
  <2>. HIDE DEF Ok
  <2>. QED BY <2>1
<1>3. ASSUME NEW n \in G, n \in Nat, n < Len(pat) PROVE n + 1 \in G
  <2>. SUFFICES ASSUME NEW i \in 0 .. Len(pat), i <= n + 1, i # 0 PROVE Ok(i)
    <3>1. Ok(0)
      BY CutStep
    <3>. HIDE DEF Ok
    <3>. QED BY <3>1
  <2>1. i \in 1 .. Len(pat) /\ i - 1 \in 0 .. Len(pat) /\ i - 1 <= n /\ (i - 1) + 1 = i
    BY <1>1
  <2>2. Ok(i - 1)
    <3>. HIDE DEF Ok
    <3>. QED BY <2>1
  <2>. SUFFICES ASSUME NEW e \in h[i], g[i + 1][e + 1] PROVE g[1][1]
    OBVIOUS
  <2>3. e \in 0 .. Len(text)
    BY CutsInText
  <2>4. CASE \E b \in h[i - 1] : b <= e /\ StandsFor(pat[i], SubSeq(text, b + 1, e))
    <3>1. PICK b \in h[i - 1] : b <= e /\ StandsFor(pat[i], SubSeq(text, b + 1, e))
      BY <2>4
    <3>2. b \in 0 .. Len(text)
      BY <2>1, CutsInText
    <3>3. e \in b .. Len(text)
      BY <2>3, <3>1, <3>2
    <3>4. g[i][b + 1]
      BY <2>1, <3>1, <3>2, <3>3, MatchStep
    <3>. QED BY <2>1, <2>2, <3>4
  <2>5. CASE e \in h[i - 1] /\ i > 1 /\ SkipsSlash(pat, i - 1) /\ (e \in h[i - 2] \/ text[e] = "/")
    <3>1. PICK k \in 1 .. Len(pat) : k = i - 1 /\ k + 1 = i /\ k + 2 = i + 1 /\ k - 1 = i - 2
                                     /\ k - 1 \in 0 .. Len(pat) /\ k - 1 <= n
                                     /\ (k - 1) + 1 = k
      <4>1. i - 1 \in 1 .. Len(pat) /\ (i - 1) + 1 = i /\ (i - 1) + 2 = i + 1
            /\ (i - 1) - 1 = i - 2 /\ (i - 1) - 1 \in 0 .. Len(pat) /\ (i - 1) - 1 <= n
            /\ ((i - 1) - 1) + 1 = i - 1
        BY <1>1, <2>1, <2>5
      <4>. QED BY <4>1
    <3>2. Ok(k - 1)
      <4>. HIDE DEF Ok
      <4>. QED BY <3>1
    <3>3. e \in h[k] /\ SkipsSlash(pat, k) /\ (e \in h[k - 1] \/ text[e] = "/")
      BY <2>5, <3>1
    <3>4. PICK b \in h[k - 1] : b <= e /\ (e = b \/ text[e] = "/")
      <4>1. CASE e \in h[k - 1]
        BY <2>3, <4>1
      <4>2. CASE text[e] = "/" /\ e \notin h[k - 1]
        <5>1. pat[k] = GlobStar /\ GlobStar # Lit("/")
          BY <3>3 DEF SkipsSlash, GlobStar, Lit
        <5>2. ~(k > 1 /\ SkipsSlash(pat, k - 1))
          BY <3>1, <5>1 DEF SkipsSlash
        <5>3. \E b \in h[k - 1] : b <= e /\ StandsFor(pat[k], SubSeq(text, b + 1, e))
          BY <2>3, <3>1, <3>3, <5>2, CutStep
        <5>. QED BY <4>2, <5>3
      <4>. QED BY <3>3, <4>1, <4>2
    <3>5. b \in 0 .. Len(text)
      BY <3>1, CutsInText
    <3>6. e \in b .. Len(text)
      BY <2>3, <3>4, <3>5
    <3>7. g[k + 2][e + 1]
      BY <3>1
    <3>8. g[k][b + 1]
      BY <3>1, <3>3, <3>4, <3>5, <3>6, <3>7, MatchStep
    <3>. QED BY <3>1, <3>2, <3>8
  <2>. QED BY <2>1, <2>3, <2>4, <2>5, CutStep
<1>4. Len(pat) \in G
  <2>. HIDE DEF G
  <2>1. \A n \in 0 .. Len(pat) : n \in G
    BY <1>1, <1>2, <1>3, BoundedInduction
  <2>. QED BY <1>1, <2>1
<1>5. \A i \in 0 .. Len(pat) : Ok(i)
  <2>. HIDE DEF Ok
  <2>. QED BY <1>1, <1>4
<1>. QED BY <1>5

LEMMA MatchesIsDescribed ==
  ASSUME NEW T, NEW pat \in Seq(T), NEW S, NEW text \in Seq(S), MatchKinds(T)
  PROVE  match_tokens(pat, text) <=> Described(pat, text)
<1>1. PICK g : IsMatching(g, pat, text)
  BY MatchFacts
<1>2. PICK h : IsCutting(h, pat, text)
  BY CutFacts
<1>3. Len(pat) \in Nat /\ Len(text) \in Nat
  OBVIOUS
<1>4. (match_tokens(pat, text) <=> g[1][1]) /\ (Described(pat, text) <=> Len(text) \in h[Len(pat)])
  BY <1>1, <1>2 DEF IsMatching, IsCutting
<1>5. g[1][1] => Len(text) \in h[Len(pat)]
  <2>1. 0 \in h[0]
    BY <1>2, CutStep
  <2>2. 1 \in 1 .. Len(pat) + 1 /\ 1 - 1 = 0 /\ 0 + 1 = 1
    BY <1>3
  <2>3. \A b \in h[1 - 1] : g[1][b + 1] => Len(text) \in h[Len(pat)]
    BY <1>1, <1>2, <2>2, MatchIsCut
  <2>. QED BY <2>1, <2>2, <2>3
<1>6. Len(text) \in h[Len(pat)] => g[1][1]
  <2>1. g[Len(pat) + 1][Len(text) + 1]
    <3>1. Len(pat) + 1 \in 1 .. Len(pat) + 1 /\ Len(pat) + 1 > Len(pat)
          /\ Len(text) + 1 \in 1 .. Len(text) + 1 /\ Len(text) + 1 > Len(text)
      BY <1>3
    <3>2. g[Len(pat) + 1] = MatchRow(g, pat, text, Len(pat) + 1)
      BY <1>1, <3>1 DEF IsMatching
    <3>. QED BY <3>1, <3>2 DEF MatchRow
  <2>2. \A e \in h[Len(pat)] : g[Len(pat) + 1][e + 1] => g[1][1]
    BY <1>1, <1>2, <1>3, CutIsMatch
  <2>. QED BY <2>1, <2>2
<1>. QED BY <1>4, <1>5, <1>6

-----------------------------------------------------------------------------
(* What parse makes of a text.                                             *)

LEMMA TrailingFacts ==
  ASSUME NEW S, NEW pat \in Seq(S), NEW c
  PROVE  /\ Trailing(c, pat) \in 0 .. Len(pat)
         /\ \A i \in Len(pat) - Trailing(c, pat) + 1 .. Len(pat) : pat[i] = c
         /\ Trailing(c, pat) < Len(pat) => pat[Len(pat) - Trailing(c, pat)] # c
<1>. DEFINE K == {0} \cup {k \in 1 .. Len(pat) : \A i \in Len(pat) - k + 1 .. Len(pat) : pat[i] = c}
<1>1. PICK n \in Nat : n = Len(pat)
  OBVIOUS
<1>2. K \subseteq Nat /\ K # {} /\ \A k \in K : k <= n
  <2>1. 0 \in K
    OBVIOUS
  <2>2. K # {}
    BY <2>1, Zenon
  <2>. QED BY <1>1, <2>2
<1>3. PICK x : x = Max(K) /\ x \in K /\ \A k \in K : x >= k
  <2>. HIDE DEF K
  <2>. QED BY <1>2, MaxIsGreatest
<1>4. Trailing(c, pat) = x
  BY <1>3 DEF Trailing
<1>5. x \in 0 .. n /\ \A i \in n - x + 1 .. n : pat[i] = c
  <2>1. CASE x = 0
    <3>1. \A i \in n - x + 1 .. n : FALSE
      BY <2>1
    <3>. QED BY <2>1, <3>1
  <2>2. CASE x # 0
    <3>1. x \in 1 .. Len(pat) /\ \A i \in Len(pat) - x + 1 .. Len(pat) : pat[i] = c
      BY <1>3, <2>2
    <3>. QED BY <1>1, <3>1
  <2>. QED BY <2>1, <2>2
<1>6. ASSUME x < n, pat[n - x] = c PROVE FALSE
  <2>1. x + 1 \in 1 .. n
    BY <1>5, <1>6
  <2>2. ASSUME NEW i \in n - (x + 1) + 1 .. n PROVE pat[i] = c
    <3>1. i = n - x \/ i \in n - x + 1 .. n
      BY <1>5
    <3>. QED BY <1>5, <1>6, <3>1
  <2>3. x + 1 \in K
    BY <1>1, <2>1, <2>2
  <2>4. x >= x + 1
    BY <1>3, <2>3
  <2>. QED BY <1>5, <2>4
<1>. QED BY <1>1, <1>4, <1>5, <1>6

LEMMA ChopFacts ==
  ASSUME NEW S, NEW pat \in Seq(S), NEW k \in 0 .. Len(pat)
  PROVE  /\ Chop(k, pat) \in Seq(S) /\ Len(Chop(k, pat)) = Len(pat) - k
         /\ \A i \in 1 .. Len(pat) - k : Chop(k, pat)[i] = pat[i]
         /\ (k = 0 <=> Chop(k, pat) = pat)
<1>1. PICK s : s = Chop(k, pat) /\ s = SubSeq(pat, 1, Len(pat) - k)
  BY DEF Chop
<1>2. Len(pat) \in Nat /\ Len(pat) - k \in 0 .. Len(pat)
  OBVIOUS
<1>3. /\ s \in Seq(S) /\ Len(s) = Len(pat) - k
      /\ \A i \in 1 .. Len(pat) - k : s[i] = pat[i]
  BY <1>1, <1>2
<1>4. CASE k = 0
  <2>1. s = pat
    BY <1>1, <1>2, <1>4, AllOfIt
  <2>. QED BY <1>1, <1>3, <1>4, <2>1
<1>5. CASE k # 0
  <2>1. Len(s) # Len(pat)
    BY <1>2, <1>3, <1>5
  <2>. QED BY <1>1, <1>3, <1>5, <2>1
<1>. QED BY <1>4, <1>5

Trimmed(pat) == Chop(Trailing("/", pat), pat)
Body(pat)    == IF pat # <<>> /\ Head(pat) = "/" THEN Tail(pat) ELSE pat

LEMMA TrimmedFacts ==
  ASSUME NEW S, NEW pat \in Seq(S)
  PROVE  /\ Trimmed(pat) \in Seq(S) /\ Len(Trimmed(pat)) <= Len(pat)
         /\ \A i \in 1 .. Len(Trimmed(pat)) : Trimmed(pat)[i] = pat[i]
         /\ (Trimmed(pat) = pat <=> Trailing("/", pat) = 0)
         /\ Trimmed(pat) # <<>> => Trimmed(pat)[Len(Trimmed(pat))] # "/"
<1>1. PICK k \in 0 .. Len(pat) : k = Trailing("/", pat) /\ (k < Len(pat) => pat[Len(pat) - k] # "/")
  BY TrailingFacts
<1>2. PICK s : s = Chop(k, pat)
  OBVIOUS
<1>3. /\ s \in Seq(S) /\ Len(s) = Len(pat) - k
      /\ \A i \in 1 .. Len(pat) - k : s[i] = pat[i]
      /\ (k = 0 <=> s = pat)
  BY <1>2, ChopFacts
<1>4. s # <<>> => s[Len(s)] # "/"
  <2>1. s # <<>> => Len(s) \in 1 .. Len(pat) - k /\ k < Len(pat)
    BY <1>3
  <2>. QED BY <1>1, <1>3, <2>1
<1>5. Trimmed(pat) = s
  BY <1>1, <1>2 DEF Trimmed
<1>. QED BY <1>1, <1>3, <1>4, <1>5

LEMMA BodyFacts ==
  ASSUME NEW S, NEW pat \in Seq(S)
  PROVE  /\ Body(pat) \in Seq(S)
         /\ \A i \in 1 .. Len(Body(pat)) : \E j \in 1 .. Len(pat) : Body(pat)[i] = pat[j]
<1>1. CASE pat # <<>> /\ Head(pat) = "/"
  <2>1. /\ Tail(pat) \in Seq(S) /\ Len(Tail(pat)) = Len(pat) - 1
        /\ \A i \in 1 .. Len(pat) - 1 : Tail(pat)[i] = pat[i + 1] /\ i + 1 \in 1 .. Len(pat)
    BY <1>1
  <2>2. Body(pat) = Tail(pat)
    BY <1>1 DEF Body
  <2>. QED BY <2>1, <2>2
<1>2. CASE ~(pat # <<>> /\ Head(pat) = "/")
  <2>1. Body(pat) = pat
    BY <1>2 DEF Body
  <2>. QED BY <2>1
<1>. QED BY <1>1, <1>2

\* a pattern without three stars at its end
LEMMA ParsePlain ==
  ASSUME NEW S, NEW pat \in Seq(S), NEW include, ~(Trailing("*", pat) >= 3),
         NEW t, t = Trimmed(pat), NEW b, b = Body(t)
  PROVE  /\ parse(pat, include).tokens = tokenize(b)
         /\ parse(pat, include).basename_only <=>
              ~(t # <<>> /\ Head(t) = "/") /\ ~Contains(b, "/") /\ ~HasGlobStar(b)
         /\ parse(pat, include).dir_only <=> pat # t
         /\ parse(pat, include).triple_star = FALSE
<1>. DEFINE rooted == t # <<>> /\ Head(t) = "/"
            word   == ~rooted /\ ~FALSE /\ ~Contains(b, "/") /\ ~HasGlobStar(b)
            dirs   == ~FALSE /\ pat # t
<1>1. parse(pat, include) =
        [syntax |-> "rsync", original |-> pat, include |-> include, tokens |-> tokenize(b),
         basename_only |-> word, dir_only |-> dirs, triple_star |-> FALSE]
  <2>1. (Trailing("*", pat) >= 3) = FALSE
    OBVIOUS
  <2>. QED BY <2>1, Zenon DEF parse, Trimmed, Body
<1>2. (word <=> ~rooted /\ ~Contains(b, "/") /\ ~HasGlobStar(b)) /\ (dirs <=> pat # t)
  OBVIOUS
<1>. HIDE DEF rooted, word, dirs
<1>3. /\ parse(pat, include).tokens = tokenize(b)
      /\ parse(pat, include).basename_only = word
      /\ parse(pat, include).dir_only = dirs
      /\ parse(pat, include).triple_star = FALSE
  BY <1>1
<1>. QED BY <1>2, <1>3, Zenon DEF rooted

LEMMA ParseTriple ==
  ASSUME NEW S, NEW pat \in Seq(S), NEW include, Trailing("*", pat) >= 3,
         Trailing("*", pat) % 3 = 0,
         NEW t, t = Trimmed(Chop(Trailing("*", pat), pat)), NEW b, b = Body(t)
  PROVE  /\ parse(pat, include).tokens = tokenize(b)
         /\ parse(pat, include).dir_only = FALSE
         /\ parse(pat, include).triple_star = TRUE
<1>1. Trailing("*", pat) \in Nat
  BY TrailingFacts
<1>2. \A n \in Nat : n % 3 = 0 => 3 * (n \div 3) = n
  OBVIOUS
<1>3. 3 * (Trailing("*", pat) \div 3) = Trailing("*", pat)
  BY <1>1, <1>2
<1>. QED BY <1>3 DEF parse, Trimmed, Body

LEMMA BasenameType ==
  ASSUME NEW S, NEW path \in Seq(S)
  PROVE  member_basename(path) \in Seq(S)
<1>. DEFINE K == {0} \cup Slashes(path)
<1>1. PICK n \in Nat : n = Len(path)
  OBVIOUS
<1>2. Slashes(path) \subseteq 1 .. n
  BY <1>1 DEF Slashes
<1>3. K \subseteq Nat /\ K # {} /\ \A k \in K : k <= n
  <2>1. 0 \in K
    OBVIOUS
  <2>2. K # {}
    BY <2>1, Zenon
  <2>. QED BY <1>2, <2>2
<1>4. Max(K) \in K
  <2>. HIDE DEF K
  <2>. QED BY <1>3, MaxIsGreatest
<1>5. PICK k \in 0 .. n : k = Max(K)
  BY <1>2, <1>4
<1>6. SubSeq(path, k + 1, Len(path)) \in Seq(S)
  BY <1>1
<1>. QED BY <1>5, <1>6 DEF member_basename

LEMMA TokenKinds ==
  ASSUME NEW S, NEW pat \in Seq(S)
  PROVE  MatchKinds(TokensOf(pat))
BY GlobStarAlone DEF MatchKinds

LEMMA MeaningPlain ==
  ASSUME NEW pat, NEW path, NEW is_dir, ~(Trailing("*", pat) >= 3), NEW t, t = Trimmed(pat)
  PROVE  Meaning(pat, path, is_dir) <=>
           /\ Trailing("/", pat) > 0 => is_dir
           /\ IF Contains(t, "/") \/ HasGlobStar(t) THEN Described(tokenize(Body(t)), path)
              ELSE Described(tokenize(Body(t)), member_basename(path))
<1>1. tokenize(Body(t)) = IF t # <<>> /\ Head(t) = "/" THEN tokenize(Tail(t)) ELSE tokenize(t)
  BY Zenon DEF Body
<1>. QED BY <1>1, Zenon DEF Meaning, Trimmed

LEMMA PlainMatches ==
  ASSUME NEW S, NEW pat \in Seq(S), NEW include, NEW path \in Seq(S), path # <<>>,
         NEW is_dir \in BOOLEAN, ~(Trailing("*", pat) >= 3)
  PROVE  matches(parse(pat, include), path, is_dir) <=> Meaning(pat, path, is_dir)
<1>1. PICK t \in Seq(S) : t = Trimmed(pat)
  BY TrimmedFacts
<1>2. PICK b \in Seq(S) : b = Body(t)
  BY BodyFacts
<1>3. PICK rule : rule = parse(pat, include)
  OBVIOUS
<1>4. /\ rule.tokens = tokenize(b)
      /\ rule.basename_only <=> ~(t # <<>> /\ Head(t) = "/") /\ ~Contains(b, "/") /\ ~HasGlobStar(b)
      /\ rule.dir_only <=> pat # t
      /\ ~rule.triple_star
  BY <1>1, <1>2, <1>3, ParsePlain, ZenonT(30)
<1>5. rule.basename_only <=> ~(Contains(t, "/") \/ HasGlobStar(t))
  <2>1. CASE t # <<>> /\ Head(t) = "/"
    <3>1. t[1] = "/" /\ 1 \in 1 .. Len(t)
      BY <2>1
    <3>2. Contains(t, "/")
      BY <3>1 DEF Contains
    <3>. QED BY <1>4, <2>1, <3>2
  <2>2. CASE ~(t # <<>> /\ Head(t) = "/")
    <3>1. b = t
      BY <1>2, <2>2 DEF Body
    <3>. QED BY <1>4, <2>2, <3>1
  <2>. QED BY <2>1, <2>2
<1>6. rule.dir_only <=> Trailing("/", pat) > 0
  <2>1. Trailing("/", pat) \in Nat /\ (t = pat <=> Trailing("/", pat) = 0)
    BY <1>1, TrimmedFacts, TrailingFacts
  <2>. QED BY <1>4, <2>1
<1>7. ASSUME NEW text \in Seq(S)
      PROVE  match_tokens(tokenize(b), text) <=> Described(tokenize(b), text)
  <2>1. PICK T : T = TokensOf(b)
    OBVIOUS
  <2>2. tokenize(b) \in Seq(T) /\ MatchKinds(T)
    BY <2>1, TokenizeType, TokenKinds
  <2>. QED BY <2>2, MatchesIsDescribed
<1>8. matches(rule, path, is_dir) <=>
        /\ rule.dir_only => is_dir
        /\ match_tokens(tokenize(b), IF rule.basename_only THEN member_basename(path) ELSE path)
  BY <1>4 DEF matches
<1>9. Meaning(pat, path, is_dir) <=>
           /\ Trailing("/", pat) > 0 => is_dir
           /\ IF Contains(t, "/") \/ HasGlobStar(t) THEN Described(tokenize(b), path)
              ELSE Described(tokenize(b), member_basename(path))
  BY <1>1, <1>2, MeaningPlain
<1>10. member_basename(path) \in Seq(S)
  BY BasenameType
<1>. QED BY <1>3, <1>5, <1>6, <1>7, <1>8, <1>9, <1>10

Specials == {"*", "?", "[", "\\"}

Literal(pat) == \A i \in 1 .. Len(pat) : pat[i] \notin Specials

\* a text without wildcards is tokenized to its characters
LEMMA LiteralTokens ==
  ASSUME NEW S, NEW pat \in Seq(S), Literal(pat)
  PROVE  /\ Len(tokenize(pat)) = Len(pat)
         /\ \A j \in 1 .. Len(pat) : tokenize(pat)[j] = Lit(pat[j])
<1>1. PICK g : IsTokenizing(g, pat)
  BY TokenizeFacts
<1>2. Len(pat) \in Nat
  OBVIOUS
<1>3. PICK T : T = TokensOf(pat)
  OBVIOUS
<1>4. /\ g \in [1 .. Len(pat) + 1 -> Seq(T)]
      /\ \A i \in 1 .. Len(pat) + 1 : g[i] = TokenRow(g, pat, i)
      /\ tokenize(pat) = g[1]
  BY <1>1, <1>3 DEF IsTokenizing
<1>. DEFINE Ok(i) == /\ Len(g[i]) = Len(pat) + 1 - i
                     /\ \A j \in 1 .. Len(pat) + 1 - i : g[i][j] = Lit(pat[i + j - 1])
            G == {n \in Nat : \A i \in 1 .. Len(pat) + 1 : Len(pat) + 1 - n <= i => Ok(i)}
<1>5. Ok(Len(pat) + 1)
  <2>1. Len(pat) + 1 \in 1 .. Len(pat) + 1 /\ Len(pat) + 1 > Len(pat)
    BY <1>2
  <2>2. g[Len(pat) + 1] = <<>>
    BY <1>4, <2>1 DEF TokenRow
  <2>3. (Len(pat) + 1) - (Len(pat) + 1) = 0 /\ Len(<<>>) = 0
    BY <1>2
  <2>. QED BY <2>2, <2>3
<1>6. 0 \in G
  <2>. HIDE DEF Ok
  <2>. QED BY <1>2, <1>5
<1>7. ASSUME NEW n \in G, n \in Nat, n < Len(pat) + 1 PROVE n + 1 \in G
  <2>. SUFFICES ASSUME NEW i \in 1 .. Len(pat) + 1, Len(pat) + 1 - (n + 1) <= i PROVE Ok(i)
    <3>. HIDE DEF Ok
    <3>. QED OBVIOUS
  <2>1. CASE i = Len(pat) + 1
    <3>. HIDE DEF Ok
    <3>. QED BY <1>5, <2>1
  <2>2. CASE i # Len(pat) + 1
    <3>1. /\ i \in 1 .. Len(pat) /\ i + 1 \in 1 .. Len(pat) + 1 /\ Len(pat) + 1 - n <= i + 1
          /\ ~(i > Len(pat)) /\ i + 1 # 0
      BY <1>2, <2>2
    <3>2. Ok(i + 1)
      <4>. HIDE DEF Ok
      <4>. QED BY <3>1
    <3>3. PICK r \in Seq(T) : r = g[i + 1]
      BY <1>4, <3>1
    <3>4. TokenAt(pat, i) = Lit(pat[i]) /\ TokenOn(pat, i) = i + 1
      <4>1. pat[i] \notin Specials
        BY <3>1 DEF Literal
      <4>. QED BY <4>1 DEF TokenAt, TokenOn, Specials
    <3>5. PICK x \in T : x = Lit(pat[i])
      BY <1>3, <3>1, <3>4, TokenFacts
    <3>6. g[i] = <<x>> \o r
      BY <1>4, <3>1, <3>3, <3>4, <3>5 DEF TokenRow
    <3>7. <<x>> \in Seq(T) /\ Len(<<x>>) = 1 /\ <<x>>[1] = x
      BY SeqOfOne
    <3>8. PICK s \in Seq(T) : s = <<x>> /\ Len(s) = 1 /\ s[1] = x
      BY <3>7
    <3>9. /\ Len(s \o r) = 1 + Len(r) /\ (s \o r)[1] = x
          /\ \A j \in 1 .. Len(r) : (s \o r)[1 + j] = r[j]
      BY <3>8
    <3>10. PICK p : p = Len(pat) + 1 - (i + 1) /\ p \in Nat /\ Len(pat) + 1 - i = p + 1
      BY <1>2, <3>1
    <3>11. Len(r) = p /\ \A j \in 1 .. p : r[j] = Lit(pat[(i + 1) + j - 1])
      BY <3>2, <3>3, <3>10
    <3>12. Len(g[i]) = p + 1
      BY <3>6, <3>8, <3>9, <3>10, <3>11
    <3>13. ASSUME NEW j \in 1 .. p + 1 PROVE g[i][j] = Lit(pat[i + j - 1])
      <4>1. CASE j = 1
        <5>1. i + j - 1 = i
          BY <3>1, <4>1
        <5>. QED BY <3>5, <3>6, <3>8, <3>9, <4>1, <5>1
      <4>2. CASE j # 1
        <5>1. PICK k \in 1 .. p : j = 1 + k /\ (i + 1) + k - 1 = i + j - 1
          <6>1. j - 1 \in 1 .. p /\ j = 1 + (j - 1) /\ (i + 1) + (j - 1) - 1 = i + j - 1
            BY <3>1, <3>10, <4>2
          <6>. QED BY <6>1
        <5>2. g[i][j] = r[k]
          BY <3>6, <3>8, <3>9, <3>11, <5>1
        <5>. QED BY <3>11, <5>1, <5>2
      <4>. QED BY <4>1, <4>2
    <3>. QED BY <3>10, <3>12, <3>13
  <2>. QED BY <2>1, <2>2
<1>8. Len(pat) + 1 \in G
  <2>. HIDE DEF G
  <2>1. \A n \in 0 .. (Len(pat) + 1) : n \in G
    BY <1>2, <1>6, <1>7, BoundedInduction
  <2>. QED BY <1>2, <2>1
<1>9. Ok(1)
  <2>1. 1 \in 1 .. Len(pat) + 1 /\ Len(pat) + 1 - (Len(pat) + 1) <= 1
    BY <1>2
  <2>. HIDE DEF Ok
  <2>. QED BY <1>8, <2>1
<1>10. Len(pat) + 1 - 1 = Len(pat) /\ \A j \in 1 .. Len(pat) : 1 + j - 1 = j
  BY <1>2
<1>. QED BY <1>4, <1>9, <1>10

LEMMA SingletonSeq ==
  ASSUME NEW x
  PROVE  SetToSeq({x}) = <<x>>
<1>1. Cardinality({x}) = 1
  BY FS_Singleton
<1>2. \A f \in [1 .. 1 -> {x}] : f = <<x>>
  OBVIOUS
<1>3. <<x>> \in [1 .. 1 -> {x}] /\ IsInjective(<<x>>)
  BY DEF IsInjective
<1>4. SetToSeq({x}) \in [1 .. 1 -> {x}]
  BY <1>1, <1>3 DEF SetToSeq
<1>. QED BY <1>2, <1>4

LEMMA FlatSingles ==
  ASSUME NEW S, NEW s \in Seq(S)
  PROVE  FlattenSeq([i \in 1 .. Len(s) |-> <<s[i]>>]) = s
<1>1. PICK n \in Nat : n = Len(s)
  OBVIOUS
<1>2. PICK ss : ss = [i \in 1 .. n |-> <<s[i]>>]
  OBVIOUS
<1>3. ss \in Seq(Seq(S)) /\ Len(ss) = n
  <2>1. \A i \in 1 .. n : <<s[i]>> \in Seq(S)
    BY <1>1, SeqOfOne
  <2>2. ss \in Seq(Seq(S))
    BY <1>2, <2>1, IsASeq
  <2>. QED BY <1>2, <2>2
<1>4. PICK g : IsFlat(g, ss, S)
  BY <1>3, FlatFacts
<1>5. /\ g[0] = <<>> /\ FlattenSeq(ss) = g[n]
      /\ \A i \in 1 .. n : g[i] = g[i - 1] \o ss[i]
  BY <1>3, <1>4 DEF IsFlat
<1>. DEFINE G == {k \in Nat : k <= n => g[k] = SubSeq(s, 1, k)}
<1>6. 0 \in G
  <2>1. SubSeq(s, 1, 0) = <<>>
    BY AllOfIt
  <2>. QED BY <1>5, <2>1
<1>7. ASSUME NEW k \in G, k \in Nat, k < n PROVE k + 1 \in G
  <2>1. k + 1 \in 1 .. n /\ (k + 1) - 1 = k /\ k + 1 \in Nat
    BY <1>7
  <2>2. g[k + 1] = g[k] \o ss[k + 1] /\ g[k] = SubSeq(s, 1, k)
    <3>1. g[k + 1] = g[(k + 1) - 1] \o ss[k + 1]
      BY <1>5, <2>1
    <3>2. g[k] = SubSeq(s, 1, k)
      BY <1>7
    <3>. QED BY <2>1, <3>1, <3>2
  <2>3. PICK a \in Seq(S) : a = SubSeq(s, 1, k) /\ s[k + 1] \in S
                            /\ SubSeq(s, 1, k + 1) = Append(a, s[k + 1])
    BY <1>1, <1>7, NextPrefix
  <2>4. PICK x \in S : x = s[k + 1]
    BY <2>3
  <2>5. ss[k + 1] = <<x>>
    BY <1>2, <2>1, <2>4
  <2>6. a \o <<x>> = Append(a, x)
    OBVIOUS
  <2>7. g[k + 1] = SubSeq(s, 1, k + 1)
    BY <2>2, <2>3, <2>4, <2>5, <2>6
  <2>. QED BY <2>1, <2>7
<1>8. n \in G
  <2>. HIDE DEF G
  <2>1. \A k \in 0 .. n : k \in G
    BY <1>6, <1>7, BoundedInduction
  <2>. QED BY <2>1
<1>9. g[n] = s
  BY <1>1, <1>8, AllOfIt
<1>. QED BY <1>1, <1>2, <1>5, <1>9

LEMMA LiteralPrefix ==
  ASSUME NEW S, NEW pat \in Seq(S), Literal(pat)
  PROVE  triple_prefix(tokenize(pat)) = pat
<1>1. PICK n \in Nat : n = Len(pat)
  OBVIOUS
<1>2. PICK tokens : tokens = tokenize(pat)
  OBVIOUS
<1>3. PICK T : tokens \in Seq(T)
  BY <1>2, TokenizeType
<1>4. DOMAIN tokens = 1 .. n /\ \A i \in 1 .. n : tokens[i] = Lit(pat[i])
  BY <1>1, <1>2, <1>3, LiteralTokens
<1>5. \A i \in 1 .. n : tokens[i].kind = "lit" /\ tokens[i].of = {pat[i]}
  BY <1>4 DEF Lit
<1>6. \A i \in 1 .. n : (IF tokens[i].kind = "lit" THEN SetToSeq(tokens[i].of) ELSE <<>>) = <<pat[i]>>
  BY <1>5, SingletonSeq
<1>7. [i \in DOMAIN tokens |-> IF tokens[i].kind = "lit" THEN SetToSeq(tokens[i].of) ELSE <<>>]
        = [i \in 1 .. n |-> <<pat[i]>>]
  BY <1>4, <1>6
<1>8. triple_prefix(tokens) = FlattenSeq([i \in 1 .. n |-> <<pat[i]>>])
  BY <1>7, Zenon DEF triple_prefix
<1>. QED BY <1>1, <1>2, <1>8, FlatSingles

Agrees(pat, text, i) == i <= Len(text) /\ \A j \in 1 .. i : text[j] = pat[j]

LEMMA LiteralCut ==
  ASSUME NEW S, NEW pat \in Seq(S), Literal(pat), NEW text \in Seq(S)
  PROVE  Described(tokenize(pat), text) <=> text = pat
<1>1. PICK n \in Nat : n = Len(pat)
  OBVIOUS
<1>2. PICK m \in Nat : m = Len(text)
  OBVIOUS
<1>3. PICK T : T = TokensOf(pat)
  OBVIOUS
<1>4. PICK tokens \in Seq(T) : tokens = tokenize(pat)
  BY <1>3, TokenizeType
<1>5. Len(tokens) = n /\ \A i \in 1 .. n : tokens[i] = Lit(pat[i])
  BY <1>1, <1>4, LiteralTokens
<1>6. PICK h : IsCutting(h, tokens, text)
  BY CutFacts
<1>. DEFINE G == {i \in Nat : i <= n => \A e \in 0 .. m : e \in h[i] <=> e = i /\ Agrees(pat, text, i)}
<1>7. 0 \in G
  <2>1. h[0] = {0}
    BY <1>6, CutStep
  <2>2. Agrees(pat, text, 0)
    BY <1>2 DEF Agrees
  <2>. QED BY <2>1, <2>2
<1>8. ASSUME NEW k \in G, k \in Nat, k < n PROVE k + 1 \in G
  <2>1. k + 1 \in 1 .. n /\ (k + 1) - 1 = k
    BY <1>8
  <2>2. \A e \in 0 .. m : e \in h[k] <=> e = k /\ Agrees(pat, text, k)
    BY <1>8
  <2>. SUFFICES ASSUME NEW e \in 0 .. m
                PROVE  e \in h[k + 1] <=> e = k + 1 /\ Agrees(pat, text, k + 1)
    BY <2>1
  <2>3. ~(k + 1 > 1 /\ SkipsSlash(tokens, k))
    <3>1. k + 1 > 1 => k \in 1 .. n
      BY <2>1
    <3>. QED BY <1>5, <3>1 DEF SkipsSlash, GlobStar, Lit
  <2>4. e \in h[k + 1] <=>
          \E b \in h[k] : b <= e /\ StandsFor(tokens[k + 1], SubSeq(text, b + 1, e))
    <3>1. \A i \in 1 .. Len(tokens) : \A x \in 0 .. Len(text) :
              x \in h[i] <=>
                \/ \E b \in h[i - 1] : b <= x /\ StandsFor(tokens[i], SubSeq(text, b + 1, x))
                \/ /\ x \in h[i - 1] /\ i > 1 /\ SkipsSlash(tokens, i - 1)
                   /\ (x \in h[i - 2] \/ text[x] = "/")
      BY <1>6, CutStep
    <3>2. k + 1 \in 1 .. Len(tokens) /\ e \in 0 .. Len(text)
      BY <1>2, <1>5, <2>1
    <3>3. e \in h[k + 1] <=>
            \/ \E b \in h[(k + 1) - 1] :
                 b <= e /\ StandsFor(tokens[k + 1], SubSeq(text, b + 1, e))
            \/ /\ e \in h[(k + 1) - 1] /\ k + 1 > 1 /\ SkipsSlash(tokens, (k + 1) - 1)
               /\ (e \in h[(k + 1) - 2] \/ text[e] = "/")
      BY <3>1, <3>2, Zenon
    <3>. QED BY <2>1, <2>3, <3>3
  <2>5. h[k] \subseteq 0 .. m
    <3>1. k \in 0 .. Len(tokens)
      BY <1>5, <2>1
    <3>2. \A i \in 0 .. Len(tokens) : h[i] \subseteq 0 .. Len(text)
      BY <1>6, CutStep
    <3>. QED BY <1>2, <3>1, <3>2
  <2>6. e \in h[k + 1] <=>
          Agrees(pat, text, k) /\ k <= e /\ StandsFor(tokens[k + 1], SubSeq(text, k + 1, e))
    <3>1. Agrees(pat, text, k) => k \in 0 .. m
      BY <1>2, <1>8 DEF Agrees
    <3>. QED BY <2>2, <2>4, <2>5, <3>1
  <2>7. ASSUME Agrees(pat, text, k), k <= e
        PROVE  StandsFor(tokens[k + 1], SubSeq(text, k + 1, e)) <=> e = k + 1 /\ text[e] = pat[k + 1]
    <3>1. /\ Len(SubSeq(text, k + 1, e)) = e - k
          /\ e = k + 1 => SubSeq(text, k + 1, e)[1] = text[e]
      BY <1>2, <1>8, <2>7
    <3>2. e - k = 1 <=> e = k + 1
      BY <1>8
    <3>3. PICK piece : piece = SubSeq(text, k + 1, e)
      OBVIOUS
    <3>4. StandsFor(tokens[k + 1], piece) <=> Len(piece) = 1 /\ piece[1] = pat[k + 1]
      <4>1. tokens[k + 1] = Lit(pat[k + 1])
        BY <1>5, <2>1
      <4>. QED BY <4>1 DEF StandsFor, OneMatches, Lit
    <3>. QED BY <3>1, <3>2, <3>3, <3>4
  <2>8. Agrees(pat, text, k + 1) <=> Agrees(pat, text, k) /\ k + 1 <= m /\ text[k + 1] = pat[k + 1]
    <3>1. \A j \in 1 .. k + 1 : j \in 1 .. k \/ j = k + 1
      BY <1>8
    <3>2. \A j \in 1 .. k : j \in 1 .. k + 1
      BY <1>8
    <3>3. k + 1 \in 1 .. k + 1 /\ (k + 1 <= m => k <= m)
      BY <1>8
    <3>. QED BY <1>2, <3>1, <3>2, <3>3 DEF Agrees
  <2>9. e = k + 1 => k <= e /\ k + 1 <= m
    BY <1>8
  <2>. QED BY <2>6, <2>7, <2>8, <2>9
<1>9. n \in G
  <2>. HIDE DEF G
  <2>1. \A k \in 0 .. n : k \in G
    BY <1>7, <1>8, BoundedInduction
  <2>. QED BY <2>1
<1>10. Described(tokens, text) <=> m \in h[n]
  BY <1>2, <1>5, <1>6 DEF IsCutting
<1>11. m \in h[n] <=> m = n /\ Agrees(pat, text, n)
  BY <1>9
<1>12. m = n /\ Agrees(pat, text, n) <=> text = pat
  BY <1>1, <1>2 DEF Agrees
<1>. QED BY <1>4, <1>10, <1>11, <1>12

\* the directories above a path are what comes before its slashes
LEMMA AncestryFacts ==
  ASSUME NEW S, "/" \in S, NEW path \in Seq(S), NEW name \in Seq(S)
  PROVE  name \in Ancestry(path) <=> path = name \/ IsPrefix(Append(name, "/"), path)
<1>1. PICK n \in Nat : n = Len(path)
  OBVIOUS
<1>2. PICK m \in Nat : m = Len(name)
  OBVIOUS
<1>3. PICK s \in Seq(S) : /\ s = Append(name, "/") /\ Len(s) = m + 1 /\ s[m + 1] = "/"
                          /\ \A i \in 1 .. m : s[i] = name[i]
  <2>1. PICK c \in S : c = "/"
    OBVIOUS
  <2>2. /\ Append(name, c) \in Seq(S) /\ Len(Append(name, c)) = m + 1
        /\ Append(name, c)[m + 1] = c /\ \A i \in 1 .. m : Append(name, c)[i] = name[i]
    BY <1>2, AppendFacts
  <2>. QED BY <2>1, <2>2
<1>4. IsPrefix(s, path) <=> m + 1 <= n /\ \A i \in 1 .. m + 1 : path[i] = s[i]
  <2>1. SubSeq(s, 1, Len(s)) = s
    BY AllOfIt
  <2>2. CASE m + 1 <= n
    <3>1. PICK p : p = SubSeq(path, 1, m + 1)
      OBVIOUS
    <3>2. p \in Seq(S) /\ Len(p) = m + 1 /\ \A i \in 1 .. m + 1 : p[i] = path[i]
      BY <1>1, <2>2, <3>1
    <3>3. p = s <=> \A i \in 1 .. m + 1 : path[i] = s[i]
      <4>1. s \in Seq(S) /\ Len(s) = m + 1
        BY <1>3
      <4>2. p = s <=> \A i \in 1 .. m + 1 : p[i] = s[i]
        BY <3>2, <4>1
      <4>. QED BY <3>2, <4>2
    <3>. QED BY <1>1, <1>3, <2>1, <2>2, <3>1, <3>3 DEF IsPrefix
  <2>3. CASE ~(m + 1 <= n)
    BY <1>1, <1>3, <2>3 DEF IsPrefix
  <2>. QED BY <2>2, <2>3
<1>5. (\A i \in 1 .. m + 1 : path[i] = s[i]) <=> path[m + 1] = "/" /\ \A i \in 1 .. m : path[i] = name[i]
  <2>1. \A i \in 1 .. m + 1 : i \in 1 .. m \/ i = m + 1
    OBVIOUS
  <2>2. m + 1 \in 1 .. m + 1 /\ \A i \in 1 .. m : i \in 1 .. m + 1
    OBVIOUS
  <2>. QED BY <1>3, <2>1, <2>2
<1>6. ASSUME IsPrefix(s, path) PROVE name \in Ancestry(path)
  <2>1. m + 1 <= n /\ path[m + 1] = "/" /\ \A i \in 1 .. m : path[i] = name[i]
    BY <1>4, <1>5, <1>6
  <2>2. m + 1 \in Slashes(path) /\ (m + 1) - 1 = m
    BY <1>1, <2>1 DEF Slashes
  <2>3. SubSeq(path, 1, m) = name
    <3>1. PICK p : p = SubSeq(path, 1, m)
      OBVIOUS
    <3>2. p \in Seq(S) /\ Len(p) = m /\ \A i \in 1 .. m : p[i] = path[i]
      BY <1>1, <2>1, <3>1
    <3>3. p = name
      BY <1>2, <2>1, <3>2
    <3>. QED BY <3>1, <3>3
  <2>. QED BY <2>2, <2>3 DEF Ancestry
<1>7. ASSUME name \in Ancestry(path), path # name PROVE IsPrefix(s, path)
  <2>1. PICK i \in Slashes(path) : name = SubSeq(path, 1, i - 1)
    BY <1>7 DEF Ancestry
  <2>2. i \in 1 .. n /\ path[i] = "/"
    BY <1>1, <2>1 DEF Slashes
  <2>3. m = i - 1 /\ \A j \in 1 .. m : path[j] = name[j]
    BY <1>1, <1>2, <2>1, <2>2
  <2>4. m + 1 = i /\ m + 1 <= n
    BY <2>2, <2>3
  <2>. QED BY <1>4, <1>5, <2>2, <2>3, <2>4
<1>8. path \in Ancestry(path)
  BY DEF Ancestry
<1>. QED BY <1>3, <1>6, <1>7, <1>8

LEMMA AncestryType ==
  ASSUME NEW S, NEW path \in Seq(S), NEW q \in Ancestry(path)
  PROVE  q \in Seq(S)
<1>1. ASSUME NEW i \in Slashes(path) PROVE SubSeq(path, 1, i - 1) \in Seq(S)
  <2>1. i \in 1 .. Len(path)
    BY DEF Slashes
  <2>. QED BY <2>1
<1>. QED BY <1>1 DEF Ancestry

LEMMA MeaningTriple ==
  ASSUME NEW pat, NEW path, NEW is_dir, Trailing("*", pat) >= 3,
         NEW t, t = Trimmed(Chop(Trailing("*", pat), pat))
  PROVE  Meaning(pat, path, is_dir) <=>
           t = <<>> \/ \E q \in Ancestry(path) : Described(tokenize(Body(t)), q)
<1>1. tokenize(Body(t)) = IF t # <<>> /\ Head(t) = "/" THEN tokenize(Tail(t)) ELSE tokenize(t)
  BY Zenon DEF Body
<1>. QED BY <1>1, Zenon DEF Meaning, Trimmed

LEMMA TripleMatches ==
  ASSUME NEW S, "/" \in S, NEW pat \in Seq(S), NEW include, NEW path \in Seq(S), path # <<>>,
         NEW is_dir \in BOOLEAN, Trailing("*", pat) >= 3, HasMeaning(pat)
  PROVE  matches(parse(pat, include), path, is_dir) <=> Meaning(pat, path, is_dir)
<1>1. PICK dir : /\ dir = Chop(Trailing("*", pat), pat) /\ dir \in Seq(S)
                 /\ Trailing("*", pat) % 3 = 0 /\ ToSet(dir) \cap Specials = {}
  <2>1. Trailing("*", pat) \in 0 .. Len(pat)
    BY TrailingFacts
  <2>. QED BY <2>1, ChopFacts DEF HasMeaning, Specials
<1>2. PICK t \in Seq(S) : t = Trimmed(dir)
  BY <1>1, TrimmedFacts
<1>3. PICK b \in Seq(S) : b = Body(t)
  BY BodyFacts
<1>4. Literal(b)
  <2>1. \A i \in 1 .. Len(dir) : dir[i] \notin Specials
    BY <1>1 DEF ToSet
  <2>2. Len(t) <= Len(dir) /\ \A i \in 1 .. Len(t) : t[i] = dir[i]
    BY <1>1, <1>2, TrimmedFacts
  <2>3. \A i \in 1 .. Len(t) : t[i] \notin Specials
    BY <1>1, <2>1, <2>2
  <2>4. \A i \in 1 .. Len(b) : \E j \in 1 .. Len(t) : b[i] = t[j]
    BY <1>3, BodyFacts
  <2>. QED BY <2>3, <2>4 DEF Literal
<1>5. PICK rule : rule = parse(pat, include)
  OBVIOUS
<1>6. rule.tokens = tokenize(b) /\ rule.dir_only = FALSE /\ rule.triple_star = TRUE
  BY <1>1, <1>2, <1>3, <1>5, ParseTriple
<1>7. triple_prefix(rule.tokens) = b
  BY <1>4, <1>6, LiteralPrefix
<1>8. matches(rule, path, is_dir) <=> b = <<>> \/ path = b \/ IsPrefix(Append(b, "/"), path)
  BY <1>6, <1>7 DEF matches
<1>9. Meaning(pat, path, is_dir) <=> t = <<>> \/ \E q \in Ancestry(path) : Described(tokenize(b), q)
  BY <1>1, <1>2, <1>3, MeaningTriple
<1>10. \A q \in Ancestry(path) : Described(tokenize(b), q) <=> q = b
  BY <1>4, AncestryType, LiteralCut
<1>11. b \in Ancestry(path) <=> path = b \/ IsPrefix(Append(b, "/"), path)
  BY AncestryFacts
<1>12. b = <<>> <=> t = <<>>
  <2>1. CASE t # <<>> /\ Head(t) = "/"
    <3>1. b = Tail(t) /\ t[Len(t)] # "/"
      BY <1>1, <1>2, <1>3, <2>1, TrimmedFacts DEF Body
    <3>2. t[1] = "/" /\ Len(t) # 1 /\ Len(Tail(t)) = Len(t) - 1 /\ Len(t) \in Nat
      BY <2>1, <3>1
    <3>3. Len(b) # 0
      BY <3>1, <3>2
    <3>. QED BY <2>1, <3>3
  <2>2. CASE ~(t # <<>> /\ Head(t) = "/")
    BY <1>3, <2>2 DEF Body
  <2>. QED BY <2>1, <2>2
<1>. QED BY <1>5, <1>8, <1>9, <1>10, <1>11, <1>12

LEMMA ParsedMatches ==
  ASSUME NEW rule, IsParsed(rule), HasMeaning(rule.original),
         NEW path \in Seq(Chars), path # <<>>, NEW is_dir \in BOOLEAN
  PROVE  matches(rule, path, is_dir) <=> Meaning(rule.original, path, is_dir)
<1>1. PICK text \in Seq(Chars), include \in BOOLEAN : rule = parse(text, include)
  BY DEF IsParsed
<1>2. rule.original = text
  BY <1>1 DEF parse
<1>3. "/" \in Chars
  <2>1. Alphabet \in Seq(STRING) /\ "/" \in ToSet(Alphabet)
    BY AlphabetAssumption
  <2>2. PICK T : T = STRING
    OBVIOUS
  <2>3. Alphabet \in Seq(T)
    BY <2>1, <2>2
  <2>4. ToSet(Alphabet) \subseteq T
    BY <2>3 DEF ToSet
  <2>5. T \subseteq Chars
    BY <2>2 DEF Chars
  <2>. QED BY <2>1, <2>4, <2>5
<1>4. PICK S : S = Chars
  OBVIOUS
<1>5. "/" \in S /\ text \in Seq(S) /\ path \in Seq(S)
  BY <1>3, <1>4
<1>6. CASE Trailing("*", text) >= 3
  BY <1>1, <1>2, <1>5, <1>6, TripleMatches
<1>7. CASE ~(Trailing("*", text) >= 3)
  BY <1>1, <1>2, <1>5, <1>7, PlainMatches
<1>. QED BY <1>6, <1>7

LEMMA RulesMatch == LInv => MatchesAsDescribed
<1>. SUFFICES ASSUME LInv, NEW k \in RsyncRules, HasMeaning(rules[k].original),
                     NEW path \in Paths, NEW is_dir \in BOOLEAN
              PROVE  matches(rules[k], path, is_dir) = Meaning(rules[k].original, path, is_dir)
  BY DEF MatchesAsDescribed
<1>1. PICK rule : rule = rules[k]
  OBVIOUS
<1>2. rule \in RuleSet /\ rule.syntax = "rsync"
  <2>1. rules \in Seq(RuleSet) /\ k \in DOMAIN rules /\ rules[k].syntax = "rsync"
    BY DEF LInv, RsyncRules
  <2>. QED BY <1>1, <2>1
<1>3. IsParsed(rule)
  BY <1>2, RuleFacts
<1>4. path \in Seq(Chars) /\ path # <<>>
  <2>1. path \in Seq(STRING) /\ path # <<>>
    BY SetupAssumption
  <2>2. STRING \subseteq Chars
    BY DEF Chars
  <2>. QED BY <2>1, <2>2, SeqInclusion
<1>5. matches(rule, path, is_dir) <=> Meaning(rule.original, path, is_dir)
  BY <1>1, <1>3, <1>4, ParsedMatches
<1>6. matches(rule, path, is_dir) \in BOOLEAN /\ Meaning(rule.original, path, is_dir) \in BOOLEAN
  BY DEF matches, Meaning
<1>. QED BY <1>1, <1>5, <1>6

(* Whatever the rules and the paths: the tokens that parse makes of a      *)
(* pattern, and the matcher's way through a path with its backtracking     *)
(* over `*' and `**' (match_from), match exactly what the documentation of *)
(* rsync patterns describes, for every pattern it claims a meaning for.    *)
THEOREM RulesMatchAsDescribed == Spec => []MatchesAsDescribed
BY LAlways, RulesMatch, PTL

=============================================================================
