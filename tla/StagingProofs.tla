---------------------------- MODULE StagingProofs ----------------------------
(***************************************************************************)
(* Proofs about ConversionPlan and OuterStaging, for any archives, filters *)
(* and renames that PlanAssumption allows, any settings and either backend.*)
(*                                                                         *)
(* IInv is inductive over build_plan: the listing is made of normal paths, *)
(* the plan has the files met so far, and the map of new names those of    *)
(* the entries it took.  SInv adds the staging: what is still in the bulk  *)
(* directory, and what the loops of execute() have appended.               *)
(***************************************************************************)
EXTENDS OuterStaging, FiniteSetTheorems, SequenceTheorems, DataInduction, TLAPS

-----------------------------------------------------------------------------
(***************************************************************************)
(* The invariant of the proofs.                                            *)
(***************************************************************************)

\* the files that the first loop has come to, their paths, and the entries it took
Scanned == {k \in DOMAIN listing : ~listing[k].is_dir /\ (pc = "scanning" => k < cursor)}
Met     == {normalize_member_path(listing[k].path) : k \in Scanned}
Taken   == {k \in DOMAIN planned : planned[k].reason \in {"none", "unsafe destination"}}

\* what is_safe_member_path says of a normal path
IsInside(path) == path # <<>> /\ Head(path) # Drive /\ DotDot \notin ToSet(path)

\* the members whose times and attributes are looked up for a path
Alike(path) ==
  {k \in DOMAIN archive : normalize_member_path(normalize_member_path(archive[k].path))
                            = normalize_member_path(path)}

\* a listed path is normal
EntryOK(entry) ==
  /\ DOMAIN entry = {"path", "is_dir", "meta", "seven"}
  /\ entry.is_dir \in BOOLEAN
  /\ IsSequence(entry.path) /\ ~HidesDot(entry.path)
  /\ DOMAIN entry.meta = {"time", "attrs"}

\* its metadata are those of the last member of the path
MetaOK(entry) ==
  readable /\ Alike(entry.path) # {} =>
    LET m == Max(Alike(entry.path))
    IN  entry.meta.attrs = {m} /\ (archive[m].dated => entry.meta.time = {m})

\* the native listing is the archive
ListingOK ==
  /\ IsSequence(listing)
  /\ pc = "listing" => listing = <<>>
  /\ \A k \in DOMAIN listing : EntryOK(listing[k]) /\ MetaOK(listing[k])
  /\ backend = "native" /\ pc \notin {"listing", "failed"} =>
       /\ DOMAIN listing = DOMAIN archive
       /\ \A k \in DOMAIN listing :
            /\ listing[k].path = normalize_member_path(archive[k].path)
            /\ listing[k].is_dir = archive[k].is_dir

\* the entry of a file that was met
IsOfFile(entry) ==
  \E i \in Scanned : /\ entry.source = normalize_member_path(listing[i].path)
                     /\ entry.meta = listing[i].meta

\* each file met has its entry, each wanted path one that was taken
PlannedOK ==
  /\ IsSequence(planned) /\ Len(planned) = Cardinality(Scanned)
  /\ \A k \in DOMAIN planned :
       /\ DOMAIN planned[k] = {"source", "dest", "action", "reason", "meta"}
       /\ IsOfFile(planned[k])
       /\ pc # "done" => planned[k].reason # "unsafe destination"
  /\ {planned[k].source : k \in Taken} = Wanted(Met)
  /\ \A j, k \in Taken : planned[j].source = planned[k].source => j = k
  /\ seen_src = {path \in Met : IsInside(path)}

\* the new names are those of taken entries, and no two of them are the same
RenamedOK ==
  /\ pc \in {"listing", "scanning"} => rename_map = {}
  /\ \A pair \in rename_map :
       /\ pair = <<pair[1], Transform(pair[1])>>
       /\ pair[1] \in Wanted(Met) /\ pair[2] # <<>>
  /\ \A p, q \in rename_map : p[2] = q[2] => p = q
  /\ \A k \in Taken :
       pc \in {"placing", "done"} \/ (pc = "renaming" /\ k < cursor) =>
         <<planned[k].source, Transform(planned[k].source)>> \in rename_map
  /\ pc = "done" => \A k \in Planned : /\ planned[k].dest = Transform(planned[k].source)
                                       /\ is_safe_member_path(planned[k].dest)

IInv == TypeOK /\ ListingOK /\ PlannedOK /\ RenamedOK /\ RefusedForNamesOnly

-----------------------------------------------------------------------------
(***************************************************************************)
(* The invariant of the proofs.                                            *)
(***************************************************************************)

\* the loop of its kind has passed the planned entry
Behind(k) ==
  \/ stage = "passthrough" /\ planned[k].action = "Passthrough" /\ k < at
  \/ stage = "nested" /\ (planned[k].action = "Passthrough" \/ k < at)
  \/ stage = "staged"

IsLast(k, path) == k \in MembersOf(path) /\ \A j \in MembersOf(path) : j <= k

Held(path) == \E f \in extracted : f.path = path

\* nothing is staged before the plan is made, and then only what a loop has passed
StageOK ==
  /\ stage # "planning" => pc = "done"
  /\ stage = "planning" => ~bulk /\ extracted = {} /\ at = 1 /\ appended = <<>>
  /\ IsSequence(appended)
  /\ \A entry \in ToSet(appended) :
       \E k \in Planned : /\ Behind(k)
                         /\ entry.source = planned[k].source /\ entry.dest = planned[k].dest

\* The bulk directory has the last member of a path.  What a loop has not passed is still
\* there, or was taken as the only file of its name: then no other one has the name.
ExtractedOK ==
  /\ IsFiniteSet(extracted)
  /\ \A f \in extracted :
       backend = "native" \/ (normalize_member_path(f.path) = f.path /\ OneSpelling(f.path))
         => IsLast(f.from, f.path)
  /\ bulk => \A k \in Planned :
       \/ Behind(k)
       \/ /\ backend = "native" /\ OneStep => Held(planned[k].source)
          /\ /\ backend = "cli" /\ OneSpelling(planned[k].source)
             /\ StoredAs(planned[k].source) # {}
             => \/ Held(planned[k].source)
                \/ \A f \in extracted : Last(f.path) # Last(planned[k].source)

\* StagedIsPlanned for what the loops have passed
StagedSoFar ==
  backend = "native" /\ stage # "planning" /\ OneStep =>
    \A k \in Planned :
      Behind(k) /\ (bulk \/ OneSpelling(planned[k].source)) =>
        \E entry \in ToSet(appended) :
          /\ entry.dest = planned[k].dest
          /\ entry.from = <<Max(MembersOf(planned[k].source))>>

SInv ==
  IInv /\ StagingTypeOK /\ StageOK /\ ExtractedOK /\ MetaGoesWithBytes /\ StagedSoFar

-----------------------------------------------------------------------------
(* Sequences.                                                              *)

\* The steps of Subsequence: out[k] are the chosen ones among the first k elements.
IsOut(out, seq, P, n) ==
  out = [k \in 0 .. n |->
           IF k = 0 THEN <<>> ELSE IF k \in P THEN Append(out[k - 1], seq[k]) ELSE out[k - 1]]
Out(seq, P) ==
  CHOOSE out : out = [k \in 0 .. Len(seq) |->
           IF k = 0 THEN <<>> ELSE IF k \in P THEN Append(out[k - 1], seq[k]) ELSE out[k - 1]]

\* the recursive function of Subsequence exists
LEMMA OutsExist ==
  ASSUME NEW seq, NEW P, NEW m \in Nat
  PROVE  \E out : IsOut(out, seq, P, m)
<1>. DEFINE S == {n \in Nat : \E out : IsOut(out, seq, P, n)}
<1>1. 0 \in S
  <2>. DEFINE g == [i \in 0 .. 0 |-> <<>>]
  <2>1. g = [k \in 0 .. 0 |->
           IF k = 0 THEN <<>> ELSE IF k \in P THEN Append(g[k - 1], seq[k]) ELSE g[k - 1]]
    OBVIOUS
  <2>. QED BY <2>1 DEF IsOut
<1>2. ASSUME NEW n \in S PROVE n + 1 \in S
  <2>1. PICK out : IsOut(out, seq, P, n)
    OBVIOUS
  <2>. DEFINE g == [i \in 0 .. n + 1 |->
                      IF i = n + 1 THEN (IF n + 1 \in P THEN Append(out[n], seq[n + 1]) ELSE out[n])
                      ELSE out[i]]
  <2>2. \A k \in 0 .. n : out[k] = IF k = 0 THEN <<>> ELSE
                                     IF k \in P THEN Append(out[k - 1], seq[k]) ELSE out[k - 1]
    BY <2>1, Zenon DEF IsOut
  <2>3. ASSUME NEW k \in 0 .. n + 1
        PROVE  g[k] = IF k = 0 THEN <<>> ELSE
                        IF k \in P THEN Append(g[k - 1], seq[k]) ELSE g[k - 1]
    <3>1. CASE k = n + 1
      BY <3>1
    <3>2. CASE k # n + 1
      BY <2>2, <3>2
    <3>. QED BY <3>1, <3>2
  <2>4. g = [i \in 0 .. n + 1 |-> g[i]]
    OBVIOUS
  <2>. HIDE DEF g
  <2>5. g = [k \in 0 .. n + 1 |-> IF k = 0 THEN <<>> ELSE
                        IF k \in P THEN Append(g[k - 1], seq[k]) ELSE g[k - 1]]
    BY <2>3, <2>4, Zenon
  <2>6. \E h : IsOut(h, seq, P, n + 1)
    BY <2>5, Zenon DEF IsOut
  <2>. HIDE DEF g
  <2>. QED BY <2>6
<1>. HIDE DEF S
<1>3. S \subseteq Nat
  BY DEF S
<1>4. S = Nat
  BY <1>1, <1>2, <1>3, SetInduction
<1>. QED BY <1>4 DEF S

OutOK(seq, P) ==
  /\ Subsequence(seq, P) = Out(seq, P)[Len(seq)]
  /\ Out(seq, P)[0] = <<>>
  /\ \A k \in 1 .. Len(seq) :
       Out(seq, P)[k] = IF k \in P THEN Append(Out(seq, P)[k - 1], seq[k])
                                   ELSE Out(seq, P)[k - 1]

\* and makes these steps
LEMMA OutSteps ==
  ASSUME NEW seq, NEW P, Len(seq) \in Nat
  PROVE  OutOK(seq, P)
<1>1. \E out : out = [k \in 0 .. Len(seq) |->
           IF k = 0 THEN <<>> ELSE IF k \in P THEN Append(out[k - 1], seq[k]) ELSE out[k - 1]]
  <2>1. \E out : IsOut(out, seq, P, Len(seq))
    BY OutsExist, Zenon
  <2>. QED BY <2>1, Zenon DEF IsOut
<1>2. Out(seq, P) = [k \in 0 .. Len(seq) |-> IF k = 0 THEN <<>> ELSE
           IF k \in P THEN Append(Out(seq, P)[k - 1], seq[k]) ELSE Out(seq, P)[k - 1]]
  BY <1>1, Zenon DEF Out
<1>3. Subsequence(seq, P) = Out(seq, P)[Len(seq)]
  BY Zenon DEF Subsequence, Out
<1>4. \A k \in 0 .. Len(seq) : Out(seq, P)[k] =
        IF k = 0 THEN <<>> ELSE
           IF k \in P THEN Append(Out(seq, P)[k - 1], seq[k]) ELSE Out(seq, P)[k - 1]
  BY <1>2, Zenon
<1>. HIDE DEF Out
<1>. QED BY <1>3, <1>4 DEF OutOK

\* what the chosen ones among the first k are
ChosenOf(out, seq, P, S, k) ==
  /\ out[k] \in Seq(S) /\ Len(out[k]) <= k
  /\ \A i \in 1 .. Len(out[k]) : \E j \in 1 .. k : j \in P /\ out[k][i] = seq[j]
  /\ \A j \in 1 .. k : j \in P => \E i \in 1 .. Len(out[k]) : out[k][i] = seq[j]
  /\ out[k] # <<>> => \E j \in 1 .. k : /\ j \in P /\ out[k][1] = seq[j]
                                        /\ \A i \in 1 .. j - 1 : i \notin P

LEMMA Chosen ==
  ASSUME NEW S, NEW seq \in Seq(S), NEW P
  PROVE  \A k \in 0 .. Len(seq) : ChosenOf(Out(seq, P), seq, P, S, k)
<1>. DEFINE T == {k \in 0 .. Len(seq) : ChosenOf(Out(seq, P), seq, P, S, k)}
<1>0. Len(seq) \in Nat /\ \A k \in 1 .. Len(seq) : seq[k] \in S
  OBVIOUS
<1>a. /\ Out(seq, P)[0] = <<>>
      /\ \A k \in 1 .. Len(seq) : Out(seq, P)[k] = IF k \in P THEN Append(Out(seq, P)[k - 1], seq[k])
                                                             ELSE Out(seq, P)[k - 1]
  <2>1. OutOK(seq, P)
    BY <1>0, OutSteps, Zenon
  <2>. QED BY <2>1, Zenon DEF OutOK
<1>1. 0 \in T
  <2>1. Out(seq, P)[0] \in Seq(S) /\ Len(Out(seq, P)[0]) = 0
    BY <1>a
  <2>2. ChosenOf(Out(seq, P), seq, P, S, 0)
    BY <1>a, <2>1 DEF ChosenOf
  <2>. QED BY <1>0, <2>2
<1>2. ASSUME NEW k \in T, k < Len(seq) PROVE k + 1 \in T
  <2>. DEFINE m == k + 1
  <2>1. m \in 1 .. Len(seq) /\ m - 1 = k /\ k \in Nat
    BY <1>2
  <2>2. ChosenOf(Out(seq, P), seq, P, S, k)
    OBVIOUS
  <2>3. PICK o : o = Out(seq, P)[k]
    OBVIOUS
  <2>4. CASE m \in P
    <3>1. PICK e : e = seq[m]
      OBVIOUS
    <3>2. Out(seq, P)[m] = Append(o, e)
      BY <2>1, <2>3, <2>4, <3>1, <1>0, <1>a
    <3>3. /\ o \in Seq(S) /\ e \in S /\ Len(o) <= k
      BY <2>1, <2>2, <2>3, <3>1, <1>0 DEF ChosenOf
    <3>4. PICK a : a = Append(o, e)
      OBVIOUS
    <3>5. /\ a \in Seq(S) /\ Len(a) = Len(o) + 1 /\ Len(o) \in Nat
          /\ \A i \in 1 .. Len(o) : a[i] = o[i]
          /\ a[Len(o) + 1] = e
      BY <3>3, <3>4
    <3>6. \A i \in 1 .. Len(a) : \E j \in 1 .. m : j \in P /\ a[i] = seq[j]
      <4>. SUFFICES ASSUME NEW i \in 1 .. Len(a) PROVE \E j \in 1 .. m : j \in P /\ a[i] = seq[j]
        OBVIOUS
      <4>1. CASE i = Len(o) + 1
        BY <2>1, <2>4, <3>1, <3>5, <4>1
      <4>2. CASE i # Len(o) + 1
        <5>1. i \in 1 .. Len(o) /\ a[i] = o[i]
          BY <3>5, <4>2
        <5>2. PICK j \in 1 .. k : j \in P /\ o[i] = seq[j]
          BY <2>2, <2>3, <5>1 DEF ChosenOf
        <5>. QED BY <2>1, <5>1, <5>2
      <4>. QED BY <4>1, <4>2
    <3>7. \A j \in 1 .. m : j \in P => \E i \in 1 .. Len(a) : a[i] = seq[j]
      <4>. SUFFICES ASSUME NEW j \in 1 .. m, j \in P PROVE \E i \in 1 .. Len(a) : a[i] = seq[j]
        OBVIOUS
      <4>1. CASE j = m
        BY <3>1, <3>5, <4>1
      <4>2. CASE j # m
        <5>1. PICK i \in 1 .. Len(o) : o[i] = seq[j]
          BY <2>1, <2>2, <2>3, <4>2 DEF ChosenOf
        <5>. QED BY <3>5, <5>1
      <4>. QED BY <4>1, <4>2
    <3>8. \E j \in 1 .. m : j \in P /\ a[1] = seq[j] /\ \A i \in 1 .. j - 1 : i \notin P
      <4>1. CASE o = <<>>
        <5>1. Len(o) = 0
          BY <4>1
        <5>2. \A i \in 1 .. k : i \notin P
          BY <2>2, <2>3, <5>1, <3>3 DEF ChosenOf
        <5>. QED BY <2>1, <2>4, <3>1, <3>5, <5>1, <5>2
      <4>2. CASE o # <<>>
        <5>1. PICK j \in 1 .. k : /\ j \in P /\ o[1] = seq[j] /\ \A i \in 1 .. j - 1 : i \notin P
          BY <2>2, <2>3, <4>2 DEF ChosenOf
        <5>2. Len(o) >= 1
          BY <3>3, <4>2
        <5>. QED BY <2>1, <3>5, <5>1, <5>2
      <4>. QED BY <4>1, <4>2
    <3>9. Len(a) <= m
      BY <3>3, <3>5
    <3>10. ChosenOf(Out(seq, P), seq, P, S, m)
      <4>1. a = Out(seq, P)[m] /\ a \in Seq(S)
        BY <3>2, <3>4, <3>5
      <4>. HIDE DEF m
      <4>. QED BY <4>1, <3>6, <3>7, <3>8, <3>9, Zenon DEF ChosenOf
    <3>. QED BY <2>1, <3>10
  <2>5. CASE m \notin P
    <3>1. Out(seq, P)[m] = o
      BY <2>1, <2>3, <2>5, <1>0, <1>a
    <3>2. /\ o \in Seq(S) /\ Len(o) <= k
      BY <2>1, <2>2, <2>3, <1>0 DEF ChosenOf
    <3>3. \A i \in 1 .. Len(o) : \E j \in 1 .. m : j \in P /\ o[i] = seq[j]
      <4>. SUFFICES ASSUME NEW i \in 1 .. Len(o) PROVE \E j \in 1 .. m : j \in P /\ o[i] = seq[j]
        OBVIOUS
      <4>1. PICK j \in 1 .. k : j \in P /\ o[i] = seq[j]
        BY <2>2, <2>3 DEF ChosenOf
      <4>. QED BY <2>1, <4>1
    <3>4. \A j \in 1 .. m : j \in P => \E i \in 1 .. Len(o) : o[i] = seq[j]
      <4>. SUFFICES ASSUME NEW j \in 1 .. m, j \in P PROVE \E i \in 1 .. Len(o) : o[i] = seq[j]
        OBVIOUS
      <4>1. j # m /\ j \in 1 .. k
        BY <2>1, <2>5
      <4>. QED BY <2>2, <2>3, <4>1 DEF ChosenOf
    <3>5. o # <<>> =>
            \E j \in 1 .. m : j \in P /\ o[1] = seq[j] /\ \A i \in 1 .. j - 1 : i \notin P
      <4>. SUFFICES ASSUME o # <<>>
                    PROVE  \E j \in 1 .. m : j \in P /\ o[1] = seq[j] /\ \A i \in 1 .. j - 1 : i \notin P
        OBVIOUS
      <4>1. PICK j \in 1 .. k : /\ j \in P /\ o[1] = seq[j] /\ \A i \in 1 .. j - 1 : i \notin P
        BY <2>2, <2>3 DEF ChosenOf
      <4>2. j \in 1 .. m
        BY <2>1
      <4>. QED BY <4>1, <4>2
    <3>6. Len(o) <= m
      BY <2>1, <3>2
    <3>7. ChosenOf(Out(seq, P), seq, P, S, m)
      <4>. HIDE DEF m
      <4>. QED BY <3>1, <3>2, <3>3, <3>4, <3>5, <3>6, Zenon DEF ChosenOf
    <3>. QED BY <2>1, <3>7
  <2>. QED BY <2>4, <2>5
<1>. HIDE DEF T
<1>3. \A k \in 0 .. Len(seq) : k \in T
  BY <1>0, <1>1, <1>2, BoundedInduction
<1>. QED BY <1>3 DEF T

IsChosen(out, seq, P, S) ==
  /\ out \in Seq(S) /\ Len(out) <= Len(seq)
  /\ \A i \in 1 .. Len(out) : \E j \in 1 .. Len(seq) : j \in P /\ out[i] = seq[j]
  /\ \A j \in 1 .. Len(seq) : j \in P => \E i \in 1 .. Len(out) : out[i] = seq[j]
  /\ out # <<>> => \E j \in 1 .. Len(seq) : /\ j \in P /\ out[1] = seq[j]
                                            /\ \A i \in 1 .. j - 1 : i \notin P

\* Subsequence returns the chosen elements, all of them, and begins with the first
LEMMA Subsequences ==
  ASSUME NEW S, NEW seq \in Seq(S), NEW P
  PROVE  IsChosen(Subsequence(seq, P), seq, P, S)
<1>1. Len(seq) \in 0 .. Len(seq) /\ Len(seq) \in Nat
  OBVIOUS
<1>2. ChosenOf(Out(seq, P), seq, P, S, Len(seq))
  BY <1>1, Chosen
<1>3. Subsequence(seq, P) = Out(seq, P)[Len(seq)]
  <2>1. OutOK(seq, P)
    BY <1>1, OutSteps, Zenon
  <2>. QED BY <2>1, Zenon DEF OutOK
<1>. QED BY <1>2, <1>3, Zenon DEF ChosenOf, IsChosen

\* the first n elements are the chosen ones
LEMMA Beginning ==
  ASSUME NEW S, NEW seq \in Seq(S), NEW P, NEW n \in 0 .. Len(seq),
         \A k \in 1 .. Len(seq) : k \in P <=> k <= n
  PROVE  Subsequence(seq, P) = SubSeq(seq, 1, n)
<1>. DEFINE T == {k \in 0 .. Len(seq) : /\ k <= n => Out(seq, P)[k] = SubSeq(seq, 1, k)
                                        /\ n <= k => Out(seq, P)[k] = SubSeq(seq, 1, n)}
<1>0. Len(seq) \in Nat /\ n \in Nat
  OBVIOUS
<1>a. OutOK(seq, P)
  BY <1>0, OutSteps, Zenon
<1>1. 0 \in T
  <2>1. SubSeq(seq, 1, 0) = <<>> /\ (n <= 0 => n = 0)
    BY <1>0
  <2>2. Out(seq, P)[0] = <<>>
    BY <1>a DEF OutOK
  <2>3. n <= 0 => SubSeq(seq, 1, n) = <<>>
    BY <2>1
  <2>4. 0 \in 0 .. Len(seq)
    BY <1>0
  <2>. QED BY <2>1, <2>2, <2>3, <2>4, Zenon
<1>2. ASSUME NEW k \in T, k < Len(seq) PROVE k + 1 \in T
  <2>1. PICK m \in 1 .. Len(seq) : m = k + 1 /\ m - 1 = k /\ k \in Nat
    BY <1>2
  <2>a. Out(seq, P)[m] = IF m \in P THEN Append(Out(seq, P)[k], seq[m]) ELSE Out(seq, P)[k]
    BY <1>a, <2>1, Zenon DEF OutOK
  <2>b. m \in P <=> m <= n
    OBVIOUS
  <2>. HIDE DEF T
  <2>c. /\ k <= n => Out(seq, P)[k] = SubSeq(seq, 1, k)
        /\ n <= k => Out(seq, P)[k] = SubSeq(seq, 1, n)
    BY DEF T
  <2>2. CASE m <= n
    <3>1. Out(seq, P)[k] = SubSeq(seq, 1, k)
      BY <2>1, <2>2, <2>c, <1>0
    <3>2. SubSeq(seq, 1, m) = Append(SubSeq(seq, 1, k), seq[m])
      BY <2>1, <2>2
    <3>3. Out(seq, P)[m] = SubSeq(seq, 1, m)
      BY <2>2, <2>a, <2>b, <3>1, <3>2
    <3>4. n <= m => n = m
      BY <2>2, <1>0
    <3>5. m \in T
      BY <3>3, <3>4 DEF T
    <3>. QED BY <2>1, <3>5
  <2>3. CASE ~ (m <= n)
    <3>1. Out(seq, P)[m] = SubSeq(seq, 1, n)
      BY <2>1, <2>3, <2>a, <2>b, <2>c, <1>0
    <3>2. m \in T
      BY <2>3, <3>1 DEF T
    <3>. QED BY <2>1, <3>2
  <2>. QED BY <2>2, <2>3
<1>. HIDE DEF T
<1>3. \A k \in 0 .. Len(seq) : k \in T
  BY <1>0, <1>1, <1>2, BoundedInduction
<1>4. Out(seq, P)[Len(seq)] = SubSeq(seq, 1, n)
  BY <1>0, <1>3 DEF T
<1>. QED BY <1>4, <1>a DEF OutOK

\* elements, ends and joins of sequences
LEMMA Sequences1 ==
  ASSUME NEW S, NEW s \in Seq(S)
  PROVE  IsSequence(s) /\ DOMAIN s = 1 .. Len(s) /\ Len(s) \in Nat /\ ToSet(s) \subseteq S
<1>1. DOMAIN s = 1 .. Len(s) /\ Len(s) \in Nat /\ s \in [1 .. Len(s) -> S]
  OBVIOUS
<1>2. \A i \in 1 .. Len(s) : s[i] \in ToSet(s)
  BY <1>1 DEF ToSet
<1>3. s \in [1 .. Len(s) -> ToSet(s)]
  BY <1>1, <1>2
<1>4. s \in Seq(ToSet(s))
  BY <1>1, <1>3, SeqDef
<1>5. \A x \in ToSet(s) : x \in S
  BY <1>1 DEF ToSet
<1>. QED BY <1>1, <1>4, <1>5 DEF IsSequence

-----------------------------------------------------------------------------
(* Normal paths.                                                           *)

\* StripDots takes away d dots, and as many as it can
LEMMA Stripped ==
  ASSUME NEW S, NEW p \in Seq(S)
  PROVE  \E d \in 0 .. Len(p) :
           /\ StripDots(p) \in Seq(S) /\ Len(StripDots(p)) = Len(p) - d
           /\ StripDots(p) = SubSeq(p, d + 1, Len(p))
           /\ \A i \in 1 .. Len(p) - d : StripDots(p)[i] = p[d + i]
           /\ \A i \in 1 .. d : p[i] = Dot
           /\ p # <<>> => d < Len(p)
           /\ d + 1 < Len(p) => p[d + 1] # Dot
<1>. DEFINE D == {0} \cup {k \in 1 .. Len(p) - 1 : \A i \in 1 .. k : p[i] = Dot}
<1>0. Len(p) \in Nat
  OBVIOUS
<1>1. D \subseteq Nat /\ D # {} /\ \A y \in D : y <= Len(p)
  BY <1>0
<1>2. Max(D) \in D /\ \A y \in D : Max(D) >= y
  <2>. HIDE DEF D
  <2>. QED BY <1>0, <1>1, MaxIsGreatest
<1>3. PICK d : d = Max(D)
  OBVIOUS
<1>4. StripDots(p) = SubSeq(p, d + 1, Len(p))
  BY <1>3, Zenon DEF StripDots
<1>5. /\ d \in 0 .. Len(p) /\ (p # <<>> => d < Len(p))
      /\ \A i \in 1 .. d : p[i] = Dot
  <2>1. d \in D
    BY <1>2, <1>3
  <2>2. p # <<>> => Len(p) >= 1
    OBVIOUS
  <2>. QED BY <1>0, <2>1, <2>2
<1>6. d + 1 < Len(p) => p[d + 1] # Dot
  <2>. SUFFICES ASSUME d + 1 < Len(p), p[d + 1] = Dot PROVE FALSE
    OBVIOUS
  <2>1. PICK m \in Nat : m = d + 1
    BY <1>5
  <2>2. m \in 1 .. Len(p) - 1
    BY <1>0, <1>5, <2>1
  <2>3. \A i \in 1 .. m : p[i] = Dot
    BY <1>5, <2>1
  <2>4. m \in D
    BY <2>2, <2>3
  <2>. HIDE DEF D
  <2>5. d >= m
    BY <1>2, <1>3, <2>4
  <2>. QED BY <1>5, <2>1, <2>5
<1>7. /\ SubSeq(p, d + 1, Len(p)) \in Seq(S)
      /\ Len(SubSeq(p, d + 1, Len(p))) = Len(p) - d
      /\ \A i \in 1 .. Len(p) - d : SubSeq(p, d + 1, Len(p))[i] = p[d + i]
  BY <1>0, <1>5
<1>. QED BY <1>4, <1>5, <1>6, <1>7

\* the special names are different ones
LEMMA BlankIsNoDot == Blank # Dot /\ Blank # DotDot /\ Dot # DotDot
BY DEF Blank, Dot, DotDot, Plain

\* the names of a path, without empty ones
IsNames(names, S) == names \in Seq(S) /\ \A i \in 1 .. Len(names) : names[i] # Blank

\* N is names, perhaps with a slash at the end
Ended(N, names) == N = names \/ (names # <<>> /\ N = Append(names, Blank))

\* what normalize_member_path returns, unless it strips a `./' that a slash hides
LEMMA Normalized ==
  ASSUME NEW S, NEW p \in Seq(S)
  PROVE  /\ normalize_member_path(p) \in Seq(S)
         /\ \E names : IsNames(names, S) /\ Ended(normalize_member_path(p), names)
         /\ \A i \in 1 .. Len(normalize_member_path(p)) :
              normalize_member_path(p)[i] \in ToSet(p)
         /\ \A i \in 1 .. Len(p) : p[i] \notin {Dot, Blank} =>
              \E j \in 1 .. Len(normalize_member_path(p)) : normalize_member_path(p)[j] = p[i]
         /\ ~HidesDot(p) => \/ Len(normalize_member_path(p)) <= 1
                            \/ normalize_member_path(p)[1] # Dot
<1>1. PICK d \in 0 .. Len(p) :
           /\ StripDots(p) \in Seq(S) /\ Len(StripDots(p)) = Len(p) - d
           /\ \A i \in 1 .. Len(p) - d : StripDots(p)[i] = p[d + i]
           /\ \A i \in 1 .. d : p[i] = Dot
           /\ p # <<>> => d < Len(p)
           /\ d + 1 < Len(p) => p[d + 1] # Dot
  BY Stripped
<1>2. PICK t : t = StripDots(p)
  OBVIOUS
<1>3. PICK P : P = {k \in DOMAIN t : t[k] # Blank}
  OBVIOUS
<1>4. PICK names : names = Subsequence(t, P)
  OBVIOUS
<1>5. normalize_member_path(p) = IF names # <<>> /\ Last(t) = Blank THEN Append(names, Blank) ELSE names
  BY <1>2, <1>3, <1>4, Zenon DEF normalize_member_path
<1>6. t \in Seq(S) /\ DOMAIN t = 1 .. Len(t) /\ Len(t) \in Nat /\ Len(p) \in Nat /\ Len(t) = Len(p) - d
  BY <1>1, <1>2
<1>7. /\ names \in Seq(S) /\ Len(names) <= Len(t) /\ Len(names) \in Nat
      /\ \A i \in 1 .. Len(names) : \E j \in 1 .. Len(t) : j \in P /\ names[i] = t[j]
      /\ \A j \in 1 .. Len(t) : j \in P => \E i \in 1 .. Len(names) : names[i] = t[j]
      /\ names # <<>> =>
           \E j \in 1 .. Len(t) : /\ j \in P /\ names[1] = t[j] /\ \A i \in 1 .. j - 1 : i \notin P
  <2>1. IsChosen(names, t, P, S)
    BY <1>4, <1>6, Subsequences, Zenon
  <2>. QED BY <1>6, <2>1 DEF IsChosen
<1>8. IsNames(names, S)
  BY <1>3, <1>7 DEF IsNames
<1>9. \A i \in 1 .. Len(t) : t[i] = p[d + i] /\ d + i \in 1 .. Len(p)
  BY <1>1, <1>2, <1>6
<1>a. \A i \in 1 .. Len(p) : p[i] \in ToSet(p) /\ p[i] \in S
  BY Sequences1 DEF ToSet
<1>d. ASSUME names # <<>>, names[1] = Dot, ~HidesDot(p) PROVE Len(t) = 1 /\ t[1] = Dot
  <2>2. PICK j \in 1 .. Len(t) : /\ j \in P /\ names[1] = t[j] /\ \A i \in 1 .. j - 1 : i \notin P
    BY <1>7, <1>d
  <2>3. t[j] = Dot
    BY <1>d, <2>2
  <2>5. CASE j = 1
    <3>1. p[d + 1] = Dot
      BY <1>6, <1>9, <2>3, <2>5
    <3>. QED BY <1>1, <1>6, <2>3, <2>5, <3>1
  <2>6. CASE j # 1
    <3>1. \A i \in 1 .. j - 1 : t[i] = Blank
      BY <1>3, <1>6, <2>2
    <3>2. PICK k \in 2 .. Len(p) : k = d + j
      BY <1>6, <2>6
    <3>3. p[k] = Dot
      BY <1>9, <2>3, <3>2
    <3>4. p[k - 1] = Blank
      <4>1. j - 1 \in 1 .. j - 1 /\ d + (j - 1) = k - 1 /\ j - 1 \in 1 .. Len(t)
        BY <1>6, <2>6, <3>2
      <4>. QED BY <1>9, <3>1, <4>1
    <3>5. ASSUME NEW i \in 1 .. k - 1 PROVE p[i] \in {Dot, Blank}
      <4>1. CASE i <= d
        BY <1>1, <4>1
      <4>2. CASE ~ (i <= d)
        <5>1. PICK l \in 1 .. j - 1 : i = d + l
          <6>1. i - d \in 1 .. j - 1
            BY <3>2, <4>2
          <6>. QED BY <6>1
        <5>. QED BY <1>6, <1>9, <3>1, <5>1
      <4>. QED BY <4>1, <4>2
    <3>. QED BY <1>d, <3>3, <3>4, <3>5 DEF HidesDot
  <2>. QED BY <2>5, <2>6
<1>b. CASE names # <<>> /\ Last(t) = Blank
  <2>0. Len(names) >= 1 /\ Len(t) >= 1
    BY <1>7, <1>b
  <2>1. Blank = t[Len(t)]
    BY <1>b DEF Last
  <2>2. Blank \in S /\ Blank \in ToSet(p)
    BY <2>0, <2>1, <1>6, <1>9, <1>a
  <2>3. PICK N : N = Append(names, Blank)
    OBVIOUS
  <2>4. normalize_member_path(p) = N
    BY <1>5, <1>b, <2>3
  <2>5. /\ N \in Seq(S) /\ Len(N) = Len(names) + 1
        /\ \A i \in 1 .. Len(names) : N[i] = names[i]
        /\ N[Len(names) + 1] = Blank
    BY <1>7, <2>2, <2>3
  <2>6. ASSUME NEW i \in 1 .. Len(N) PROVE N[i] \in ToSet(p)
    <3>1. CASE i = Len(names) + 1
      BY <2>2, <2>5, <3>1
    <3>2. CASE i # Len(names) + 1
      <4>1. i \in 1 .. Len(names)
        BY <1>7, <2>5, <3>2
      <4>2. PICK j \in 1 .. Len(t) : names[i] = t[j]
        BY <4>1, <1>7
      <4>. QED BY <4>1, <4>2, <1>9, <1>a, <2>5
    <3>. QED BY <3>1, <3>2
  <2>7. ASSUME NEW i \in 1 .. Len(p), p[i] \notin {Dot, Blank}
        PROVE  \E j \in 1 .. Len(N) : N[j] = p[i]
    <3>1. ~ (i <= d)
      BY <1>1, <2>7
    <3>2. PICK k \in 1 .. Len(t) : i = d + k
      <4>1. i - d \in 1 .. Len(t)
        BY <3>1, <1>6
      <4>. QED BY <4>1
    <3>3. t[k] = p[i] /\ k \in P
      BY <1>3, <1>6, <1>9, <3>2, <2>7
    <3>4. PICK j \in 1 .. Len(names) : names[j] = t[k]
      BY <1>7, <3>3
    <3>. QED BY <1>7, <2>5, <3>3, <3>4
  <2>8. ASSUME ~HidesDot(p) PROVE N[1] # Dot
    BY <1>b, <1>d, <2>0, <2>1, <2>5, <2>8, BlankIsNoDot
  <2>9. Ended(N, names)
    BY <1>b, <2>3 DEF Ended
  <2>. QED BY <1>8, <2>4, <2>5, <2>6, <2>7, <2>8, <2>9
<1>c. CASE ~ (names # <<>> /\ Last(t) = Blank)
  <2>4. normalize_member_path(p) = names
    BY <1>5, <1>c
  <2>6. ASSUME NEW i \in 1 .. Len(names) PROVE names[i] \in ToSet(p)
    BY <1>7, <1>9, <1>a
  <2>7. ASSUME NEW i \in 1 .. Len(p), p[i] \notin {Dot, Blank}
        PROVE  \E j \in 1 .. Len(names) : names[j] = p[i]
    <3>1. ~ (i <= d)
      BY <1>1, <2>7
    <3>2. PICK k \in 1 .. Len(t) : i = d + k
      <4>1. i - d \in 1 .. Len(t)
        BY <3>1, <1>6
      <4>. QED BY <4>1
    <3>3. t[k] = p[i] /\ k \in P
      BY <1>3, <1>6, <1>9, <3>2, <2>7
    <3>. QED BY <1>7, <3>3
  <2>8. ASSUME ~HidesDot(p) PROVE Len(names) <= 1 \/ names[1] # Dot
    <3>. SUFFICES ASSUME names[1] = Dot, Len(names) > 1 PROVE FALSE
      BY <1>7
    <3>1. names # <<>>
      BY <1>7
    <3>2. Len(t) = 1
      BY <1>d, <2>8, <3>1
    <3>. QED BY <1>7, <3>2
  <2>9. Ended(names, names)
    BY DEF Ended
  <2>. QED BY <1>7, <1>8, <2>4, <2>6, <2>7, <2>8, <2>9
<1>. QED BY <1>b, <1>c

\* a path that is normal already stays what it is
LEMMA Stays ==
  ASSUME NEW S, NEW names, IsNames(names, S), NEW N \in Seq(S), Ended(N, names),
         Len(N) <= 1 \/ N[1] # Dot
  PROVE  normalize_member_path(N) = N
<1>0. Len(N) \in Nat /\ DOMAIN N = 1 .. Len(N) /\ names \in Seq(S) /\ Len(names) \in Nat
  BY DEF IsNames
<1>1. StripDots(N) = N
  <2>1. PICK d \in 0 .. Len(N) :
           /\ StripDots(N) = SubSeq(N, d + 1, Len(N))
           /\ \A i \in 1 .. d : N[i] = Dot
           /\ N # <<>> => d < Len(N)
    BY Stripped
  <2>2. d = 0
    <3>. SUFFICES ASSUME d >= 1 PROVE FALSE
      BY <2>1
    <3>1. N[1] = Dot /\ N # <<>>
      BY <2>1, <1>0
    <3>. QED BY <2>1, <3>1, <1>0
  <2>. QED BY <2>1, <2>2
<1>2. /\ N = names \/ N = Append(names, Blank)
      /\ Len(names) <= Len(N) /\ Len(N) <= Len(names) + 1
      /\ \A i \in 1 .. Len(names) : N[i] = names[i]
      /\ Len(N) # Len(names) => N = Append(names, Blank) /\ names # <<>> /\ N[Len(names) + 1] = Blank
  <2>1. CASE N = names
    BY <1>0, <2>1
  <2>2. CASE names # <<>> /\ N = Append(names, Blank)
    <3>1. /\ Len(Append(names, Blank)) = Len(names) + 1
          /\ \A i \in 1 .. Len(names) : Append(names, Blank)[i] = names[i]
          /\ Append(names, Blank)[Len(names) + 1] = Blank
      BY <1>0
    <3>. QED BY <1>0, <2>2, <3>1
  <2>. QED BY <2>1, <2>2 DEF Ended
<1>a. /\ Len(names) <= Len(N) /\ Len(N) <= Len(names) + 1
      /\ \A i \in 1 .. Len(names) : N[i] = names[i]
      /\ Len(N) # Len(names) => N[Len(names) + 1] = Blank
  BY <1>2, Zenon
<1>3. PICK P : P = {k \in DOMAIN N : N[k] # Blank}
  OBVIOUS
<1>4. \A k \in 1 .. Len(N) : k \in P <=> k <= Len(names)
  <2>1. \A k \in 1 .. Len(names) : N[k] # Blank
    BY <1>a DEF IsNames
  <2>2. \A k \in 1 .. Len(N) : ~ (k <= Len(names)) => N[k] = Blank
    BY <1>0, <1>a
  <2>. QED BY <1>0, <1>3, <2>1, <2>2
<1>5. Subsequence(N, P) = SubSeq(N, 1, Len(names))
  <2>1. PICK n \in 0 .. Len(N) : n = Len(names)
    BY <1>0, <1>a
  <2>2. \A k \in 1 .. Len(N) : k \in P <=> k <= n
    BY <1>4, <2>1
  <2>3. Subsequence(N, P) = SubSeq(N, 1, n)
    BY <2>2, Beginning
  <2>. QED BY <2>1, <2>3
<1>6. SubSeq(N, 1, Len(names)) = names
  BY <1>0, <1>a
<1>7. normalize_member_path(N)
        = IF names # <<>> /\ Last(N) = Blank THEN Append(names, Blank) ELSE names
  BY <1>1, <1>3, <1>5, <1>6, Zenon DEF normalize_member_path
<1>8. CASE Len(N) = Len(names)
  <2>1. N = names
    BY <1>0, <1>a, <1>8
  <2>2. N # <<>> => N[Len(N)] # Blank
    BY <1>0, <2>1 DEF IsNames
  <2>. QED BY <1>7, <2>1, <2>2 DEF Last
<1>9. CASE Len(N) # Len(names)
  <2>0. \A x, y \in Nat : x # y /\ y <= x /\ x <= y + 1 => x = y + 1
    OBVIOUS
  <2>1. Len(N) = Len(names) + 1
    BY <1>0, <1>a, <1>9, <2>0, Zenon
  <2>2. Last(N) = Blank
    BY <1>a, <1>9, <2>1 DEF Last
  <2>3. N = Append(names, Blank) /\ names # <<>>
    BY <1>2, <1>9, Zenon
  <2>. QED BY <1>7, <2>2, <2>3, Zenon
<1>. QED BY <1>8, <1>9

\* a normalized path, whatever it was made from
LEMMA NormalPath ==
  ASSUME NEW p, IsSequence(p)
  PROVE  /\ IsSequence(normalize_member_path(p))
         /\ ~HidesDot(normalize_member_path(p))
         /\ normalize_member_path(p) # <<>> => Head(normalize_member_path(p)) # Blank
         /\ ~HidesDot(p) =>
              normalize_member_path(normalize_member_path(p)) = normalize_member_path(p)
<1>. DEFINE S == ToSet(p)
<1>1. p \in Seq(S)
  BY DEF IsSequence
<1>2. PICK q : q = normalize_member_path(p)
  OBVIOUS
<1>3. PICK names : /\ q \in Seq(S) /\ IsNames(names, S) /\ Ended(q, names)
                   /\ ~HidesDot(p) => Len(q) <= 1 \/ q[1] # Dot
  <2>. HIDE DEF S
  <2>. QED BY <1>1, <1>2, Normalized
<1>. HIDE DEF S
<1>4. IsSequence(q)
  BY <1>3, Sequences1
<1>5. /\ Len(names) \in Nat /\ Len(q) \in Nat /\ \A i \in 1 .. Len(names) : names[i] # Blank
      /\ Len(q) <= Len(names) + 1 /\ \A i \in 1 .. Len(names) : q[i] = names[i]
      /\ q # <<>> => names # <<>>
  <2>1. names \in Seq(S) /\ \A i \in 1 .. Len(names) : names[i] # Blank
    BY <1>3 DEF IsNames
  <2>2. CASE q = names
    BY <2>1, <2>2
  <2>3. CASE names # <<>> /\ q = Append(names, Blank)
    <3>1. /\ Len(Append(names, Blank)) = Len(names) + 1
          /\ \A i \in 1 .. Len(names) : Append(names, Blank)[i] = names[i]
      BY <2>1
    <3>. QED BY <2>1, <2>3, <3>1
  <2>. QED BY <1>3, <2>2, <2>3 DEF Ended
<1>6. ~HidesDot(q)
  <2>. SUFFICES ASSUME NEW k \in 2 .. Len(q), q[k - 1] = Blank PROVE FALSE
    BY DEF HidesDot
  <2>1. k - 1 \in 1 .. Len(names)
    BY <1>5
  <2>. QED BY <1>5, <2>1
<1>7. q # <<>> => Head(q) # Blank
  <2>. SUFFICES ASSUME q # <<>> PROVE Head(q) # Blank
    OBVIOUS
  <2>1. Head(q) = q[1] /\ Len(names) >= 1
    <3>1. names \in Seq(S)
      BY <1>3 DEF IsNames
    <3>. QED BY <1>3, <1>5, <3>1
  <2>. QED BY <1>5, <2>1
<1>8. ~HidesDot(p) => normalize_member_path(q) = q
  BY <1>3, Stays
<1>. QED BY <1>2, <1>4, <1>6, <1>7, <1>8

\* the empty path is normal
LEMMA EmptyPath == normalize_member_path(<<>>) = <<>>
<1>1. <<>> \in Seq({}) /\ IsNames(<<>>, {}) /\ Ended(<<>>, <<>>) /\ Len(<<>>) <= 1
  BY DEF IsNames, Ended
<1>. QED BY <1>1, Stays

\* a name other than `.' and the empty one stays in the path
LEMMA NamesStay ==
  ASSUME NEW p, IsSequence(p), NEW n, n \notin {Dot, Blank}
  PROVE  n \in ToSet(p) <=> n \in ToSet(normalize_member_path(p))
<1>. DEFINE S == ToSet(p)
<1>1. p \in Seq(S)
  BY DEF IsSequence
<1>2. PICK q : q = normalize_member_path(p)
  OBVIOUS
<1>. HIDE DEF S
<1>3. /\ q \in Seq(S)
      /\ \A i \in 1 .. Len(q) : q[i] \in ToSet(p)
      /\ \A i \in 1 .. Len(p) : p[i] \notin {Dot, Blank} => \E j \in 1 .. Len(q) : q[j] = p[i]
  BY <1>1, <1>2, Normalized
<1>4. DOMAIN p = 1 .. Len(p) /\ DOMAIN q = 1 .. Len(q)
  BY <1>1, <1>3
<1>5. n \in ToSet(p) => n \in ToSet(q)
  BY <1>3, <1>4 DEF ToSet
<1>6. n \in ToSet(q) => n \in ToSet(p)
  BY <1>3, <1>4 DEF ToSet
<1>. QED BY <1>2, <1>5, <1>6

\* what is_safe_member_path lets through

\* on a normal path is_safe_member_path means that it stays inside the output
LEMMA SafePaths ==
  ASSUME NEW p, IsSequence(p)
  PROVE  /\ is_safe_member_path(p) => IsInside(p)
         /\ (p # <<>> => Head(p) # Blank) /\ normalize_member_path(p) = p /\ IsInside(p)
              => is_safe_member_path(p)
<1>1. DotDot \in ToSet(p) <=> DotDot \in ToSet(normalize_member_path(p))
  BY NamesStay, BlankIsNoDot
<1>. QED BY <1>1 DEF is_safe_member_path, IsInside

-----------------------------------------------------------------------------
(* Renaming.                                                               *)

\* fronts, tails and joins of paths are paths
LEMMA Sequences2 ==
  /\ IsSequence(<<>>)
  /\ \A n : IsSequence(<<n>>)
  /\ \A s, t : IsSequence(s) /\ IsSequence(t) => IsSequence(s \o t)
  /\ \A s, m, n : IsSequence(s) /\ m \in 1 .. Len(s) + 1 /\ n \in 0 .. Len(s) => IsSequence(SubSeq(s, m, n))
<1>1. IsSequence(<<>>)
  <2>1. <<>> \in Seq({})
    OBVIOUS
  <2>. QED BY <2>1, Sequences1
<1>2. ASSUME NEW n PROVE IsSequence(<<n>>)
  <2>1. <<n>> \in Seq({n})
    OBVIOUS
  <2>. QED BY <2>1, Sequences1
<1>3. ASSUME NEW s, NEW t, IsSequence(s), IsSequence(t) PROVE IsSequence(s \o t)
  <2>1. PICK S : S = ToSet(s) \cup ToSet(t)
    OBVIOUS
  <2>2. s \in Seq(ToSet(s)) /\ t \in Seq(ToSet(t))
    BY <1>3 DEF IsSequence
  <2>3. ToSet(s) \subseteq S /\ ToSet(t) \subseteq S
    BY <2>1
  <2>4. s \in Seq(S) /\ t \in Seq(S)
    BY <2>2, <2>3, SeqMonotonic, Zenon
  <2>5. s \o t \in Seq(S)
    BY <2>4
  <2>. QED BY <2>5, Sequences1
<1>4. ASSUME NEW s, NEW m, NEW n, IsSequence(s), m \in 1 .. Len(s) + 1, n \in 0 .. Len(s)
      PROVE  IsSequence(SubSeq(s, m, n))
  <2>1. s \in Seq(ToSet(s)) /\ Len(s) \in Nat
    BY <1>4 DEF IsSequence
  <2>2. m \in Int /\ n \in Int /\ \A i \in m .. n : s[i] \in ToSet(s)
    BY <1>4, <2>1, Sequences1 DEF ToSet
  <2>3. SubSeq(s, m, n) \in Seq(ToSet(s))
    BY <2>2, SubSeqProperties
  <2>. QED BY <2>3, Sequences1
<1>. QED BY <1>1, <1>2, <1>3, <1>4

\* a rule makes a path of a path
LEMMA ReplaceTypes ==
  ASSUME NEW path, IsSequence(path), NEW rule, IsSequence(rule.from), IsSequence(rule.to)
  PROVE  IsSequence(Replace(path, rule))
<1>1. Len(path) \in Nat /\ Len(rule.from) \in Nat /\ (path # <<>> => Len(path) >= 1)
  BY DEF IsSequence
<1>2. IsStrictPrefix(rule.from, path) =>
        IsSequence(rule.to \o SubSeq(path, Len(rule.from) + 1, Len(path)))
  <2>. SUFFICES ASSUME IsStrictPrefix(rule.from, path)
                PROVE  IsSequence(rule.to \o SubSeq(path, Len(rule.from) + 1, Len(path)))
    OBVIOUS
  <2>1. Len(rule.from) <= Len(path)
    BY DEF IsStrictPrefix, IsPrefix
  <2>2. Len(rule.from) + 1 \in 1 .. Len(path) + 1 /\ Len(path) \in 0 .. Len(path)
    BY <1>1, <2>1
  <2>3. IsSequence(SubSeq(path, Len(rule.from) + 1, Len(path)))
    BY <2>2, Sequences2
  <2>. QED BY <2>3, Sequences2
<1>3. path # <<>> => IsSequence(Front(path) \o rule.to)
  <2>. SUFFICES ASSUME path # <<>> PROVE IsSequence(Front(path) \o rule.to)
    OBVIOUS
  <2>1. 1 \in 1 .. Len(path) + 1 /\ Len(path) - 1 \in 0 .. Len(path)
    BY <1>1
  <2>2. IsSequence(Front(path))
    BY <2>1, Sequences2 DEF Front
  <2>. QED BY <2>2, Sequences2
<1>. DEFINE c1 == rule.shape = "prefix" /\ IsStrictPrefix(rule.from, path)
            c2 == rule.shape = "flatten" /\ path # <<>>
            c3 == rule.shape = "whole" /\ path = rule.from
            c4 == rule.shape = "last" /\ path # <<>> /\ Last(path) = rule.from[1]
<1>4. Replace(path, rule) =
        CASE c1 -> rule.to \o SubSeq(path, Len(rule.from) + 1, Len(path))
          [] c2 -> <<Last(path)>>
          [] c3 -> rule.to
          [] c4 -> Front(path) \o rule.to
          [] OTHER -> path
  BY DEF Replace
<1>5. IsSequence(<<Last(path)>>)
  BY Sequences2
<1>6. /\ c1 => Replace(path, rule) = rule.to \o SubSeq(path, Len(rule.from) + 1, Len(path))
      /\ c2 => Replace(path, rule) = <<Last(path)>>
      /\ c3 => Replace(path, rule) = rule.to
      /\ c4 => Replace(path, rule) = Front(path) \o rule.to
      /\ ~c1 /\ ~c2 /\ ~c3 /\ ~c4 => Replace(path, rule) = path
  <2>1. /\ c1 => ~c2 /\ ~c3 /\ ~c4
        /\ c2 => ~c3 /\ ~c4
        /\ c3 => ~c4
    OBVIOUS
  <2>. HIDE DEF c1, c2, c3, c4
  <2>. QED BY <1>4, <2>1
<1>. QED BY <1>2, <1>3, <1>5, <1>6

\* The steps of Renamed.
IsName(name, path, rules, n) ==
  name = [k \in 0 .. n |->
            IF k = 0 THEN normalize_member_path(path) ELSE Replace(name[k - 1], rules[k])]
Name(path, rules) ==
  CHOOSE name : name = [k \in 0 .. Len(rules) |->
            IF k = 0 THEN normalize_member_path(path) ELSE Replace(name[k - 1], rules[k])]

\* the recursive function of Renamed exists and makes its steps
LEMMA NamesExist ==
  ASSUME NEW path, NEW rules, NEW m \in Nat
  PROVE  \E name : IsName(name, path, rules, m)
<1>. DEFINE S == {n \in Nat : \E name : IsName(name, path, rules, n)}
<1>1. 0 \in S
  <2>. DEFINE g == [i \in 0 .. 0 |-> normalize_member_path(path)]
  <2>1. g = [k \in 0 .. 0 |->
           IF k = 0 THEN normalize_member_path(path) ELSE Replace(g[k - 1], rules[k])]
    OBVIOUS
  <2>. QED BY <2>1 DEF IsName
<1>2. ASSUME NEW n \in S PROVE n + 1 \in S
  <2>1. PICK name : IsName(name, path, rules, n)
    OBVIOUS
  <2>. DEFINE g == [i \in 0 .. n + 1 |->
                      IF i = n + 1 THEN Replace(name[n], rules[n + 1]) ELSE name[i]]
  <2>2. \A k \in 0 .. n : name[k] = IF k = 0 THEN normalize_member_path(path)
                                    ELSE Replace(name[k - 1], rules[k])
    BY <2>1, Zenon DEF IsName
  <2>3. ASSUME NEW k \in 0 .. n + 1
        PROVE  g[k] = IF k = 0 THEN normalize_member_path(path) ELSE Replace(g[k - 1], rules[k])
    <3>1. CASE k = n + 1
      BY <3>1
    <3>2. CASE k # n + 1
      BY <2>2, <3>2
    <3>. QED BY <3>1, <3>2
  <2>4. g = [i \in 0 .. n + 1 |-> g[i]]
    OBVIOUS
  <2>. HIDE DEF g
  <2>5. g = [k \in 0 .. n + 1 |->
               IF k = 0 THEN normalize_member_path(path) ELSE Replace(g[k - 1], rules[k])]
    BY <2>3, <2>4, Zenon
  <2>6. \E h : IsName(h, path, rules, n + 1)
    BY <2>5, Zenon DEF IsName
  <2>. HIDE DEF g
  <2>. QED BY <2>6
<1>. HIDE DEF S
<1>3. S \subseteq Nat
  BY DEF S
<1>4. S = Nat
  BY <1>1, <1>2, <1>3, SetInduction
<1>. QED BY <1>4 DEF S

\* Transform makes a path
LEMMA RenamedTypes ==
  ASSUME NEW path, IsSequence(path), IsSequence(rename),
         \A k \in DOMAIN rename : IsSequence(rename[k].from) /\ IsSequence(rename[k].to)
  PROVE  IsSequence(Renamed(path)) /\ IsSequence(Transform(path))
<1>0. Len(rename) \in Nat /\ DOMAIN rename = 1 .. Len(rename)
  BY DEF IsSequence
<1>. DEFINE f == Name(path, rename)
<1>1. \A k \in 0 .. Len(rename) :
        f[k] = IF k = 0 THEN normalize_member_path(path) ELSE Replace(f[k - 1], rename[k])
  <2>1. \E name : IsName(name, path, rename, Len(rename))
    BY <1>0, NamesExist, Zenon
  <2>2. f = [k \in 0 .. Len(rename) |->
             IF k = 0 THEN normalize_member_path(path) ELSE Replace(f[k - 1], rename[k])]
    BY <2>1, Zenon DEF IsName, Name
  <2>. QED BY <2>2, Zenon
<1>2. Renamed(path) = f[Len(rename)]
  BY Zenon DEF Renamed, Name
<1>. HIDE DEF f
<1>. DEFINE T == {k \in 0 .. Len(rename) : IsSequence(f[k])}
<1>3. 0 \in T
  BY <1>0, <1>1, NormalPath
<1>4. ASSUME NEW k \in T, k < Len(rename) PROVE k + 1 \in T
  <2>1. PICK m \in 1 .. Len(rename) : m = k + 1 /\ m - 1 = k
    BY <1>0, <1>4
  <2>2. f[m] = Replace(f[k], rename[m])
    BY <1>0, <1>1, <2>1
  <2>3. IsSequence(f[m])
    BY <1>0, <2>2, ReplaceTypes
  <2>. QED BY <1>0, <2>1, <2>3
<1>. HIDE DEF T
<1>5. \A k \in 0 .. Len(rename) : k \in T
  BY <1>0, <1>3, <1>4, BoundedInduction
<1>6. IsSequence(Renamed(path))
  BY <1>0, <1>2, <1>5 DEF T
<1>. QED BY <1>6, NormalPath DEF Transform

-----------------------------------------------------------------------------
(* Listings.                                                               *)

\* a function on 1 .. n is a sequence of its values
LEMMA FunctionIsSequence ==
  ASSUME NEW n \in Nat, NEW f, f = [i \in 1 .. n |-> f[i]]
  PROVE  IsSequence(f) /\ Len(f) = n /\ DOMAIN f = 1 .. n
<1>1. DOMAIN f = 1 .. n
  OBVIOUS
<1>2. \A i \in 1 .. n : f[i] \in ToSet(f)
  BY <1>1 DEF ToSet
<1>3. f \in [1 .. n -> ToSet(f)]
  BY <1>2
<1>4. f \in Seq(ToSet(f))
  BY <1>3, SeqDef
<1>. QED BY <1>1, <1>4 DEF IsSequence

Meta == {"time", "attrs"}
GoodListing(entries) ==
  IsSequence(entries) /\ \A k \in DOMAIN entries : EntryOK(entries[k])

\* an entry of a listing has a normal path
LEMMA EntryIsGood ==
  ASSUME NEW path, IsSequence(path), NEW is_dir \in BOOLEAN, NEW meta, DOMAIN meta = Meta
  PROVE  /\ EntryOK(Entry(path, is_dir, meta))
         /\ Entry(path, is_dir, meta).path = normalize_member_path(path)
         /\ Entry(path, is_dir, meta).is_dir = is_dir
BY NormalPath DEF Entry, EntryOK, Meta

\* metadata are a time and attributes
LEMMA MetasHaveFields ==
  /\ DOMAIN Printed = Meta
  /\ \A members, k : DOMAIN file_meta(members, k) = Meta
BY DEF Printed, file_meta, Meta

GoodArchive(members) ==
  /\ IsSequence(members)
  /\ \A k \in DOMAIN members :
       IsSequence(members[k].path) /\ IsSequence(members[k].rest) /\ members[k].is_dir \in BOOLEAN

\* the native listing has the members of the archive in their places
LEMMA NativeIsGood ==
  ASSUME NEW members, GoodArchive(members)
  PROVE  /\ GoodListing(NativeListing(members))
         /\ DOMAIN NativeListing(members) = DOMAIN members
         /\ \A k \in DOMAIN members :
              /\ NativeListing(members)[k].path = normalize_member_path(members[k].path)
              /\ NativeListing(members)[k].is_dir = members[k].is_dir
<1>1. DOMAIN members = 1 .. Len(members) /\ Len(members) \in Nat
  BY DEF GoodArchive, IsSequence
<1>2. PICK L : L = NativeListing(members)
  OBVIOUS
<1>3. L = [k \in 1 .. Len(members) |->
             Entry(members[k].path, members[k].is_dir, file_meta(members, k))]
  BY <1>1, <1>2 DEF NativeListing
<1>4. \A k \in 1 .. Len(members) : L[k] = Entry(members[k].path, members[k].is_dir, file_meta(members, k))
  BY <1>3, Zenon
<1>5. L = [k \in 1 .. Len(members) |-> L[k]]
  BY <1>3, <1>4, Zenon
<1>6. IsSequence(L) /\ DOMAIN L = 1 .. Len(members)
  BY <1>1, <1>5, FunctionIsSequence
<1>7. ASSUME NEW k \in DOMAIN members
      PROVE  /\ EntryOK(L[k]) /\ L[k].path = normalize_member_path(members[k].path)
             /\ L[k].is_dir = members[k].is_dir
  <2>1. L[k] = Entry(members[k].path, members[k].is_dir, file_meta(members, k))
    BY <1>1, <1>4
  <2>2. IsSequence(members[k].path) /\ members[k].is_dir \in BOOLEAN /\ DOMAIN file_meta(members, k) = Meta
    BY MetasHaveFields DEF GoodArchive
  <2>. QED BY <2>1, <2>2, EntryIsGood
<1>. QED BY <1>1, <1>2, <1>6, <1>7 DEF GoodListing

\* so has a part of a listing, but for the places
LEMMA ChosenAreGood ==
  ASSUME NEW entries, GoodListing(entries), NEW P
  PROVE  GoodListing(Subsequence(entries, P))
<1>1. entries \in Seq(ToSet(entries)) /\ DOMAIN entries = 1 .. Len(entries)
  BY DEF GoodListing, IsSequence
<1>2. PICK L : L = Subsequence(entries, P)
  OBVIOUS
<1>3. IsChosen(L, entries, P, ToSet(entries))
  BY <1>1, <1>2, Subsequences
<1>4. L \in Seq(ToSet(entries)) /\ DOMAIN L = 1 .. Len(L)
  BY <1>3 DEF IsChosen
<1>5. \A i \in 1 .. Len(L) : \E j \in 1 .. Len(entries) : L[i] = entries[j]
  BY <1>3 DEF IsChosen
<1>6. \A i \in 1 .. Len(L) : EntryOK(L[i])
  BY <1>1, <1>5 DEF GoodListing
<1>7. IsSequence(L)
  BY <1>4, Sequences1
<1>. QED BY <1>2, <1>4, <1>6, <1>7 DEF GoodListing

\* the listing that is made from the lines of 7z has normal paths
LEMMA CliIsGood ==
  ASSUME NEW members, GoodArchive(members)
  PROVE  GoodListing(CliListing(members))
<1>1. GoodListing(parse_ba_listing(members))
  <2>1. PICK P : P = {k \in DOMAIN members : ~members[k].summary}
    OBVIOUS
  <2>2. PICK lines : lines = Subsequence(members, P)
    OBVIOUS
  <2>3. members \in Seq(ToSet(members)) /\ DOMAIN members = 1 .. Len(members)
    BY DEF GoodArchive, IsSequence
  <2>4. IsChosen(lines, members, P, ToSet(members))
    BY <2>2, <2>3, Subsequences, Zenon
  <2>5. /\ DOMAIN lines = 1 .. Len(lines) /\ Len(lines) \in Nat
        /\ \A i \in 1 .. Len(lines) : \E j \in DOMAIN members : lines[i] = members[j]
    <3>1. lines \in Seq(ToSet(members))
      BY <2>4 DEF IsChosen
    <3>2. \A i \in 1 .. Len(lines) : \E j \in 1 .. Len(members) : lines[i] = members[j]
      BY <2>4 DEF IsChosen
    <3>. QED BY <2>3, <3>1, <3>2
  <2>6. PICK L : L = parse_ba_listing(members)
    OBVIOUS
  <2>7. L = [k \in 1 .. Len(lines) |->
               Entry(IF lines[k].packed THEN lines[k].path ELSE lines[k].rest, lines[k].is_dir, Printed)]
    <3>1. L = [k \in DOMAIN lines |->
               Entry(IF lines[k].packed THEN lines[k].path ELSE lines[k].rest, lines[k].is_dir, Printed)]
      BY <2>1, <2>2, <2>6, Zenon DEF parse_ba_listing
    <3>. QED BY <2>5, <3>1, Zenon
  <2>8. \A k \in 1 .. Len(lines) : L[k] =
          Entry(IF lines[k].packed THEN lines[k].path ELSE lines[k].rest, lines[k].is_dir, Printed)
    BY <2>7, Zenon
  <2>9. L = [k \in 1 .. Len(lines) |-> L[k]]
    BY <2>7, <2>8, Zenon
  <2>10. IsSequence(L) /\ DOMAIN L = 1 .. Len(lines)
    BY <2>5, <2>9, FunctionIsSequence
  <2>11. ASSUME NEW k \in 1 .. Len(lines) PROVE EntryOK(L[k])
    <3>1. PICK path : path = IF lines[k].packed THEN lines[k].path ELSE lines[k].rest
      OBVIOUS
    <3>2. IsSequence(path) /\ lines[k].is_dir \in BOOLEAN
      BY <2>5, <3>1 DEF GoodArchive
    <3>3. L[k] = Entry(path, lines[k].is_dir, Printed)
      BY <2>8, <3>1
    <3>. QED BY <3>2, <3>3, EntryIsGood, MetasHaveFields
  <2>. QED BY <2>6, <2>10, <2>11 DEF GoodListing
<1>2. GoodListing(parse_slt_listing(members))
  <2>3. DOMAIN members = 1 .. Len(members) /\ Len(members) \in Nat
    BY DEF GoodArchive, IsSequence
  <2>6. PICK L : L = [k \in 1 .. Len(members) |-> Entry(members[k].path, members[k].is_dir, Printed)]
    OBVIOUS
  <2>8. \A k \in 1 .. Len(members) : L[k] = Entry(members[k].path, members[k].is_dir, Printed)
    BY <2>6, Zenon
  <2>9. L = [k \in 1 .. Len(members) |-> L[k]]
    BY <2>6, <2>8, Zenon
  <2>10. IsSequence(L) /\ DOMAIN L = 1 .. Len(members)
    BY <2>3, <2>9, FunctionIsSequence
  <2>11. ASSUME NEW k \in 1 .. Len(members) PROVE EntryOK(L[k])
    <3>2. IsSequence(members[k].path) /\ members[k].is_dir \in BOOLEAN
      BY <2>3 DEF GoodArchive
    <3>3. L[k] = Entry(members[k].path, members[k].is_dir, Printed)
      BY <2>8
    <3>. QED BY <3>2, <3>3, EntryIsGood, MetasHaveFields
  <2>12. GoodListing(L)
    BY <2>10, <2>11 DEF GoodListing
  <2>13. parse_slt_listing(members) = Subsequence(L, {k \in DOMAIN L : L[k].path # <<>>})
    BY <2>3, <2>6, Zenon DEF parse_slt_listing
  <2>. QED BY <2>12, <2>13, ChosenAreGood
<1>. QED BY <1>1, <1>2 DEF CliListing

\* enrich_entry_meta changes nothing but metadata, which are then those of the last member
LEMMA Enriched ==
  ASSUME GoodArchive(archive), NEW entries, GoodListing(entries)
  PROVE  /\ GoodListing(enrich_entry_meta(entries))
         /\ DOMAIN enrich_entry_meta(entries) = DOMAIN entries
         /\ \A k \in DOMAIN entries :
              /\ enrich_entry_meta(entries)[k].path = entries[k].path
              /\ enrich_entry_meta(entries)[k].is_dir = entries[k].is_dir
              /\ MetaOK(enrich_entry_meta(entries)[k])
<1>1. CASE ~readable
  BY <1>1 DEF enrich_entry_meta, MetaOK
<1>2. CASE readable
  <2>1. DOMAIN entries = 1 .. Len(entries) /\ Len(entries) \in Nat
    BY DEF GoodListing, IsSequence
  <2>2. PICK listed : listed = NativeListing(archive)
    OBVIOUS
  <2>3. DOMAIN listed = DOMAIN archive
        /\ \A k \in DOMAIN archive : listed[k].path = normalize_member_path(archive[k].path)
    BY <2>2, NativeIsGood
  <2>. DEFINE by_path(path) == {k \in DOMAIN listed : normalize_member_path(listed[k].path)
                                                     = normalize_member_path(path)}
  <2>4. \A path : by_path(path) = Alike(path)
    BY <2>3 DEF Alike
  <2>5. PICK L : L = enrich_entry_meta(entries)
    OBVIOUS
  <2>6. L = [i \in DOMAIN entries |->
              IF by_path(entries[i].path) = {} THEN entries[i]
              ELSE [entries[i] EXCEPT
                      !.meta = Or(file_meta(archive, Max(by_path(entries[i].path))), @)]]
    BY <1>2, <2>2, <2>5, Zenon DEF enrich_entry_meta
  <2>. HIDE DEF by_path
  <2>7. \A i \in 1 .. Len(entries) :
          L[i] = IF by_path(entries[i].path) = {} THEN entries[i]
              ELSE [entries[i] EXCEPT
                      !.meta = Or(file_meta(archive, Max(by_path(entries[i].path))), @)]
    BY <2>1, <2>6, Zenon
  <2>8. L = [i \in 1 .. Len(entries) |-> L[i]]
    BY <2>1, <2>6, Zenon
  <2>9. IsSequence(L) /\ DOMAIN L = 1 .. Len(entries)
    BY <2>1, <2>8, FunctionIsSequence
  <2>10. ASSUME NEW k \in 1 .. Len(entries)
         PROVE  /\ EntryOK(L[k]) /\ L[k].path = entries[k].path /\ L[k].is_dir = entries[k].is_dir
                /\ MetaOK(L[k])
    <3>1. EntryOK(entries[k])
      BY <2>1 DEF GoodListing
    <3>2. PICK A : A = Alike(entries[k].path)
      OBVIOUS
    <3>3. by_path(entries[k].path) = A
      BY <2>4, <3>2
    <3>4. CASE A = {}
      <4>1. L[k] = entries[k]
        BY <2>7, <3>3, <3>4
      <4>. QED BY <3>1, <3>2, <3>4, <4>1 DEF MetaOK
    <3>5. CASE A # {}
      <4>1. PICK m : m = Max(A)
        OBVIOUS
      <4>2. PICK meta : meta = Or(file_meta(archive, m), entries[k].meta)
        OBVIOUS
      <4>3. L[k] = [entries[k] EXCEPT !.meta = meta]
        BY <2>7, <3>3, <3>5, <4>1, <4>2
      <4>4. /\ L[k].path = entries[k].path /\ L[k].is_dir = entries[k].is_dir /\ L[k].meta = meta
            /\ DOMAIN L[k] = DOMAIN entries[k]
        BY <3>1, <4>3 DEF EntryOK, Meta
      <4>5. DOMAIN meta = Meta /\ meta.attrs = {m} /\ (archive[m].dated => meta.time = {m})
        BY <4>2 DEF Or, file_meta, Meta, Unknown
      <4>6. EntryOK(L[k])
        BY <3>1, <4>4, <4>5 DEF EntryOK, Meta
      <4>7. MetaOK(L[k])
        BY <3>2, <4>1, <4>4, <4>5 DEF MetaOK
      <4>. QED BY <4>4, <4>6, <4>7
    <3>. QED BY <3>4, <3>5
  <2>11. GoodListing(L)
    BY <2>9, <2>10 DEF GoodListing
  <2>. QED BY <2>1, <2>5, <2>9, <2>10, <2>11
<1>. QED BY <1>1, <1>2

-----------------------------------------------------------------------------
(* What a step leaves alone.                                               *)

\* what the assumption on the constants says of this job's inputs
LEMMA InputTypes ==
  ASSUME TypeOK
  PROVE  /\ GoodArchive(archive)
         /\ IsSequence(rename)
         /\ \A k \in DOMAIN rename : IsSequence(rename[k].from) /\ IsSequence(rename[k].to)
BY PlanAssumption, Zenon DEF TypeOK, GoodArchive

\* Transform with the rules as a parameter
LEMMA TransformOf ==
  /\ \A path : Transform(path) = normalize_member_path(Name(path, rename)[Len(rename)])
  /\ \A path : Transform(path)' = normalize_member_path(Name(path, rename')[Len(rename')])
BY Zenon DEF Transform, Renamed, Name

\* the inputs stay, and so does what is said of them
LEMMA InputsKept ==
  ASSUME UNCHANGED inputs
  PROVE  /\ \A path : Transform(path)' = Transform(path)
         /\ \A paths : Wanted(paths)' = Wanted(paths)
         /\ \A entry : MetaOK(entry)' <=> MetaOK(entry)
<1>1. /\ backend' = backend /\ readable' = readable /\ archive' = archive
      /\ filter' = filter /\ rename' = rename
  BY DEF inputs
<1>2. \A path : Transform(path)' = Transform(path)
  BY <1>1, TransformOf, Zenon
<1>3. \A paths : Wanted(paths)' = Wanted(paths)
  BY <1>1, Zenon DEF Wanted
<1>4. \A path : Alike(path)' = Alike(path)
  BY <1>1, Zenon DEF Alike
<1>5. \A entry : MetaOK(entry)' <=> MetaOK(entry)
  BY <1>1, <1>4, Zenon DEF MetaOK
<1>. QED BY <1>2, <1>3, <1>5

\* the listing stays good when it is left alone
LEMMA ListingKept ==
  ASSUME ListingOK, UNCHANGED <<inputs, listing>>, pc # "listing", pc # "failed", pc' # "listing"
  PROVE  ListingOK'
<1>1. /\ backend' = backend /\ archive' = archive /\ listing' = listing
  BY DEF inputs
<1>2. \A k \in DOMAIN listing : (EntryOK(listing[k]) /\ MetaOK(listing[k]))'
  <2>. SUFFICES ASSUME NEW k \in DOMAIN listing PROVE (EntryOK(listing[k]) /\ MetaOK(listing[k]))'
    OBVIOUS
  <2>1. PICK e : e = listing[k]
    OBVIOUS
  <2>2. EntryOK(e) /\ MetaOK(e)
    BY <2>1 DEF ListingOK
  <2>3. MetaOK(e)'
    BY <2>2, InputsKept
  <2>4. EntryOK(e)'
    BY <2>2 DEF EntryOK
  <2>5. e = (listing[k])'
    BY <1>1, <2>1
  <2>. QED BY <2>3, <2>4, <2>5
<1>. QED BY <1>1, <1>2 DEF ListingOK

\* the listing of the entries that were met
LEMMA MetKept ==
  ASSUME UNCHANGED listing, Scanned' = Scanned
  PROVE  /\ Met' = Met
         /\ \A entry : IsOfFile(entry)' <=> IsOfFile(entry)
BY Zenon DEF Met, IsOfFile

\* the plan stays good when neither it nor the files met change
LEMMA PlannedKept ==
  ASSUME PlannedOK, UNCHANGED <<inputs, listing, seen_src, planned>>, Scanned' = Scanned,
         pc # "done"
  PROVE  PlannedOK'
<1>1. Met' = Met /\ \A entry : IsOfFile(entry)' <=> IsOfFile(entry)
  BY MetKept
<1>2. Taken' = Taken
  BY DEF Taken
<1>3. Wanted(Met)' = Wanted(Met)
  <2>1. PICK M : M = Met
    OBVIOUS
  <2>2. Wanted(M)' = Wanted(M)
    BY InputsKept
  <2>3. M = Met'
    BY <1>1, <2>1
  <2>. QED BY <2>1, <2>2, <2>3
<1>4. \A k \in DOMAIN planned : IsOfFile(planned[k])'
  <2>. SUFFICES ASSUME NEW k \in DOMAIN planned PROVE IsOfFile(planned[k])'
    OBVIOUS
  <2>1. PICK e : e = planned[k]
    OBVIOUS
  <2>2. IsOfFile(e)'
    BY <1>1, <2>1 DEF PlannedOK
  <2>3. e = (planned[k])'
    BY <2>1
  <2>. QED BY <2>2, <2>3
<1>5. IsSequence(planned)' /\ Len(planned)' = Cardinality(Scanned)'
  BY DEF PlannedOK, IsSequence
<1>6. seen_src' = {path \in Met' : IsInside(path)}
  BY <1>1 DEF PlannedOK
<1>7. \A k \in DOMAIN planned' :
       /\ DOMAIN planned'[k] = {"source", "dest", "action", "reason", "meta"}
       /\ pc' # "done" => planned'[k].reason # "unsafe destination"
  BY DEF PlannedOK
<1>8. \A j, k \in Taken' : planned'[j].source = planned'[k].source => j = k
  BY <1>2 DEF PlannedOK
<1>9. {planned'[k].source : k \in Taken'} = Wanted(Met)'
  BY <1>2, <1>3, ZenonT(30) DEF PlannedOK
<1>. QED BY <1>4, <1>5, <1>6, <1>7, <1>8, <1>9 DEF PlannedOK

\* the names stay good when neither they nor the place of the loop change
LEMMA RenamedKept ==
  ASSUME RenamedOK, UNCHANGED <<inputs, listing, planned, rename_map>>, Scanned' = Scanned,
         pc # "done", pc' # "done", pc' \in {"listing", "scanning"} => pc \in {"listing", "scanning"},
         \A k \in Taken : pc' = "placing" \/ (pc' = "renaming" /\ k < cursor') =>
                            pc = "placing" \/ (pc = "renaming" /\ k < cursor)
  PROVE  RenamedOK'
<1>1. Met' = Met
  BY MetKept
<1>2. Taken' = Taken
  BY DEF Taken
<1>3. Wanted(Met)' = Wanted(Met)
  <2>1. PICK M : M = Met
    OBVIOUS
  <2>2. Wanted(M)' = Wanted(M)
    BY InputsKept
  <2>3. M = Met'
    BY <1>1, <2>1
  <2>. QED BY <2>1, <2>2, <2>3
<1>4. \A pair \in rename_map' :
       /\ pair = <<pair[1], Transform(pair[1])'>>
       /\ pair[1] \in Wanted(Met)' /\ pair[2] # <<>>
  BY <1>3, InputsKept DEF RenamedOK
<1>5. \A k \in Taken' : 
       pc' = "placing" \/ (pc' = "renaming" /\ k < cursor') =>
         <<planned[k].source, Transform(planned[k].source)>> \in rename_map'
  BY <1>2 DEF RenamedOK
<1>6. \A k \in Taken' : <<planned[k].source, Transform(planned[k].source)>>
                        = <<planned[k].source, Transform(planned[k].source)>>'
  <2>. SUFFICES ASSUME NEW k \in Taken'
                PROVE  <<planned[k].source, Transform(planned[k].source)>>
                        = <<planned[k].source, Transform(planned[k].source)>>'
    OBVIOUS
  <2>1. PICK s : s = planned[k].source
    OBVIOUS
  <2>2. Transform(s)' = Transform(s)
    BY InputsKept
  <2>3. s = (planned[k].source)'
    BY <2>1
  <2>. QED BY <2>1, <2>2, <2>3
<1>7. \A p, q \in rename_map' : p[2] = q[2] => p = q
  BY DEF RenamedOK
<1>. QED BY <1>4, <1>5, <1>6, <1>7 DEF RenamedOK

-----------------------------------------------------------------------------
(* The invariant.                                                          *)

\* the empty sequence
LEMMA EmptyFacts ==
  /\ IsSequence(<<>>) /\ Len(<<>>) = 0 /\ DOMAIN <<>> = {}
  /\ Cardinality({}) = 0
BY Sequences2, FS_EmptySet

\* nothing was met yet
NothingMet == planned = <<>> /\ Scanned = {} /\ seen_src = {}

\* the empty plan is the plan of no file
LEMMA StartPlan == NothingMet => PlannedOK
<1>. SUFFICES ASSUME planned = <<>>, Scanned = {}, seen_src = {} PROVE PlannedOK
  BY DEF NothingMet
<1>1. Met = {} /\ Wanted(Met) = {}
  BY DEF Met, Wanted
<1>2. Taken = {} /\ DOMAIN planned = {}
  BY EmptyFacts DEF Taken
<1>3. IsSequence(planned) /\ Len(planned) = Cardinality(Scanned)
  BY EmptyFacts
<1>. QED BY <1>1, <1>2, <1>3 DEF PlannedOK

LEMMA StartPlanNext == NothingMet' => PlannedOK'
BY StartPlan, PTL

\* the job begins in the invariant
LEMMA InitInv == Init => IInv
<1>. SUFFICES ASSUME Init PROVE IInv
  OBVIOUS
<1>1. listing = <<>> /\ planned = <<>> /\ seen_src = {} /\ rename_map = {} /\ pc = "listing" /\ cursor = 1
  BY DEF Init
<1>2. Scanned = {} /\ DOMAIN planned = {} /\ DOMAIN listing = {}
  BY <1>1, EmptyFacts DEF Scanned
<1>3. TypeOK
  BY <1>1, <1>2, EmptyFacts DEF TypeOK, Init
<1>4. ListingOK
  BY <1>1, <1>2, EmptyFacts DEF ListingOK
<1>5. PlannedOK
  BY <1>1, <1>2, StartPlan DEF NothingMet
<1>6. RenamedOK
  BY <1>1, <1>2 DEF RenamedOK, Planned, Taken
<1>7. RefusedForNamesOnly
  BY <1>1 DEF RefusedForNamesOnly
<1>. QED BY <1>3, <1>4, <1>5, <1>6, <1>7 DEF IInv

\* the archive has not been listed
LEMMA Unlisted ==
  ASSUME IInv, pc = "listing"
  PROVE  /\ listing = <<>> /\ planned = <<>> /\ seen_src = {} /\ rename_map = {} /\ cursor = 1
<1>1. listing = <<>> /\ rename_map = {}
  BY DEF IInv, ListingOK, RenamedOK
<1>2. Scanned = {}
  BY <1>1, EmptyFacts DEF Scanned
<1>3. IsSequence(planned) /\ Len(planned) = 0
  BY <1>2, EmptyFacts DEF IInv, PlannedOK
<1>4. planned = <<>>
  BY <1>3 DEF IsSequence
<1>5. seen_src = {}
  BY <1>2 DEF IInv, PlannedOK, Met
<1>6. cursor = 1
  BY <1>1, EmptyFacts DEF IInv, TypeOK
<1>. QED BY <1>1, <1>4, <1>5, <1>6

\* listing and enrich_entry_meta keep it
LEMMA ListInv == IInv /\ List => IInv'
<1>. SUFFICES ASSUME IInv, List PROVE IInv'
  OBVIOUS
<1>1. planned = <<>> /\ seen_src = {} /\ rename_map = {} /\ cursor = 1
      /\ listing = <<>>
  BY Unlisted DEF List
<1>2. pc = "listing" /\ pc' = "scanning" /\ UNCHANGED <<inputs, cursor, seen_src, planned, rename_map>>
      /\ listing' = enrich_entry_meta(IF backend = "cli" THEN CliListing(archive)
                                                    ELSE NativeListing(archive))
  BY DEF List
<1>3. PICK L : L = IF backend = "cli" THEN CliListing(archive) ELSE NativeListing(archive)
  OBVIOUS
<1>4. GoodArchive(archive)
  BY InputTypes DEF IInv
<1>5. GoodListing(L)
  BY <1>3, <1>4, NativeIsGood, CliIsGood
<1>6. /\ GoodListing(listing') /\ DOMAIN listing' = DOMAIN L
      /\ \A k \in DOMAIN L : /\ listing'[k].path = L[k].path
                             /\ listing'[k].is_dir = L[k].is_dir
                             /\ MetaOK(listing'[k])
  <2>1. PICK E : E = enrich_entry_meta(L)
    OBVIOUS
  <2>2. listing' = E
    BY <1>2, <1>3, <2>1
  <2>3. /\ GoodListing(E) /\ DOMAIN E = DOMAIN L
        /\ \A k \in DOMAIN L : /\ E[k].path = L[k].path
                               /\ E[k].is_dir = L[k].is_dir
                               /\ MetaOK(E[k])
    BY <1>4, <1>5, <2>1, Enriched
  <2>. QED BY <2>2, <2>3
<1>7. ListingOK'
  <2>1. \A k \in DOMAIN listing' : (EntryOK(listing[k]) /\ MetaOK(listing[k]))'
    <3>. SUFFICES ASSUME NEW k \in DOMAIN listing' PROVE (EntryOK(listing[k]) /\ MetaOK(listing[k]))'
      OBVIOUS
    <3>1. PICK e : e = listing'[k]
      OBVIOUS
    <3>2. EntryOK(e) /\ MetaOK(e)
      BY <1>6, <3>1 DEF GoodListing
    <3>3. MetaOK(e)'
      BY <3>2, <1>2, InputsKept
    <3>4. EntryOK(e)'
      BY <3>2 DEF EntryOK
    <3>. QED BY <3>1, <3>3, <3>4
  <2>2. IsSequence(listing)'
    BY <1>6 DEF GoodListing
  <2>3. backend' = "native" => /\ DOMAIN listing' = DOMAIN archive'
                               /\ \A k \in DOMAIN listing' :
                                    /\ listing'[k].path = normalize_member_path(archive'[k].path)
                                    /\ listing'[k].is_dir = archive'[k].is_dir
    <3>. SUFFICES ASSUME backend' = "native"
                  PROVE  /\ DOMAIN listing' = DOMAIN archive'
                         /\ \A k \in DOMAIN listing' :
                              /\ listing'[k].path = normalize_member_path(archive'[k].path)
                              /\ listing'[k].is_dir = archive'[k].is_dir
      OBVIOUS
    <3>1. L = NativeListing(archive) /\ archive' = archive
      BY <1>2, <1>3 DEF inputs
    <3>2. /\ DOMAIN L = DOMAIN archive
          /\ \A k \in DOMAIN archive : /\ L[k].path = normalize_member_path(archive[k].path)
                                       /\ L[k].is_dir = archive[k].is_dir
      BY <1>4, <3>1, NativeIsGood
    <3>. QED BY <1>6, <3>1, <3>2
  <2>. QED BY <1>2, <2>1, <2>2, <2>3 DEF ListingOK
<1>8. Scanned' = {}
  <2>1. DOMAIN listing' = 1 .. Len(listing') /\ Len(listing') \in Nat
    BY <1>6 DEF GoodListing, IsSequence
  <2>. QED BY <1>1, <1>2, <2>1 DEF Scanned
<1>9. PlannedOK'
  BY <1>1, <1>2, <1>8, StartPlanNext DEF NothingMet
<1>10. RenamedOK'
  BY <1>1, <1>2, EmptyFacts DEF RenamedOK, Taken, Planned
<1>11. RefusedForNamesOnly'
  BY <1>2 DEF RefusedForNamesOnly
<1>12. TypeOK'
  <2>1. Len(listing') \in Nat
    BY <1>6 DEF GoodListing, IsSequence
  <2>2. planned' = <<>> /\ rename_map' = {} /\ cursor' = 1
    BY <1>1, <1>2
  <2>3. backend' = backend /\ readable' = readable /\ archive' = archive /\ filter' = filter /\ rename' = rename
    BY <1>2 DEF inputs
  <2>. QED BY <1>2, <2>1, <2>2, <2>3, EmptyFacts DEF IInv, TypeOK
<1>. QED BY <1>7, <1>9, <1>10, <1>11, <1>12 DEF IInv

LEMMA ListFailsInv == IInv /\ ListFails => IInv'
<1>. SUFFICES ASSUME IInv, ListFails PROVE IInv'
  OBVIOUS
<1>1. planned = <<>> /\ seen_src = {} /\ rename_map = {} /\ cursor = 1 /\ listing = <<>>
  BY Unlisted DEF ListFails
<1>2. pc = "listing" /\ pc' = "failed" /\ UNCHANGED <<inputs, listing, cursor, seen_src, planned, rename_map>>
  BY DEF ListFails
<1>3. Scanned' = {} /\ DOMAIN planned' = {} /\ DOMAIN listing' = {}
  BY <1>1, <1>2, EmptyFacts DEF Scanned
<1>4. ListingOK'
  BY <1>1, <1>2, <1>3, EmptyFacts DEF ListingOK
<1>5. PlannedOK'
  BY <1>1, <1>2, <1>3, StartPlanNext DEF NothingMet
<1>6. RenamedOK'
  BY <1>1, <1>2, <1>3 DEF RenamedOK, Taken, Planned
<1>7. RefusedForNamesOnly'
  BY <1>1, <1>2 DEF RefusedForNamesOnly
<1>8. TypeOK'
  <2>1. backend' = backend /\ readable' = readable /\ archive' = archive /\ filter' = filter /\ rename' = rename
    BY <1>2 DEF inputs
  <2>. QED BY <1>1, <1>2, <1>3, <2>1, EmptyFacts DEF IInv, TypeOK
<1>. QED BY <1>4, <1>5, <1>6, <1>7, <1>8 DEF IInv

-----------------------------------------------------------------------------
(* One more entry.                                                         *)

\* the domain of a sequence
LEMMA SequenceFacts ==
  ASSUME NEW s, IsSequence(s)
  PROVE  s \in Seq(ToSet(s)) /\ Len(s) \in Nat /\ DOMAIN s = 1 .. Len(s)
BY DEF IsSequence

IsLonger(t, s, e, n) ==
  /\ n \in Nat /\ n = Len(s) + 1 /\ IsSequence(t) /\ Len(t) = n
  /\ DOMAIN t = DOMAIN s \cup {n} /\ n \notin DOMAIN s /\ t[n] = e
  /\ \A k \in DOMAIN s : t[k] = s[k]

\* Append adds one element behind the others
LEMMA AppendFacts ==
  ASSUME NEW s, IsSequence(s), NEW e
  PROVE  IsLonger(Append(s, e), s, e, Len(s) + 1)
<1>1. s \in Seq(ToSet(s)) /\ Len(s) \in Nat /\ DOMAIN s = 1 .. Len(s)
  BY SequenceFacts
<1>2. PICK S : S = ToSet(s) \cup {e}
  OBVIOUS
<1>3. ToSet(s) \subseteq S /\ e \in S
  BY <1>2
<1>4. s \in Seq(S)
  BY <1>1, <1>3, SeqMonotonic, Zenon
<1>5. PICK t : t = Append(s, e)
  OBVIOUS
<1>6. /\ t \in Seq(S) /\ Len(t) = Len(s) + 1 /\ t[Len(s) + 1] = e
      /\ \A k \in 1 .. Len(s) : t[k] = s[k]
  BY <1>3, <1>4, <1>5, AppendProperties
<1>7. IsSequence(t) /\ DOMAIN t = 1 .. Len(t)
  BY <1>6, Sequences1, Zenon
<1>8. IsLonger(t, s, e, Len(s) + 1)
  BY <1>1, <1>6, <1>7 DEF IsLonger
<1>. QED BY <1>5, <1>8

\* the files met are finitely many
LEMMA ScannedFinite ==
  ASSUME NEW L, IsSequence(L), NEW T, T \subseteq DOMAIN L
  PROVE  IsFiniteSet(T) /\ Cardinality(T) \in Nat /\ Cardinality(T) <= Len(L)
<1>1. DOMAIN L = 1 .. Len(L) /\ Len(L) \in Nat
  BY SequenceFacts
<1>2. IsFiniteSet(1 .. Len(L)) /\ Cardinality(1 .. Len(L)) = Len(L)
  <2>1. \A n \in Nat : n \in Int /\ (IF 1 > n THEN 0 ELSE n - 1 + 1) = n
    OBVIOUS
  <2>2. 1 \in Int
    OBVIOUS
  <2>. QED BY <1>1, <2>1, <2>2, FS_Interval
<1>3. T \in SUBSET (1 .. Len(L))
  BY <1>1
<1>4. IsFiniteSet(T) /\ Cardinality(T) <= Len(L)
  BY <1>2, <1>3, FS_Subset
<1>. QED BY <1>4, FS_CardinalityType

\* the source paths are normal, and is_safe_member_path says of them what it means
LEMMA SourceIsNormal ==
  ASSUME ListingOK, NEW k \in DOMAIN listing, NEW s, s = normalize_member_path(listing[k].path)
  PROVE  /\ IsSequence(s) /\ normalize_member_path(s) = s
         /\ is_safe_member_path(s) <=> IsInside(s)
<1>1. IsSequence(listing[k].path) /\ ~HidesDot(listing[k].path)
  BY DEF ListingOK, EntryOK
<1>2. IsSequence(s) /\ normalize_member_path(s) = s /\ (s # <<>> => Head(s) # Blank)
  BY <1>1, NormalPath
<1>. QED BY <1>2, SafePaths

\* the file at the cursor is met
LEMMA ScannedGrows ==
  ASSUME ListingOK, pc = "scanning", pc' = "scanning", listing' = listing,
         cursor \in DOMAIN listing, ~listing[cursor].is_dir, cursor' = cursor + 1
  PROVE  Scanned' = Scanned \cup {cursor} /\ cursor \notin Scanned
<1>1. DOMAIN listing = 1 .. Len(listing) /\ Len(listing) \in Nat
  BY SequenceFacts DEF ListingOK
<1>2. \A k \in DOMAIN listing : (k < cursor + 1) <=> (k < cursor \/ k = cursor)
  BY <1>1
<1>3. ~ (cursor < cursor)
  BY <1>1
<1>4. \A k : k \in Scanned' <=> k \in DOMAIN listing /\ ~listing[k].is_dir /\ k < cursor + 1
  BY Zenon DEF Scanned
<1>5. \A k : k \in Scanned <=> k \in DOMAIN listing /\ ~listing[k].is_dir /\ k < cursor
  BY Zenon DEF Scanned
<1>. QED BY <1>2, <1>3, <1>4, <1>5

\* a step of the loop adds the path of the file at the cursor
LEMMA MetIsNext ==
  /\ Met = {normalize_member_path(listing[k].path) : k \in Scanned}
  /\ Met' = {normalize_member_path(listing'[k].path) : k \in Scanned'}
  /\ \A entry : IsOfFile(entry) <=> \E i \in Scanned : /\ entry.source = normalize_member_path(listing[i].path)
                                                       /\ entry.meta = listing[i].meta
  /\ \A entry : IsOfFile(entry)' <=> \E i \in Scanned' : /\ entry.source = normalize_member_path(listing'[i].path)
                                                         /\ entry.meta = listing'[i].meta
  /\ \A k : k \in Taken <=> k \in DOMAIN planned /\ planned[k].reason \in {"none", "unsafe destination"}
  /\ \A k : k \in Taken' <=> k \in DOMAIN planned' /\ planned'[k].reason \in {"none", "unsafe destination"}
BY Zenon DEF Met, IsOfFile, Taken

\* one more entry
LEMMA PlannedGrows ==
  ASSUME PlannedOK, ListingOK, pc = "scanning", pc' = "scanning", UNCHANGED inputs, listing' = listing,
         cursor \in DOMAIN listing, ~listing[cursor].is_dir, cursor' = cursor + 1,
         NEW e, NEW s, s = Source, e.source = s, e.meta = listing[cursor].meta,
         DOMAIN e = {"source", "dest", "action", "reason", "meta"},
         e.reason # "unsafe destination",
         planned' = Append(planned, e),
         seen_src' = seen_src \cup {path \in {s} : IsInside(path)},
         e.reason = "none" => s \notin Met /\ Wanted({s}) = {s},
         e.reason # "none" => s \in Met \/ Wanted({s}) = {}
  PROVE  PlannedOK'
<1>0. IsSequence(planned)
  BY DEF PlannedOK
<1>1. PICK n : n = Len(planned) + 1
  OBVIOUS
<1>2. /\ n \in Nat /\ IsSequence(planned') /\ Len(planned') = n
      /\ DOMAIN planned' = DOMAIN planned \cup {n} /\ n \notin DOMAIN planned /\ planned'[n] = e
      /\ \A k \in DOMAIN planned : planned'[k] = planned[k]
  <2>1. IsLonger(Append(planned, e), planned, e, Len(planned) + 1)
    BY <1>0, AppendFacts, Zenon
  <2>2. IsLonger(planned', planned, e, n)
    BY <1>1, <2>1, Zenon
  <2>. QED BY <2>2, Zenon DEF IsLonger
<1>3. Scanned' = Scanned \cup {cursor} /\ cursor \notin Scanned
  BY ScannedGrows
<1>4. Cardinality(Scanned') = Cardinality(Scanned) + 1
  <2>1. IsFiniteSet(Scanned)
    <3>1. Scanned \subseteq DOMAIN listing /\ IsSequence(listing)
      BY DEF Scanned, ListingOK
    <3>. QED BY <3>1, ScannedFinite
  <2>. QED BY <1>3, <2>1, FS_AddElement
<1>5. Met' = Met \cup {s}
  <2>1. s = normalize_member_path(listing[cursor].path)
    BY DEF Source
  <2>2. Met' = {normalize_member_path(listing[k].path) : k \in Scanned'}
    <3>1. Met' = {normalize_member_path(listing'[k].path) : k \in Scanned'}
      BY MetIsNext, Zenon
    <3>. QED BY <3>1
  <2>3. Met = {normalize_member_path(listing[k].path) : k \in Scanned}
    BY MetIsNext, Zenon
  <2>. QED BY <1>3, <2>1, <2>2, <2>3
<1>7. \A M : Wanted(M \cup {s}) = Wanted(M) \cup Wanted({s})
  BY DEF Wanted
<1>8. \A k \in DOMAIN planned' : IsOfFile(planned[k])'
  <2>. SUFFICES ASSUME NEW k \in DOMAIN planned' PROVE IsOfFile(planned[k])'
    OBVIOUS
  <2>1. PICK f : f = planned'[k]
    OBVIOUS
  <2>2. PICK i \in Scanned' : f.source = normalize_member_path(listing[i].path) /\ f.meta = listing[i].meta
    <3>1. CASE k = n
      <4>1. f = e /\ cursor \in Scanned'
        BY <1>2, <1>3, <2>1, <3>1
      <4>. QED BY <4>1 DEF Source
    <3>2. CASE k # n
      <4>1. k \in DOMAIN planned
        BY <1>2, <3>2
      <4>2. f = planned[k]
        BY <1>2, <2>1, <4>1
      <4>3. IsOfFile(f)
        BY <4>1, <4>2 DEF PlannedOK
      <4>. QED BY <1>3, <4>3 DEF IsOfFile
    <3>. QED BY <3>1, <3>2
  <2>3. IsOfFile(f)'
    BY <2>2, MetIsNext
  <2>. QED BY <2>1, <2>3
<1>9. \A k \in DOMAIN planned' :
        /\ DOMAIN planned'[k] = {"source", "dest", "action", "reason", "meta"}
        /\ planned'[k].reason # "unsafe destination"
  <2>. SUFFICES ASSUME NEW k \in DOMAIN planned'
                PROVE  /\ DOMAIN planned'[k] = {"source", "dest", "action", "reason", "meta"}
                       /\ planned'[k].reason # "unsafe destination"
    OBVIOUS
  <2>1. CASE k = n
    BY <1>2, <2>1
  <2>2. CASE k # n
    <3>1. k \in DOMAIN planned
      BY <1>2, <2>2
    <3>2. planned'[k] = planned[k]
      BY <1>2, <3>1
    <3>. QED BY <3>1, <3>2 DEF PlannedOK
  <2>. QED BY <2>1, <2>2
<1>10. /\ \A k : k \in Taken <=> /\ k \in DOMAIN planned
                                /\ planned[k].reason \in {"none", "unsafe destination"}
       /\ \A k : k \in Taken' <=> /\ k \in DOMAIN planned'
                                 /\ planned'[k].reason \in {"none", "unsafe destination"}
  BY MetIsNext, Zenon
<1>11. \A k \in DOMAIN planned : planned[k].source \in Met
  <2>. SUFFICES ASSUME NEW k \in DOMAIN planned PROVE planned[k].source \in Met
    OBVIOUS
  <2>1. PICK f : f = planned[k]
    OBVIOUS
  <2>2. IsOfFile(f)
    BY <2>1 DEF PlannedOK
  <2>3. PICK i \in Scanned : f.source = normalize_member_path(listing[i].path)
    BY <2>2 DEF IsOfFile
  <2>. QED BY <2>1, <2>3 DEF Met
<1>12. \A k : k \in Taken' <=> k \in Taken \/ (k = n /\ e.reason = "none")
  <2>1. \A k \in DOMAIN planned' : k \in DOMAIN planned \/ k = n
    BY <1>2
  <2>2. n \in DOMAIN planned' /\ \A k \in DOMAIN planned : k \in DOMAIN planned' /\ k # n
    BY <1>2
  <2>3. planned'[n] = e /\ \A k \in DOMAIN planned : planned'[k].reason = planned[k].reason
    BY <1>2
  <2>4. \A k : k \in Taken' => k \in Taken \/ (k = n /\ e.reason = "none")
    <3>. SUFFICES ASSUME NEW k, k \in Taken' PROVE k \in Taken \/ (k = n /\ e.reason = "none")
      OBVIOUS
    <3>1. k \in DOMAIN planned' /\ planned'[k].reason \in {"none", "unsafe destination"}
      BY <1>10, Zenon
    <3>2. CASE k = n
      BY <2>3, <3>1, <3>2
    <3>3. CASE k # n
      BY <1>10, <2>1, <2>3, <3>1, <3>3
    <3>. QED BY <3>2, <3>3
  <2>5. \A k : k \in Taken \/ (k = n /\ e.reason = "none") => k \in Taken'
    <3>1. \A k : k \in Taken => k \in Taken'
      BY <1>10, <2>2, <2>3
    <3>2. e.reason = "none" => n \in Taken'
      BY <1>10, <2>2, <2>3
    <3>. QED BY <3>1, <3>2
  <2>. QED BY <2>4, <2>5
<1>13. n \notin Taken /\ \A k \in Taken : k \in DOMAIN planned
  BY <1>2, <1>10
<1>14. \A k \in Taken : planned'[k] = planned[k]
  BY <1>2, <1>13
<1>15. \A j, k \in Taken' : planned'[j].source = planned'[k].source => j = k
  <2>1. \A j, k \in Taken : planned'[j].source = planned'[k].source => j = k
    BY <1>14, ZenonT(30) DEF PlannedOK
  <2>2. e.reason = "none" => \A j \in Taken : planned'[j].source # planned'[n].source
    BY <1>2, <1>11, <1>13, <1>14
  <2>. SUFFICES ASSUME NEW j \in Taken', NEW k \in Taken', planned'[j].source = planned'[k].source
                PROVE  j = k
    OBVIOUS
  <2>3. /\ j \in Taken \/ (j = n /\ e.reason = "none")
        /\ k \in Taken \/ (k = n /\ e.reason = "none")
    BY <1>12
  <2>. QED BY <2>1, <2>2, <2>3
<1>16. {planned'[k].source : k \in Taken'} = Wanted(Met)'
  <2>1. {planned'[k].source : k \in Taken} = Wanted(Met)
    <3>1. {planned[k].source : k \in Taken} = Wanted(Met)
      BY DEF PlannedOK
    <3>. QED BY <1>14, <3>1, ZenonT(30)
  <2>2. Wanted(Met)' = Wanted(Met) \cup Wanted({s})
    <3>1. PICK M : M = Met'
      OBVIOUS
    <3>2. Wanted(M)' = Wanted(M)
      BY InputsKept
    <3>3. Wanted(Met)' = Wanted(M)
      BY <3>1, <3>2
    <3>. QED BY <1>5, <1>7, <3>1, <3>3
  <2>3. s \in Met => Wanted({s}) \subseteq Wanted(Met)
    BY DEF Wanted
  <2>5. CASE e.reason = "none"
    <3>1. Taken' = Taken \cup {n}
      BY <1>12, <2>5
    <3>2. {planned'[k].source : k \in Taken'} = {planned'[k].source : k \in Taken} \cup {s}
      <4>1. planned'[n].source = s
        BY <1>2
      <4>. QED BY <3>1, <4>1
    <3>. QED BY <2>1, <2>2, <2>5, <3>2
  <2>6. CASE e.reason # "none"
    <3>1. Taken' = Taken
      BY <1>12, <2>6
    <3>2. Wanted(Met)' = Wanted(Met)
      BY <2>2, <2>3, <2>6
    <3>. QED BY <2>1, <3>1, <3>2
  <2>. QED BY <2>5, <2>6
<1>17. seen_src' = {path \in Met' : IsInside(path)}
  <2>1. seen_src = {path \in Met : IsInside(path)}
    BY DEF PlannedOK
  <2>. QED BY <1>5, <2>1
<1>18. Len(planned') = Cardinality(Scanned')
  <2>1. Len(planned) = Cardinality(Scanned)
    BY DEF PlannedOK
  <2>. QED BY <1>1, <1>2, <1>4, <2>1
<1>19. IsSequence(planned)'
  BY <1>2 DEF IsSequence
<1>. QED BY <1>8, <1>9, <1>15, <1>16, <1>17, <1>18, <1>19 DEF PlannedOK

-----------------------------------------------------------------------------
(* The steps of the first loop.                                            *)

\* where the cursor of the first loop is
LEMMA AtTheCursor ==
  ASSUME TypeOK, ListingOK, Scanning
  PROVE  /\ pc = "scanning" /\ cursor \in DOMAIN listing /\ cursor \in Nat
         /\ cursor + 1 \in 1 .. Len(listing) + 1
         /\ DOMAIN listing = 1 .. Len(listing) /\ Len(listing) \in Nat
<1>1. DOMAIN listing = 1 .. Len(listing) /\ Len(listing) \in Nat
  BY SequenceFacts DEF ListingOK
<1>2. cursor \in 1 .. Len(listing) + 1 /\ cursor <= Len(listing) /\ pc = "scanning"
  BY DEF TypeOK, Scanning
<1>. QED BY <1>1, <1>2

\* what has nothing to do with names
LEMMA NotRefused ==
  ASSUME pc' # "failed"
  PROVE  RefusedForNamesOnly'
BY DEF RefusedForNamesOnly

NoNames == pc \in {"listing", "scanning"} /\ rename_map = {}

LEMMA NoNamesOK == NoNames => RenamedOK
BY DEF NoNames, RenamedOK

LEMMA NoNamesNext == NoNames' => RenamedOK'
BY NoNamesOK, PTL

\* the inputs stay in their sets
LEMMA TypesKept ==
  ASSUME TypeOK, UNCHANGED <<inputs, listing, planned>>,
         pc' \in {"listing", "scanning", "renaming", "placing", "done", "failed"},
         cursor' \in 1 .. Len(listing) + 1,
         \A pair \in rename_map' : pair[1] \in seen_src' /\ pair[2] # <<>>
  PROVE  TypeOK'
<1>1. /\ backend' = backend /\ readable' = readable /\ archive' = archive
      /\ filter' = filter /\ rename' = rename
  BY DEF inputs
<1>. QED BY <1>1 DEF TypeOK

\* a directory is passed
LEMMA ScanDirectoryInv == IInv /\ ScanDirectory => IInv'
<1>. SUFFICES ASSUME IInv, ScanDirectory PROVE IInv'
  OBVIOUS
<1>1. /\ TypeOK /\ ListingOK /\ PlannedOK /\ RenamedOK
  BY DEF IInv
<1>2. /\ Scanning /\ listing[cursor].is_dir /\ cursor' = cursor + 1
      /\ UNCHANGED <<pc, inputs, listing, seen_src, planned, rename_map>>
  BY DEF ScanDirectory
<1>3. /\ pc = "scanning" /\ cursor \in DOMAIN listing /\ cursor \in Nat
      /\ cursor + 1 \in 1 .. Len(listing) + 1
      /\ DOMAIN listing = 1 .. Len(listing) /\ Len(listing) \in Nat
  BY <1>1, <1>2, AtTheCursor
<1>4. Scanned' = Scanned
  <2>1. \A k \in DOMAIN listing : (k < cursor + 1) <=> (k < cursor \/ k = cursor)
    BY <1>3
  <2>2. \A k : k \in Scanned' <=> k \in DOMAIN listing' /\ ~listing'[k].is_dir /\ (pc' = "scanning" => k < cursor')
    BY Zenon DEF Scanned
  <2>3. \A k : k \in Scanned <=> k \in DOMAIN listing /\ ~listing[k].is_dir /\ (pc = "scanning" => k < cursor)
    BY Zenon DEF Scanned
  <2>4. \A k : k \in Scanned' <=> k \in DOMAIN listing /\ ~listing[k].is_dir /\ k < cursor + 1
    BY <1>2, <1>3, <2>2
  <2>. QED BY <1>2, <1>3, <2>1, <2>3, <2>4
<1>5. ListingOK'
  BY <1>1, <1>2, <1>3, ListingKept
<1>6. PlannedOK'
  BY <1>1, <1>2, <1>3, <1>4, PlannedKept
<1>7. rename_map = {}
  BY <1>1, <1>3 DEF RenamedOK
<1>8. RenamedOK'
  <2>1. NoNames'
    BY <1>2, <1>3, <1>7 DEF NoNames
  <2>. QED BY <2>1, NoNamesNext
<1>9. TypeOK'
  BY <1>1, <1>2, <1>3, <1>7, TypesKept
<1>10. RefusedForNamesOnly'
  BY <1>2, <1>3, NotRefused
<1>. QED BY <1>5, <1>6, <1>8, <1>9, <1>10 DEF IInv

\* the first loop ends when every file was met
LEMMA ScanDoneInv == IInv /\ ScanDone => IInv'
<1>. SUFFICES ASSUME IInv, ScanDone PROVE IInv'
  OBVIOUS
<1>1. /\ TypeOK /\ ListingOK /\ PlannedOK /\ RenamedOK
  BY DEF IInv
<1>2. /\ pc = "scanning" /\ cursor > Len(listing) /\ pc' = "renaming" /\ cursor' = 1
      /\ UNCHANGED <<inputs, listing, seen_src, planned, rename_map>>
  BY DEF ScanDone
<1>3. /\ DOMAIN listing = 1 .. Len(listing) /\ Len(listing) \in Nat
      /\ cursor \in Nat
  <2>1. cursor \in 1 .. Len(listing) + 1 /\ DOMAIN listing = 1 .. Len(listing) /\ Len(listing) \in Nat
    BY <1>1, SequenceFacts DEF ListingOK, TypeOK
  <2>. QED BY <2>1
<1>4. Scanned' = Scanned
  <2>1. \A k \in DOMAIN listing : k < cursor
    BY <1>2, <1>3
  <2>. QED BY <1>2, <2>1 DEF Scanned
<1>5. ListingOK'
  BY <1>1, <1>2, ListingKept
<1>6. PlannedOK'
  BY <1>1, <1>2, <1>4, PlannedKept
<1>7. rename_map = {}
  BY <1>1, <1>2 DEF RenamedOK
<1>8. RenamedOK'
  <2>1. \A k \in Taken : ~ (k < cursor')
    <3>1. DOMAIN planned = 1 .. Len(planned) /\ Len(planned) \in Nat
      BY <1>1, SequenceFacts DEF PlannedOK
    <3>2. \A k \in Taken : k \in DOMAIN planned
      BY Zenon DEF Taken
    <3>3. \A k \in 1 .. Len(planned) : ~ (k < 1)
      BY <3>1
    <3>. QED BY <1>2, <3>1, <3>2, <3>3
  <2>. QED BY <1>1, <1>2, <1>4, <2>1, RenamedKept
<1>9. TypeOK'
  <2>1. 1 \in 1 .. Len(listing) + 1
    BY <1>3
  <2>. QED BY <1>1, <1>2, <2>1, <1>7, TypesKept
<1>10. RefusedForNamesOnly'
  BY <1>2, NotRefused
<1>. QED BY <1>5, <1>6, <1>8, <1>9, <1>10 DEF IInv

\* one more path met is one more path wanted, if it is safe and kept
LEMMA WantedOne ==
  ASSUME NEW s
  PROVE  Wanted({s}) = IF IsInside(s) /\ ShouldKeep(filter.rules, s, filter.basename_match)
                         THEN {s} ELSE {}
<1>1. \A t : t \in Wanted({s}) <=> /\ t = s /\ s # <<>> /\ Head(s) # Drive /\ DotDot \notin ToSet(s)
                                   /\ ShouldKeep(filter.rules, s, filter.basename_match)
  BY DEF Wanted
<1>2. CASE IsInside(s) /\ ShouldKeep(filter.rules, s, filter.basename_match)
  <2>1. s \in Wanted({s}) /\ \A t \in Wanted({s}) : t = s
    BY <1>1, <1>2 DEF IsInside
  <2>. QED BY <1>2, <2>1
<1>3. CASE ~ (IsInside(s) /\ ShouldKeep(filter.rules, s, filter.basename_match))
  <2>1. \A t : t \notin Wanted({s})
    BY <1>1, <1>3, Zenon DEF IsInside
  <2>. QED BY <1>3, <2>1
<1>. QED BY <1>2, <1>3

\* what a step of the loop does when it adds an entry
ScanStep(e, s) ==
  /\ pc = "scanning" /\ pc' = "scanning"
  /\ UNCHANGED <<inputs, listing, rename_map>>
  /\ cursor \in DOMAIN listing /\ ~listing[cursor].is_dir /\ cursor' = cursor + 1
  /\ s = Source /\ e.source = s /\ e.meta = listing[cursor].meta
  /\ DOMAIN e = {"source", "dest", "action", "reason", "meta"}
  /\ e.action \in {"Skip", "Passthrough", "ConvertNested"}
  /\ e.reason \in {"empty", "unsafe", "duplicate", "excluded", "none"}
  /\ e.action = "Skip" <=> e.reason # "none"
  /\ planned' = Append(planned, e)
  /\ seen_src' = seen_src \cup {path \in {s} : IsInside(path)}
  /\ e.reason = "none" => s \notin Met /\ Wanted({s}) = {s}
  /\ e.reason # "none" => s \in Met \/ Wanted({s}) = {}

\* a step that adds an entry keeps the invariant
LEMMA ScanStepInv ==
  ASSUME IInv, NEW e, NEW s, ScanStep(e, s)
  PROVE  IInv'
<1>1. TypeOK /\ ListingOK /\ PlannedOK /\ RenamedOK
  BY DEF IInv
<1>2. /\ pc = "scanning" /\ pc' = "scanning"
      /\ UNCHANGED <<inputs, listing, rename_map>>
      /\ cursor \in DOMAIN listing /\ cursor' = cursor + 1
      /\ e.action \in {"Skip", "Passthrough", "ConvertNested"}
      /\ e.reason \in {"empty", "unsafe", "duplicate", "excluded", "none"}
      /\ e.action = "Skip" <=> e.reason # "none"
      /\ planned' = Append(planned, e)
  BY Zenon DEF ScanStep
<1>3. rename_map' = {}
  BY <1>1, <1>2 DEF RenamedOK
<1>4. PlannedOK'
  <2>1. /\ pc = "scanning" /\ pc' = "scanning" /\ UNCHANGED inputs /\ listing' = listing
        /\ cursor \in DOMAIN listing /\ ~listing[cursor].is_dir /\ cursor' = cursor + 1
        /\ s = Source /\ e.source = s /\ e.meta = listing[cursor].meta
        /\ DOMAIN e = {"source", "dest", "action", "reason", "meta"}
        /\ e.reason # "unsafe destination"
        /\ planned' = Append(planned, e)
        /\ seen_src' = seen_src \cup {path \in {s} : IsInside(path)}
        /\ e.reason = "none" => s \notin Met /\ Wanted({s}) = {s}
        /\ e.reason # "none" => s \in Met \/ Wanted({s}) = {}
    BY DEF ScanStep
  <2>. QED BY <1>1, <2>1, PlannedGrows
<1>5. ListingOK'
  BY <1>1, <1>2, ListingKept
<1>6. RenamedOK'
  <2>1. NoNames'
    BY <1>2, <1>3 DEF NoNames
  <2>. QED BY <2>1, NoNamesNext
<1>7. RefusedForNamesOnly'
  BY <1>2, NotRefused
<1>8. TypeOK'
  <2>1. PICK n : n = Len(planned) + 1
    OBVIOUS
  <2>2. IsLonger(planned', planned, e, n)
    <3>1. IsSequence(planned)
      BY <1>1 DEF PlannedOK
    <3>2. IsLonger(Append(planned, e), planned, e, Len(planned) + 1)
      BY <3>1, AppendFacts, Zenon
    <3>. QED BY <1>2, <2>1, <3>2
  <2>3. \A k \in DOMAIN planned' : k \in DOMAIN planned \/ k = n
    BY <2>2 DEF IsLonger
  <2>4. planned'[n] = e /\ \A k \in DOMAIN planned : planned'[k] = planned[k]
    BY <2>2, Zenon DEF IsLonger
  <2>5. \A k \in DOMAIN planned' :
          /\ planned'[k].action \in {"Skip", "Passthrough", "ConvertNested"}
          /\ planned'[k].reason \in Reasons
          /\ (planned'[k].action = "Skip") = (planned'[k].reason # "none")
    <3>. SUFFICES ASSUME NEW k \in DOMAIN planned'
                  PROVE  /\ planned'[k].action \in {"Skip", "Passthrough", "ConvertNested"}
                         /\ planned'[k].reason \in Reasons
                         /\ (planned'[k].action = "Skip") = (planned'[k].reason # "none")
      OBVIOUS
    <3>1. CASE k = n
      <4>1. planned'[k] = e
        BY <2>4, <3>1
      <4>. QED BY <1>2, <4>1 DEF Reasons
    <3>2. CASE k # n
      <4>1. k \in DOMAIN planned
        BY <2>3, <3>2
      <4>2. planned'[k] = planned[k]
        BY <2>4, <4>1
      <4>. QED BY <1>1, <4>1, <4>2 DEF TypeOK
    <3>. QED BY <3>1, <3>2
  <2>6. Len(planned') <= Len(listing)
    <3>1. Len(planned') = Cardinality(Scanned')
      BY <1>4 DEF PlannedOK
    <3>2. Scanned' \subseteq DOMAIN listing
      BY <1>2 DEF Scanned
    <3>3. IsSequence(listing)
      BY <1>1 DEF ListingOK
    <3>4. PICK T : T = Scanned'
      OBVIOUS
    <3>5. Cardinality(T) <= Len(listing)
      BY <3>2, <3>3, <3>4, ScannedFinite
    <3>. QED BY <3>1, <3>4, <3>5
  <2>7. cursor' \in 1 .. Len(listing) + 1
    <3>1. DOMAIN listing = 1 .. Len(listing) /\ Len(listing) \in Nat
      BY <1>1, SequenceFacts DEF ListingOK
    <3>. QED BY <1>2, <3>1
  <2>8. /\ backend' = backend /\ readable' = readable /\ archive' = archive
        /\ filter' = filter /\ rename' = rename /\ listing' = listing
    BY <1>2 DEF inputs
  <2>. QED BY <1>1, <1>2, <1>3, <2>5, <2>6, <2>7, <2>8 DEF TypeOK
<1>. QED BY <1>4, <1>5, <1>6, <1>7, <1>8 DEF IInv
\* no path, an unsafe one, or one seen before
LEMMA ScanRefusedInv == IInv /\ ScanRefused => IInv'
<1>. SUFFICES ASSUME IInv, ScanRefused PROVE IInv'
  OBVIOUS
<1>1. TypeOK /\ ListingOK /\ PlannedOK /\ RenamedOK
  BY DEF IInv
<1>2. /\ Scanning /\ ~listing[cursor].is_dir /\ Refused # "none"
      /\ cursor' = cursor + 1 /\ Plan("Skip", Refused)
      /\ UNCHANGED <<pc, inputs, listing, seen_src, rename_map>>
  BY DEF ScanRefused
<1>3. pc = "scanning" /\ cursor \in DOMAIN listing
  BY <1>1, <1>2, AtTheCursor
<1>4. PICK s : s = Source
  OBVIOUS
<1>5. s = normalize_member_path(listing[cursor].path)
  BY <1>4 DEF Source
<1>6. is_safe_member_path(s) <=> IsInside(s)
  BY <1>1, <1>3, <1>5, SourceIsNormal
<1>7. PICK r : r = Refused
  OBVIOUS
<1>8. \/ r = "empty" /\ s = <<>>
      \/ r = "unsafe" /\ ~is_safe_member_path(s)
      \/ r = "duplicate" /\ s \in seen_src
  BY <1>2, <1>4, <1>7 DEF Refused
<1>9. s \in seen_src \/ ~IsInside(s)
  BY <1>6, <1>8 DEF IsInside
<1>10. seen_src = {path \in Met : IsInside(path)}
  BY <1>1 DEF PlannedOK
<1>11. s \in Met \/ Wanted({s}) = {}
  BY <1>9, <1>10, WantedOne
<1>12. seen_src = seen_src \cup {path \in {s} : IsInside(path)}
  BY <1>9
<1>13. PICK e : e = [source |-> s, dest |-> <<>>, action |-> "Skip", reason |-> r,
                     meta |-> listing[cursor].meta]
  OBVIOUS
<1>14. planned' = Append(planned, e)
  BY <1>2, <1>4, <1>7, <1>13 DEF Plan
<1>15. /\ e.source = s /\ e.meta = listing[cursor].meta /\ e.action = "Skip" /\ e.reason = r
       /\ DOMAIN e = {"source", "dest", "action", "reason", "meta"}
  BY <1>13
<1>16. r \in {"empty", "unsafe", "duplicate"}
  BY <1>8
<1>17. ScanStep(e, s)
  BY <1>2, <1>3, <1>4, <1>11, <1>12, <1>14, <1>15, <1>16 DEF ScanStep
<1>. QED BY <1>17, ScanStepInv

\* a new path, that the filter keeps or not
LEMMA ScanFileInv == IInv /\ ScanFile => IInv'
<1>. SUFFICES ASSUME IInv, ScanFile PROVE IInv'
  OBVIOUS
<1>1. TypeOK /\ ListingOK /\ PlannedOK /\ RenamedOK
  BY DEF IInv
<1>2. /\ Scanning /\ ~listing[cursor].is_dir /\ Refused = "none"
      /\ cursor' = cursor + 1
      /\ UNCHANGED <<pc, inputs, listing, rename_map>>
      /\ seen_src' = seen_src \cup {Source}
  BY DEF ScanFile
<1>3. pc = "scanning" /\ cursor \in DOMAIN listing
  BY <1>1, <1>2, AtTheCursor
<1>4. PICK s : s = Source
  OBVIOUS
<1>5. s = normalize_member_path(listing[cursor].path)
  BY <1>4 DEF Source
<1>6. is_safe_member_path(s) <=> IsInside(s)
  BY <1>1, <1>3, <1>5, SourceIsNormal
<1>7. is_safe_member_path(s) /\ s \notin seen_src
  BY <1>2, <1>4 DEF Refused
<1>8. seen_src = {path \in Met : IsInside(path)}
  BY <1>1 DEF PlannedOK
<1>9. IsInside(s) /\ s \notin Met
  BY <1>6, <1>7, <1>8
<1>10. seen_src' = seen_src \cup {path \in {s} : IsInside(path)}
  BY <1>2, <1>4, <1>9
<1>11. PICK a, r : /\ Plan(a, r)
                   /\ \/ /\ a = "Skip" /\ r = "excluded"
                         /\ ~ShouldKeep(filter.rules, s, filter.basename_match)
                      \/ /\ a \in {"ConvertNested", "Passthrough"} /\ r = "none"
                         /\ ShouldKeep(filter.rules, s, filter.basename_match)
  <2>1. CASE ~ShouldKeep(filter.rules, s, filter.basename_match)
    <3>1. Plan("Skip", "excluded")
      BY <1>4, <2>1 DEF ScanFile
    <3>. QED BY <2>1, <3>1
  <2>2. CASE ShouldKeep(filter.rules, s, filter.basename_match)
    <3>1. PICK a : a = IF listing[cursor].seven THEN "ConvertNested" ELSE "Passthrough"
      OBVIOUS
    <3>2. a \in {"ConvertNested", "Passthrough"}
      BY <3>1
    <3>3. Plan(a, "none")
      BY <1>4, <2>2, <3>1 DEF ScanFile
    <3>. QED BY <2>2, <3>2, <3>3
  <2>. QED BY <2>1, <2>2
<1>12. PICK e : e = [source |-> s, dest |-> <<>>, action |-> a, reason |-> r,
                     meta |-> listing[cursor].meta]
  OBVIOUS
<1>13. planned' = Append(planned, e)
  BY <1>4, <1>11, <1>12 DEF Plan
<1>14. /\ e.source = s /\ e.meta = listing[cursor].meta /\ e.action = a /\ e.reason = r
       /\ DOMAIN e = {"source", "dest", "action", "reason", "meta"}
  BY <1>12
<1>15. /\ r = "none" => Wanted({s}) = {s}
       /\ r # "none" => Wanted({s}) = {}
  BY <1>9, <1>11, WantedOne
<1>16. /\ a \in {"Skip", "ConvertNested", "Passthrough"} /\ r \in {"excluded", "none"}
       /\ a = "Skip" <=> r # "none"
  BY <1>11
<1>17. ScanStep(e, s)
  BY <1>2, <1>3, <1>4, <1>9, <1>10, <1>13, <1>14, <1>15, <1>16 DEF ScanStep
<1>. QED BY <1>17, ScanStepInv

-----------------------------------------------------------------------------
(* The steps of the second loop.                                           *)

\* after the first loop all files were met
LEMMA ScannedStays ==
  ASSUME listing' = listing, pc # "scanning", pc' # "scanning"
  PROVE  Scanned' = Scanned
BY DEF Scanned

\* where the cursor of the second loop is
LEMMA AtTheEntry ==
  ASSUME IInv, Renaming
  PROVE  /\ pc = "renaming" /\ cursor \in DOMAIN planned /\ cursor \in Nat
         /\ cursor + 1 \in 1 .. Len(listing) + 1
         /\ \A k \in DOMAIN planned : k < cursor + 1 <=> k < cursor \/ k = cursor
         /\ cursor \in Taken <=> planned[cursor].action # "Skip"
<1>1. DOMAIN listing = 1 .. Len(listing) /\ Len(listing) \in Nat
  BY SequenceFacts DEF IInv, ListingOK
<1>2. DOMAIN planned = 1 .. Len(planned) /\ Len(planned) \in Nat
  BY SequenceFacts DEF IInv, PlannedOK
<1>3. cursor \in 1 .. Len(listing) + 1 /\ cursor <= Len(planned) /\ Len(planned) <= Len(listing)
      /\ pc = "renaming"
  BY DEF IInv, TypeOK, Renaming
<1>4. cursor \in DOMAIN planned /\ cursor \in Nat
      /\ cursor + 1 \in 1 .. Len(listing) + 1
  BY <1>1, <1>2, <1>3
<1>5. \A k \in DOMAIN planned : k < cursor + 1 <=> k < cursor \/ k = cursor
  BY <1>2, <1>4
<1>6. planned[cursor].reason # "unsafe destination"
  BY <1>3, <1>4 DEF IInv, PlannedOK
<1>7. (planned[cursor].action = "Skip") = (planned[cursor].reason # "none")
  BY <1>4 DEF IInv, TypeOK
<1>8. cursor \in Taken <=> planned[cursor].reason \in {"none", "unsafe destination"}
  BY <1>4, Zenon DEF Taken
<1>. QED BY <1>3, <1>4, <1>5, <1>6, <1>7, <1>8

\* the entries that were taken
LEMMA TakenEntry ==
  ASSUME IInv, NEW k \in Taken
  PROVE  /\ k \in DOMAIN planned /\ planned[k].source \in Wanted(Met)
         /\ planned[k].source \in seen_src
<1>1. k \in DOMAIN planned
  BY Zenon DEF Taken
<1>2. {planned[i].source : i \in Taken} = Wanted(Met)
  BY DEF IInv, PlannedOK
<1>3. planned[k].source \in Wanted(Met)
  BY <1>2
<1>4. seen_src = {path \in Met : IsInside(path)}
  BY DEF IInv, PlannedOK
<1>. QED BY <1>1, <1>3, <1>4 DEF Wanted, IsInside

LEMMA RenameSkippedInv == IInv /\ RenameSkipped => IInv'
<1>. SUFFICES ASSUME IInv, RenameSkipped PROVE IInv'
  OBVIOUS
<1>1. TypeOK /\ ListingOK /\ PlannedOK /\ RenamedOK
  BY DEF IInv
<1>2. /\ Renaming /\ planned[cursor].action = "Skip" /\ cursor' = cursor + 1
      /\ UNCHANGED <<pc, inputs, listing, seen_src, planned, rename_map>>
  BY DEF RenameSkipped
<1>3. /\ pc = "renaming" /\ cursor \in DOMAIN planned
      /\ cursor + 1 \in 1 .. Len(listing) + 1
      /\ \A k \in DOMAIN planned : k < cursor + 1 <=> k < cursor \/ k = cursor
      /\ cursor \notin Taken
  BY <1>2, AtTheEntry
<1>4. Scanned' = Scanned
  BY <1>2, <1>3, ScannedStays
<1>5. \A k \in Taken : k \in DOMAIN planned
  BY Zenon DEF Taken
<1>6. ListingOK'
  BY <1>1, <1>2, <1>3, ListingKept
<1>7. PlannedOK'
  BY <1>1, <1>2, <1>3, <1>4, PlannedKept
<1>8. RenamedOK'
  <2>1. \A k \in Taken : k < cursor' => k < cursor
    BY <1>2, <1>3, <1>5
  <2>. QED BY <1>1, <1>2, <1>3, <1>4, <2>1, RenamedKept
<1>9. TypeOK'
  <2>1. \A pair \in rename_map' : pair[1] \in seen_src' /\ pair[2] # <<>>
    BY <1>1, <1>2 DEF TypeOK
  <2>. QED BY <1>1, <1>2, <1>3, <2>1, TypesKept
<1>10. RefusedForNamesOnly'
  BY <1>2, <1>3, NotRefused
<1>. QED BY <1>6, <1>7, <1>8, <1>9, <1>10 DEF IInv

LEMMA RenameDoneInv == IInv /\ RenameDone => IInv'
<1>. SUFFICES ASSUME IInv, RenameDone PROVE IInv'
  OBVIOUS
<1>1. TypeOK /\ ListingOK /\ PlannedOK /\ RenamedOK
  BY DEF IInv
<1>2. /\ pc = "renaming" /\ cursor > Len(planned) /\ pc' = "placing"
      /\ UNCHANGED <<inputs, listing, cursor, seen_src, planned, rename_map>>
  BY DEF RenameDone
<1>3. Scanned' = Scanned
  BY <1>2, ScannedStays
<1>4. \A k \in Taken : k < cursor
  <2>1. DOMAIN planned = 1 .. Len(planned) /\ Len(planned) \in Nat
    BY <1>1, SequenceFacts DEF PlannedOK
  <2>2. DOMAIN listing = 1 .. Len(listing) /\ Len(listing) \in Nat
    BY <1>1, SequenceFacts DEF ListingOK
  <2>3. cursor \in Nat
    BY <1>1, <2>2 DEF TypeOK
  <2>4. \A k \in Taken : k \in DOMAIN planned
    BY Zenon DEF Taken
  <2>5. \A k \in DOMAIN planned : k < cursor
    BY <1>2, <2>1, <2>3
  <2>. QED BY <2>4, <2>5
<1>5. ListingOK'
  BY <1>1, <1>2, ListingKept
<1>6. PlannedOK'
  BY <1>1, <1>2, <1>3, PlannedKept
<1>7. RenamedOK'
  BY <1>1, <1>2, <1>3, <1>4, RenamedKept
<1>8. TypeOK'
  BY <1>1, <1>2 DEF TypeOK, inputs
<1>9. RefusedForNamesOnly'
  BY <1>2, NotRefused
<1>. QED BY <1>5, <1>6, <1>7, <1>8, <1>9 DEF IInv

\* a new name is no other's name
LEMMA RenameKeptInv == IInv /\ RenameKept => IInv'
<1>. SUFFICES ASSUME IInv, RenameKept PROVE IInv'
  OBVIOUS
<1>1. TypeOK /\ ListingOK /\ PlannedOK /\ RenamedOK
  BY DEF IInv
<1>2. PICK s, d : s = planned[cursor].source /\ d = Transform(s)
  OBVIOUS
<1>3. /\ Renaming /\ planned[cursor].action # "Skip" /\ cursor' = cursor + 1
      /\ d # <<>> /\ ~ (\E pair \in rename_map : pair[2] = d /\ pair[1] # s)
      /\ rename_map' = rename_map \cup {<<s, d>>}
      /\ UNCHANGED <<pc, inputs, listing, seen_src, planned>>
  BY <1>2, Zenon DEF RenameKept, Destination, Collides
<1>4. /\ pc = "renaming" /\ cursor \in DOMAIN planned
      /\ cursor + 1 \in 1 .. Len(listing) + 1
      /\ \A k \in DOMAIN planned : k < cursor + 1 <=> k < cursor \/ k = cursor
      /\ cursor \in Taken
  BY <1>3, AtTheEntry
<1>5. Scanned' = Scanned /\ Met' = Met
  <2>1. Scanned' = Scanned
    BY <1>3, <1>4, ScannedStays
  <2>. QED BY <1>3, <2>1, MetKept
<1>6. s \in Wanted(Met) /\ s \in seen_src
  BY <1>2, <1>4, TakenEntry
<1>7. ListingOK'
  BY <1>1, <1>3, <1>4, ListingKept
<1>8. PlannedOK'
  BY <1>1, <1>3, <1>4, <1>5, PlannedKept
<1>9. TypeOK'
  <2>1. \A pair \in rename_map' : pair[1] \in seen_src' /\ pair[2] # <<>>
    BY <1>1, <1>3, <1>6 DEF TypeOK
  <2>. QED BY <1>1, <1>3, <1>4, <2>1, TypesKept
<1>10. RefusedForNamesOnly'
  BY <1>3, <1>4, NotRefused
<1>11. RenamedOK'
  <2>1. \A path : Transform(path)' = Transform(path)
    BY <1>3, InputsKept
  <2>2. Wanted(Met)' = Wanted(Met)
    <3>1. PICK M : M = Met
      OBVIOUS
    <3>2. Wanted(M)' = Wanted(M)
      BY <1>3, InputsKept
    <3>3. M = Met'
      BY <1>5, <3>1
    <3>. QED BY <3>1, <3>2, <3>3
  <2>3. Taken' = Taken
    BY <1>3 DEF Taken
  <2>4. \A pair \in rename_map' : /\ pair = <<pair[1], Transform(pair[1])'>>
                                  /\ pair[1] \in Wanted(Met)' /\ pair[2] # <<>>
    <3>1. \A pair \in rename_map : /\ pair = <<pair[1], Transform(pair[1])>>
                                   /\ pair[1] \in Wanted(Met) /\ pair[2] # <<>>
      BY <1>1 DEF RenamedOK
    <3>2. PICK new : new = <<s, d>>
      OBVIOUS
    <3>3. new[1] = s /\ new[2] = d /\ new = <<new[1], Transform(new[1])>>
      BY <1>2, <3>2
    <3>4. \A pair \in rename_map' : pair \in rename_map \/ pair = new
      BY <1>3, <3>2
    <3>. QED BY <1>3, <1>6, <2>1, <2>2, <3>1, <3>3, <3>4
  <2>5. \A p, q \in rename_map' : p[2] = q[2] => p = q
    <3>1. \A p, q \in rename_map : p[2] = q[2] => p = q
      BY <1>1 DEF RenamedOK
    <3>2. \A p \in rename_map : p[2] = d => p = <<s, d>>
      <4>. SUFFICES ASSUME NEW p \in rename_map, p[2] = d PROVE p = <<s, d>>
        OBVIOUS
      <4>1. p[1] = s
        BY <1>3
      <4>2. p = <<p[1], Transform(p[1])>>
        BY <1>1 DEF RenamedOK
      <4>. QED BY <1>2, <4>1, <4>2
    <3>. QED BY <1>3, <3>1, <3>2
  <2>6. \A k \in Taken' :
          k < cursor' => <<planned[k].source, Transform(planned[k].source)>>' \in rename_map'
    <3>. SUFFICES ASSUME NEW k \in Taken', k < cursor'
                  PROVE  <<planned[k].source, Transform(planned[k].source)>>' \in rename_map'
      OBVIOUS
    <3>1. PICK t : t = planned[k].source
      OBVIOUS
    <3>2. Transform(t)' = Transform(t) /\ t = (planned[k].source)'
      BY <1>3, <2>1, <3>1
    <3>3. k \in Taken /\ k \in DOMAIN planned
      BY <2>3, TakenEntry
    <3>4. k < cursor \/ k = cursor
      BY <1>3, <1>4, <3>3
    <3>5. <<t, Transform(t)>> \in rename_map'
      <4>1. CASE k = cursor
        BY <1>2, <1>3, <3>1, <4>1
      <4>2. CASE k < cursor
        BY <1>1, <1>3, <1>4, <3>1, <3>3, <4>2 DEF RenamedOK
      <4>. QED BY <3>4, <4>1, <4>2
    <3>. QED BY <3>2, <3>5
  <2>7. pc' = "renaming"
    BY <1>3, <1>4
  <2>. QED BY <2>4, <2>5, <2>6, <2>7 DEF RenamedOK
<1>. QED BY <1>7, <1>8, <1>9, <1>10, <1>11 DEF IInv

\* two wanted members that get one name, or one that gets none
Refusable == \E p, q \in Wanted(Met) : Transform(p) = <<>> \/ (p # q /\ Transform(p) = Transform(q))

RightlyRefused == pc = "failed" /\ Refusable

LEMMA RefusableEnough == RightlyRefused => RefusedForNamesOnly
<1>. SUFFICES ASSUME pc = "failed", Refusable PROVE RefusedForNamesOnly
  BY DEF RightlyRefused
<1>1. pc = "failed" => Met = {normalize_member_path(listing[k].path) :
                               k \in {i \in DOMAIN listing : ~listing[i].is_dir}}
  <2>1. pc = "failed" => Scanned = {i \in DOMAIN listing : ~listing[i].is_dir}
    BY DEF Scanned
  <2>. QED BY <2>1, Zenon DEF Met
<1>. QED BY <1>1, Zenon DEF RefusedForNamesOnly, Refusable

LEMMA RefusableNext == RightlyRefused' => RefusedForNamesOnly'
BY RefusableEnough, PTL

\* the two that get one name are both wanted, and so is the one that gets none
LEMMA RenameFailsInv == IInv /\ RenameFails => IInv'
<1>. SUFFICES ASSUME IInv, RenameFails PROVE IInv'
  OBVIOUS
<1>1. TypeOK /\ ListingOK /\ PlannedOK /\ RenamedOK
  BY DEF IInv
<1>2. PICK s, d : s = planned[cursor].source /\ d = Transform(s)
  OBVIOUS
<1>3. /\ Renaming /\ planned[cursor].action # "Skip" /\ pc' = "failed"
      /\ d = <<>> \/ \E pair \in rename_map : pair[2] = d /\ pair[1] # s
      /\ UNCHANGED <<inputs, listing, cursor, seen_src, planned, rename_map>>
  BY <1>2, Zenon DEF RenameFails, Destination, Collides
<1>4. pc = "renaming" /\ cursor \in Taken
  BY <1>3, AtTheEntry
<1>5. Scanned' = Scanned /\ Met' = Met
  <2>1. Scanned' = Scanned
    BY <1>3, <1>4, ScannedStays
  <2>. QED BY <1>3, <2>1, MetKept
<1>6. s \in Wanted(Met)
  BY <1>2, <1>4, TakenEntry
<1>7. \E p, q \in Wanted(Met) : Transform(p) = <<>> \/ (p # q /\ Transform(p) = Transform(q))
  <2>1. CASE d = <<>>
    BY <1>2, <1>6, <2>1
  <2>2. CASE d # <<>>
    <3>1. PICK pair \in rename_map : pair[2] = d /\ pair[1] # s
      BY <1>3, <2>2
    <3>2. pair = <<pair[1], Transform(pair[1])>> /\ pair[1] \in Wanted(Met)
      BY <1>1, <3>1 DEF RenamedOK
    <3>3. Transform(pair[1]) = d
      BY <3>1, <3>2
    <3>. QED BY <1>2, <1>6, <3>1, <3>2, <3>3
  <2>. QED BY <2>1, <2>2
<1>8. Refusable'
  <2>1. \A path : Transform(path)' = Transform(path)
    BY <1>3, InputsKept
  <2>2. Wanted(Met)' = Wanted(Met)
    <3>1. PICK M : M = Met
      OBVIOUS
    <3>2. Wanted(M)' = Wanted(M)
      BY <1>3, InputsKept
    <3>3. M = Met'
      BY <1>5, <3>1
    <3>. QED BY <3>1, <3>2, <3>3
  <2>. QED BY <1>7, <2>1, <2>2 DEF Refusable
<1>9. RefusedForNamesOnly'
  <2>1. RightlyRefused'
    BY <1>3, <1>8 DEF RightlyRefused
  <2>. QED BY <2>1, RefusableNext
<1>10. ListingOK'
  BY <1>1, <1>3, <1>4, ListingKept
<1>11. PlannedOK'
  BY <1>1, <1>3, <1>4, <1>5, PlannedKept
<1>12. RenamedOK'
  BY <1>1, <1>3, <1>4, <1>5, RenamedKept
<1>13. TypeOK'
  BY <1>1, <1>3 DEF TypeOK, inputs
<1>. QED BY <1>9, <1>10, <1>11, <1>12, <1>13 DEF IInv

-----------------------------------------------------------------------------
(* The last loop.                                                          *)

\* what becomes of an entry
PlacedOK(k, e, f) ==
  /\ DOMAIN f = DOMAIN e /\ f.source = e.source /\ f.meta = e.meta
  /\ f.action \in {"Skip", "Passthrough", "ConvertNested"} /\ f.reason \in Reasons
  /\ (f.action = "Skip") = (f.reason # "none")
  /\ f.reason \in {"none", "unsafe destination"} <=> e.reason \in {"none", "unsafe destination"}
  /\ f.action # "Skip" => /\ k \in Taken /\ f.dest = Transform(f.source)
                          /\ is_safe_member_path(f.dest)

LEMMA PlacedEntry ==
  ASSUME IInv, pc = "placing", NEW k \in DOMAIN planned
  PROVE  PlacedOK(k, planned[k], Placed(planned[k]))
<1>. SUFFICES ASSUME NEW e, NEW f, e = planned[k], f = Placed(e)
              PROVE  PlacedOK(k, e, f)
  BY Zenon
<1>1. /\ e.action \in {"Skip", "Passthrough", "ConvertNested"} /\ e.reason \in Reasons
      /\ (e.action = "Skip") = (e.reason # "none")
      /\ DOMAIN e = {"source", "dest", "action", "reason", "meta"}
      /\ e.reason # "unsafe destination"
  BY DEF IInv, TypeOK, PlannedOK
<1>2. CASE e.action = "Skip"
  <2>1. f = e
    BY <1>2 DEF Placed
  <2>. QED BY <1>1, <1>2, <2>1 DEF PlacedOK
<1>3. CASE e.action # "Skip"
  <2>1. k \in Taken /\ e.reason = "none"
    BY <1>1, <1>3, Zenon DEF Taken
  <2>2. <<e.source, Transform(e.source)>> \in rename_map
    BY <2>1 DEF IInv, RenamedOK
  <2>3. PICK found : found = CHOOSE pair \in rename_map : pair[1] = e.source
    OBVIOUS
  <2>4. found \in rename_map /\ found[1] = e.source
    <3>1. PICK own : own = <<e.source, Transform(e.source)>>
      OBVIOUS
    <3>2. own \in rename_map /\ own[1] = e.source
      BY <2>2, <3>1
    <3>. QED BY <2>3, <3>2, Zenon
  <2>5. found = <<found[1], Transform(found[1])>>
    BY <2>4 DEF IInv, RenamedOK
  <2>6. found[2] = Transform(e.source)
    BY <2>4, <2>5
  <2>7. PICK d : d = Transform(e.source)
    OBVIOUS
  <2>8. f = IF is_safe_member_path(d) THEN [e EXCEPT !.dest = d]
            ELSE [e EXCEPT !.action = "Skip", !.reason = "unsafe destination"]
    BY <1>3, <2>3, <2>6, <2>7, Zenon DEF Placed
  <2>9. CASE is_safe_member_path(d)
    <3>1. f = [e EXCEPT !.dest = d]
      BY <2>8, <2>9
    <3>2. /\ DOMAIN f = DOMAIN e /\ f.source = e.source /\ f.meta = e.meta /\ f.action = e.action
          /\ f.reason = e.reason /\ f.dest = d
      BY <1>1, <3>1
    <3>. QED BY <1>1, <2>1, <2>7, <2>9, <3>2 DEF PlacedOK
  <2>10. CASE ~is_safe_member_path(d)
    <3>1. f = [e EXCEPT !.action = "Skip", !.reason = "unsafe destination"]
      BY <2>8, <2>10
    <3>2. /\ DOMAIN f = DOMAIN e /\ f.source = e.source /\ f.meta = e.meta /\ f.action = "Skip"
          /\ f.reason = "unsafe destination"
      BY <1>1, <3>1
    <3>. QED BY <1>1, <2>1, <3>2 DEF PlacedOK, Reasons
  <2>. QED BY <2>9, <2>10
<1>. QED BY <1>2, <1>3

\* each taken entry gets its own new name, or is skipped for an unsafe one
LEMMA PlaceInv == IInv /\ Place => IInv'
<1>. SUFFICES ASSUME IInv, Place PROVE IInv'
  OBVIOUS
<1>1. TypeOK /\ ListingOK /\ PlannedOK /\ RenamedOK
  BY DEF IInv
<1>2. /\ pc = "placing" /\ pc' = "done"
      /\ planned' = [k \in DOMAIN planned |-> Placed(planned[k])]
      /\ UNCHANGED <<inputs, listing, cursor, seen_src, rename_map>>
  BY DEF Place
<1>3. Scanned' = Scanned /\ Met' = Met /\ \A entry : IsOfFile(entry)' <=> IsOfFile(entry)
  <2>1. Scanned' = Scanned
    BY <1>2, ScannedStays
  <2>. QED BY <1>2, <2>1, MetKept
<1>4. DOMAIN planned = 1 .. Len(planned) /\ Len(planned) \in Nat
  BY <1>1, SequenceFacts DEF PlannedOK
<1>5. IsSequence(planned') /\ Len(planned') = Len(planned) /\ DOMAIN planned' = DOMAIN planned
  <2>1. planned' = [k \in 1 .. Len(planned) |-> planned'[k]]
    BY <1>2, <1>4
  <2>2. PICK P : P = planned'
    OBVIOUS
  <2>3. P = [k \in 1 .. Len(planned) |-> P[k]]
    BY <2>1, <2>2
  <2>4. IsSequence(P) /\ Len(P) = Len(planned) /\ DOMAIN P = 1 .. Len(planned)
    BY <1>4, <2>3, FunctionIsSequence
  <2>. QED BY <1>4, <2>2, <2>4
<1>6. \A k \in DOMAIN planned : planned'[k] = Placed(planned[k])
  BY <1>2
<1>7. ASSUME NEW k \in DOMAIN planned
      PROVE  /\ DOMAIN planned'[k] = {"source", "dest", "action", "reason", "meta"}
             /\ planned'[k].source = planned[k].source /\ planned'[k].meta = planned[k].meta
             /\ planned'[k].action \in {"Skip", "Passthrough", "ConvertNested"}
             /\ planned'[k].reason \in Reasons
             /\ (planned'[k].action = "Skip") = (planned'[k].reason # "none")
             /\ planned'[k].reason \in {"none", "unsafe destination"}
                  <=> planned[k].reason \in {"none", "unsafe destination"}
             /\ planned'[k].action # "Skip" =>
                  /\ k \in Taken /\ planned'[k].dest = Transform(planned'[k].source)
                  /\ is_safe_member_path(planned'[k].dest)
  <2>1. PICK e, f : e = planned[k] /\ f = planned'[k]
    OBVIOUS
  <2>2. f = Placed(e)
    BY <1>6, <2>1
  <2>3. DOMAIN e = {"source", "dest", "action", "reason", "meta"}
    BY <1>1, <2>1 DEF PlannedOK
  <2>4. PlacedOK(k, planned[k], Placed(planned[k]))
    BY <1>2, PlacedEntry, Zenon
  <2>5. PlacedOK(k, e, f)
    BY <2>1, <2>2, <2>4, Zenon
  <2>. QED BY <2>1, <2>3, <2>5 DEF PlacedOK
<1>8. Taken' = Taken
  <2>1. \A k : k \in Taken <=> k \in DOMAIN planned /\ planned[k].reason \in {"none", "unsafe destination"}
    BY MetIsNext, Zenon
  <2>2. \A k : k \in Taken' <=> k \in DOMAIN planned' /\ planned'[k].reason \in {"none", "unsafe destination"}
    BY MetIsNext, Zenon
  <2>3. \A k : k \in Taken' <=> k \in Taken
    BY <1>5, <1>7, <2>1, <2>2
  <2>. QED BY <2>3
<1>9. \A k \in Taken : k \in DOMAIN planned
  BY Zenon DEF Taken
<1>10. Wanted(Met)' = Wanted(Met) /\ \A path : Transform(path)' = Transform(path)
  <2>1. PICK M : M = Met
    OBVIOUS
  <2>2. Wanted(M)' = Wanted(M)
    BY <1>2, InputsKept
  <2>3. M = Met'
    BY <1>3, <2>1
  <2>. QED BY <1>2, <2>1, <2>2, <2>3, InputsKept
<1>11. PlannedOK'
  <2>1. \A k \in DOMAIN planned' : IsOfFile(planned[k])'
    <3>. SUFFICES ASSUME NEW k \in DOMAIN planned' PROVE IsOfFile(planned[k])'
      OBVIOUS
    <3>1. PICK e, f : e = planned[k] /\ f = planned'[k]
      OBVIOUS
    <3>2. IsOfFile(e) /\ f.source = e.source /\ f.meta = e.meta
      BY <1>1, <1>5, <1>7, <3>1 DEF PlannedOK
    <3>3. IsOfFile(f)
      BY <3>2 DEF IsOfFile
    <3>4. IsOfFile(f)'
      BY <1>3, <3>3
    <3>. QED BY <3>1, <3>4
  <2>2. {planned'[k].source : k \in Taken'} = Wanted(Met)'
    <3>1. {planned[k].source : k \in Taken} = Wanted(Met)
      BY <1>1 DEF PlannedOK
    <3>2. \A k \in Taken : planned'[k].source = planned[k].source
      BY <1>7, <1>9
    <3>. QED BY <1>8, <1>10, <3>1, <3>2
  <2>3. \A j, k \in Taken' : planned'[j].source = planned'[k].source => j = k
    <3>1. \A j, k \in Taken : planned[j].source = planned[k].source => j = k
      BY <1>1 DEF PlannedOK
    <3>2. \A k \in Taken : planned'[k].source = planned[k].source
      BY <1>7, <1>9
    <3>. QED BY <1>8, <3>1, <3>2
  <2>4. seen_src' = {path \in Met' : IsInside(path)}
    BY <1>1, <1>2, <1>3 DEF PlannedOK
  <2>5. IsSequence(planned)' /\ Len(planned') = Cardinality(Scanned')
    <3>1. IsSequence(planned)'
      BY <1>5 DEF IsSequence
    <3>2. Len(planned) = Cardinality(Scanned)
      BY <1>1 DEF PlannedOK
    <3>. QED BY <1>3, <1>5, <3>1, <3>2
  <2>6. \A k \in DOMAIN planned' : DOMAIN planned'[k] = {"source", "dest", "action", "reason", "meta"}
    BY <1>5, <1>7
  <2>. QED BY <1>2, <2>1, <2>2, <2>3, <2>4, <2>5, <2>6 DEF PlannedOK
<1>12. RenamedOK'
  <2>1. \A pair \in rename_map' : /\ pair = <<pair[1], Transform(pair[1])'>>
                                  /\ pair[1] \in Wanted(Met)' /\ pair[2] # <<>>
    BY <1>1, <1>2, <1>10 DEF RenamedOK
  <2>2. \A p, q \in rename_map' : p[2] = q[2] => p = q
    BY <1>1, <1>2 DEF RenamedOK
  <2>3. \A k \in Taken' : <<planned[k].source, Transform(planned[k].source)>>' \in rename_map'
    <3>. SUFFICES ASSUME NEW k \in Taken'
                  PROVE  <<planned[k].source, Transform(planned[k].source)>>' \in rename_map'
      OBVIOUS
    <3>1. PICK t : t = planned[k].source
      OBVIOUS
    <3>2. Transform(t)' = Transform(t) /\ t = (planned[k].source)'
      BY <1>7, <1>8, <1>9, <1>10, <3>1
    <3>3. <<t, Transform(t)>> \in rename_map
      BY <1>1, <1>2, <1>8, <3>1 DEF RenamedOK
    <3>. QED BY <1>2, <3>2, <3>3
  <2>4. \A k \in Planned' : /\ planned'[k].dest = Transform(planned[k].source)'
                            /\ is_safe_member_path(planned'[k].dest)
    <3>. SUFFICES ASSUME NEW k \in Planned'
                  PROVE  /\ planned'[k].dest = Transform(planned[k].source)'
                         /\ is_safe_member_path(planned'[k].dest)
      OBVIOUS
    <3>1. k \in DOMAIN planned /\ planned'[k].action # "Skip"
      BY <1>5 DEF Planned
    <3>2. PICK t : t = planned'[k].source
      OBVIOUS
    <3>3. planned'[k].dest = Transform(t) /\ is_safe_member_path(planned'[k].dest)
      BY <1>7, <3>1, <3>2
    <3>4. Transform(t)' = Transform(t)
      BY <1>10
    <3>5. Transform(planned[k].source)' = Transform(t)'
      BY <3>2
    <3>. QED BY <3>3, <3>4, <3>5
  <2>. QED BY <1>2, <2>1, <2>2, <2>3, <2>4 DEF RenamedOK
<1>13. ListingOK'
  BY <1>1, <1>2, ListingKept
<1>14. TypeOK'
  <2>1. /\ backend' = backend /\ readable' = readable /\ archive' = archive
        /\ filter' = filter /\ rename' = rename /\ listing' = listing
        /\ cursor' = cursor /\ rename_map' = rename_map /\ seen_src' = seen_src
    BY <1>2 DEF inputs
  <2>2. \A k \in DOMAIN planned' :
          /\ planned'[k].action \in {"Skip", "Passthrough", "ConvertNested"}
          /\ planned'[k].reason \in Reasons
          /\ (planned'[k].action = "Skip") = (planned'[k].reason # "none")
    BY <1>5, <1>7
  <2>. QED BY <1>1, <1>2, <1>5, <2>1, <2>2 DEF TypeOK
<1>15. RefusedForNamesOnly'
  BY <1>2, NotRefused
<1>. QED BY <1>11, <1>12, <1>13, <1>14, <1>15 DEF IInv

\* the loops of execute leave the plan as it is
LEMMA StutterInv == IInv /\ UNCHANGED vars => IInv'
<1>. SUFFICES ASSUME IInv, UNCHANGED vars PROVE IInv'
  OBVIOUS
<1>1. TypeOK /\ ListingOK /\ PlannedOK /\ RenamedOK /\ RefusedForNamesOnly
  BY DEF IInv
<1>2. UNCHANGED <<pc, inputs, listing, cursor, seen_src, planned, rename_map>>
  BY DEF vars
<1>3. Scanned' = Scanned
  BY <1>2 DEF Scanned
<1>4. Met' = Met /\ \A entry : IsOfFile(entry)' <=> IsOfFile(entry)
  BY <1>2, <1>3, MetKept
<1>5. Wanted(Met)' = Wanted(Met) /\ \A path : Transform(path)' = Transform(path)
  <2>1. PICK M : M = Met
    OBVIOUS
  <2>2. Wanted(M)' = Wanted(M)
    BY <1>2, InputsKept
  <2>3. M = Met'
    BY <1>4, <2>1
  <2>. QED BY <1>2, <2>1, <2>2, <2>3, InputsKept
<1>6. Taken' = Taken /\ Planned' = Planned
  BY <1>2 DEF Taken, Planned
<1>7. TypeOK'
  BY <1>1, <1>2 DEF TypeOK, inputs
<1>8. ListingOK'
  <2>1. \A k \in DOMAIN listing : (EntryOK(listing[k]) /\ MetaOK(listing[k]))'
    <3>. SUFFICES ASSUME NEW k \in DOMAIN listing PROVE (EntryOK(listing[k]) /\ MetaOK(listing[k]))'
      OBVIOUS
    <3>1. PICK e : e = listing[k]
      OBVIOUS
    <3>2. EntryOK(e) /\ MetaOK(e)
      BY <1>1, <3>1 DEF ListingOK
    <3>3. MetaOK(e)'
      BY <1>2, <3>2, InputsKept
    <3>4. EntryOK(e)'
      BY <3>2 DEF EntryOK
    <3>5. e = (listing[k])'
      BY <1>2, <3>1
    <3>. QED BY <3>3, <3>4, <3>5
  <2>2. backend' = backend /\ archive' = archive /\ listing' = listing /\ pc' = pc
    BY <1>2 DEF inputs
  <2>. QED BY <1>1, <2>1, <2>2 DEF ListingOK
<1>9. PlannedOK'
  <2>1. \A k \in DOMAIN planned : IsOfFile(planned[k])'
    <3>. SUFFICES ASSUME NEW k \in DOMAIN planned PROVE IsOfFile(planned[k])'
      OBVIOUS
    <3>1. PICK e : e = planned[k]
      OBVIOUS
    <3>2. IsOfFile(e)'
      BY <1>1, <1>4, <3>1 DEF PlannedOK
    <3>3. e = (planned[k])'
      BY <1>2, <3>1
    <3>. QED BY <3>2, <3>3
  <2>2. {planned'[k].source : k \in Taken'} = Wanted(Met)'
    BY <1>1, <1>2, <1>5, <1>6 DEF PlannedOK
  <2>3. seen_src' = {path \in Met' : IsInside(path)}
    BY <1>1, <1>2, <1>4 DEF PlannedOK
  <2>4. IsSequence(planned)' /\ Len(planned') = Cardinality(Scanned')
    BY <1>1, <1>2, <1>3 DEF PlannedOK, IsSequence
  <2>5. \A j, k \in Taken' : planned'[j].source = planned'[k].source => j = k
    BY <1>1, <1>2, <1>6 DEF PlannedOK
  <2>6. \A k \in DOMAIN planned' :
          /\ DOMAIN planned'[k] = {"source", "dest", "action", "reason", "meta"}
          /\ pc' # "done" => planned'[k].reason # "unsafe destination"
    BY <1>1, <1>2 DEF PlannedOK
  <2>. QED BY <1>2, <2>1, <2>2, <2>3, <2>4, <2>5, <2>6 DEF PlannedOK
<1>10. RenamedOK'
  <2>1. \A pair \in rename_map' : /\ pair = <<pair[1], Transform(pair[1])'>>
                                  /\ pair[1] \in Wanted(Met)' /\ pair[2] # <<>>
    BY <1>1, <1>2, <1>5 DEF RenamedOK
  <2>2. \A p, q \in rename_map' : p[2] = q[2] => p = q
    BY <1>1, <1>2 DEF RenamedOK
  <2>3. \A k : Transform(planned[k].source)' = Transform(planned[k].source)
    <3>. SUFFICES ASSUME NEW k PROVE Transform(planned[k].source)' = Transform(planned[k].source)
      OBVIOUS
    <3>1. PICK t : t = planned[k].source
      OBVIOUS
    <3>2. Transform(t)' = Transform(t) /\ t = (planned[k].source)'
      BY <1>2, <1>5, <3>1
    <3>. QED BY <3>1, <3>2
  <2>4. \A k \in Taken' :
          pc' \in {"placing", "done"} \/ (pc' = "renaming" /\ k < cursor') =>
            <<planned[k].source, Transform(planned[k].source)>>' \in rename_map'
    <3>1. \A k \in Taken :
            pc \in {"placing", "done"} \/ (pc = "renaming" /\ k < cursor) =>
              <<planned[k].source, Transform(planned[k].source)>> \in rename_map
      BY <1>1 DEF RenamedOK
    <3>2. \A k : <<planned[k].source, Transform(planned[k].source)>>'
                   = <<planned[k].source, Transform(planned[k].source)>>
      BY <1>2, <2>3
    <3>. QED BY <1>2, <1>6, <3>1, <3>2
  <2>5. pc' = "done" => \A k \in Planned' : /\ planned'[k].dest = Transform(planned[k].source)'
                                            /\ is_safe_member_path(planned'[k].dest)
    BY <1>1, <1>2, <1>6, <2>3 DEF RenamedOK
  <2>6. pc' \in {"listing", "scanning"} => rename_map' = {}
    BY <1>1, <1>2 DEF RenamedOK
  <2>. QED BY <2>1, <2>2, <2>4, <2>5, <2>6 DEF RenamedOK
<1>11. RefusedForNamesOnly'
  <2>1. CASE pc = "failed" /\ listing # <<>>
    <3>1. Met = {normalize_member_path(listing[k].path) :
                   k \in {i \in DOMAIN listing : ~listing[i].is_dir}}
      <4>1. Scanned = {i \in DOMAIN listing : ~listing[i].is_dir}
        BY <2>1 DEF Scanned
      <4>. QED BY <4>1, Zenon DEF Met
    <3>2. \E p, q \in Wanted(Met) : Transform(p) = <<>> \/ (p # q /\ Transform(p) = Transform(q))
      BY <1>1, <2>1, <3>1, Zenon DEF RefusedForNamesOnly
    <3>3. Refusable'
      BY <1>5, <3>2 DEF Refusable
    <3>4. RightlyRefused'
      BY <1>2, <2>1, <3>3 DEF RightlyRefused
    <3>. QED BY <3>4, RefusableNext
  <2>2. CASE ~ (pc = "failed" /\ listing # <<>>)
    BY <1>2, <2>2 DEF RefusedForNamesOnly
  <2>. QED BY <2>1, <2>2
<1>. QED BY <1>7, <1>8, <1>9, <1>10, <1>11 DEF IInv

\* every step of build_plan keeps the invariant
LEMMA BuildInv == IInv /\ Build => IInv'
BY ListInv, ListFailsInv, ScanDirectoryInv, ScanRefusedInv, ScanFileInv, ScanDoneInv,
   RenameSkippedInv, RenameKeptInv, RenameFailsInv, RenameDoneInv, PlaceInv, Zenon DEF Build

\* The invariant of build_plan: the listing, the plan and the map of new names agree in
\* every state of the job (src/pipeline/mod.rs, src/filter/rename.rs).
THEOREM PlanInvariant == StagingSpec => []IInv
<1>1. StagingInit => IInv
  BY InitInv DEF StagingInit
<1>2. IInv /\ Build => IInv'
  BY BuildInv
<1>3. ASSUME [StagingNext]_allVars PROVE Build \/ UNCHANGED vars
  <2>1. CASE StagingNext
    BY <2>1 DEF StagingNext, Planning, NoBulk, BulkExtract, BulkExtractFails,
                PassthroughFromBulk, PassthroughAlone, NestedFromBulk, NestedAlone,
                SkipMember, PassOver, LoopDone, Staged, allVars
  <2>2. CASE UNCHANGED allVars
    BY <2>2 DEF allVars
  <2>. QED BY <1>3, <2>1, <2>2
<1>4. IInv /\ [StagingNext]_allVars => IInv'
  BY <1>2, <1>3, StutterInv
<1>. QED BY <1>1, <1>4, PTL DEF StagingSpec

\* An entry of the plan has a reason exactly when it is skipped, and the loops of build_plan
\* stay inside their lists.
THEOREM PlanTypes == StagingSpec => []TypeOK
<1>1. IInv => TypeOK
  BY DEF IInv
<1>. QED BY <1>1, PlanInvariant, PTL

\* build_plan refuses a listed archive only when two members it would write get one name, or
\* one of them gets none (transform_all's Error::NameCollision).
THEOREM RefusedForNames == StagingSpec => []RefusedForNamesOnly
<1>1. IInv => RefusedForNamesOnly
  BY DEF IInv
<1>. QED BY <1>1, PlanInvariant, PTL

\* what an entry that is executed is
LEMMA PlannedEntry ==
  ASSUME IInv, NEW k \in Planned
  PROVE  /\ k \in DOMAIN planned /\ k \in Taken
         /\ IsSequence(planned[k].source) /\ normalize_member_path(planned[k].source) = planned[k].source
         /\ planned[k].source \in Wanted(Met)
<1>1. k \in DOMAIN planned /\ planned[k].action # "Skip"
  BY Zenon DEF Planned
<1>2. planned[k].reason = "none"
  BY <1>1 DEF IInv, TypeOK
<1>3. k \in Taken
  BY <1>1, <1>2 DEF Taken
<1>4. PICK e : e = planned[k]
  OBVIOUS
<1>5. IsOfFile(e)
  BY <1>1, <1>4 DEF IInv, PlannedOK
<1>6. PICK i \in Scanned : e.source = normalize_member_path(listing[i].path)
  BY <1>5 DEF IsOfFile
<1>7. i \in DOMAIN listing
  BY <1>6, Zenon DEF Scanned
<1>8. IsSequence(e.source) /\ normalize_member_path(e.source) = e.source
  BY <1>6, <1>7, SourceIsNormal DEF IInv
<1>. QED BY <1>1, <1>3, <1>4, <1>8, TakenEntry

\* No two entries that are executed write to one place, and every place is inside the output
\* and in normal form (transform_all, is_safe_member_path).
THEOREM DestinationsAreDistinct == StagingSpec => []DestinationsDistinct
<1>1. IInv => DestinationsDistinct
  <2>. SUFFICES ASSUME IInv, pc = "done", NEW j \in Planned, NEW k \in Planned
                PROVE  /\ planned[j].dest = planned[k].dest => j = k
                       /\ planned[j].dest # <<>> /\ Head(planned[j].dest) # Drive
                       /\ DotDot \notin ToSet(planned[j].dest)
                       /\ ~HidesDot(Renamed(planned[j].source))
                            => normalize_member_path(planned[j].dest) = planned[j].dest
    BY Zenon DEF DestinationsDistinct
  <2>1. PICK s, t : s = planned[j].source /\ t = planned[k].source
    OBVIOUS
  <2>2. /\ j \in Taken /\ k \in Taken /\ IsSequence(s)
    BY <2>1, PlannedEntry
  <2>3. /\ planned[j].dest = Transform(s) /\ is_safe_member_path(planned[j].dest)
        /\ planned[k].dest = Transform(t)
    BY <2>1 DEF IInv, RenamedOK
  <2>4. <<s, Transform(s)>> \in rename_map /\ <<t, Transform(t)>> \in rename_map
    BY <2>1, <2>2 DEF IInv, RenamedOK
  <2>5. planned[j].dest = planned[k].dest => j = k
    <3>. SUFFICES ASSUME planned[j].dest = planned[k].dest PROVE j = k
      OBVIOUS
    <3>1. PICK p, q : p = <<s, Transform(s)>> /\ q = <<t, Transform(t)>>
      OBVIOUS
    <3>2. p \in rename_map /\ q \in rename_map /\ p[2] = q[2] /\ p[1] = s /\ q[1] = t
      BY <2>3, <2>4, <3>1
    <3>3. p = q
      BY <3>2 DEF IInv, RenamedOK
    <3>4. s = t
      BY <3>2, <3>3
    <3>. QED BY <2>1, <2>2, <3>4 DEF IInv, PlannedOK
  <2>6. IsSequence(Renamed(s)) /\ IsSequence(Transform(s))
    BY <2>2, RenamedTypes, InputTypes DEF IInv
  <2>7. IsInside(planned[j].dest)
    BY <2>3, <2>6, SafePaths
  <2>8. ~HidesDot(Renamed(s)) => normalize_member_path(Transform(s)) = Transform(s)
    BY <2>6, NormalPath, Zenon DEF Transform
  <2>. QED BY <2>1, <2>3, <2>5, <2>7, <2>8 DEF IsInside
<1>. QED BY <1>1, PlanInvariant, PTL

\* The plan made from the native listing has one entry for each file of the archive, and takes
\* each wanted path exactly once (build_plan's first loop).
THEOREM PlanIsTheArchive == StagingSpec => []PlanIsTheFilteredArchive
<1>1. IInv => PlanIsTheFilteredArchive
  <2>. SUFFICES ASSUME IInv, pc = "done", backend = "native"
                PROVE  /\ Len(planned) = Cardinality(Files)
                       /\ {planned[k].source : k \in Taken} = Wanted(Sources)
                       /\ Cardinality(Taken) = Cardinality(Wanted(Sources))
    BY Zenon DEF PlanIsTheFilteredArchive, Taken
  <2>1. /\ DOMAIN listing = DOMAIN archive
        /\ \A k \in DOMAIN listing : /\ listing[k].path = normalize_member_path(archive[k].path)
                                     /\ listing[k].is_dir = archive[k].is_dir
    BY DEF IInv, ListingOK
  <2>2. Scanned = Files
    BY <2>1 DEF Scanned, Files
  <2>3. Met = Sources
    <3>1. \A k \in Files : k \in DOMAIN archive
      BY Zenon DEF Files
    <3>2. \A k \in Files : listing[k].path = normalize_member_path(archive[k].path)
      BY <2>1, <3>1
    <3>3. \A p : p \in Met <=> \E k \in Files : p = normalize_member_path(listing[k].path)
      BY <2>2 DEF Met
    <3>4. \A p : p \in Sources <=> \E k \in Files : p = normalize_member_path(normalize_member_path(archive[k].path))
      BY DEF Sources, Stored
    <3>. QED BY <3>2, <3>3, <3>4
  <2>4. {planned[k].source : k \in Taken} = Wanted(Sources) /\ Len(planned) = Cardinality(Files)
    BY <2>2, <2>3 DEF IInv, PlannedOK
  <2>5. IsFiniteSet(Taken)
    <3>1. IsSequence(planned)
      BY DEF IInv, PlannedOK
    <3>2. Taken \subseteq DOMAIN planned
      BY Zenon DEF Taken
    <3>. QED BY <3>1, <3>2, ScannedFinite
  <2>6. PICK W, f : W = Wanted(Sources) /\ f = [k \in Taken |-> planned[k].source]
    OBVIOUS
  <2>7. f \in Surjection(Taken, W)
    <3>1. f \in [Taken -> W]
      BY <2>4, <2>6
    <3>2. \A w \in W : \E k \in Taken : f[k] = w
      BY <2>4, <2>6
    <3>. QED BY <3>1, <3>2 DEF Surjection
  <2>8. f \in Injection(Taken, W)
    <3>1. f \in [Taken -> W]
      BY <2>4, <2>6
    <3>2. \A j, k \in Taken : f[j] = f[k] => j = k
      BY <2>6 DEF IInv, PlannedOK
    <3>. QED BY <3>1, <3>2 DEF Injection, IsInjective
  <2>9. Cardinality(W) = Cardinality(Taken)
    BY <2>5, <2>7, <2>8, FS_Surjection
  <2>. QED BY <2>4, <2>6, <2>9
<1>. QED BY <1>1, PlanInvariant, PTL

-----------------------------------------------------------------------------
(* The staging: what an appended entry has.                                *)

\* the body of MetaGoesWithBytes
Goes(entry) ==
    readable /\ OneStep /\ NoDirectoryAt(entry.source) /\ Len(entry.from) = 1
      /\ (IF backend = "native" /\ bulk THEN TRUE
          ELSE OneSpelling(entry.source) /\ StoredAs(entry.source) # {})
    => LET k == entry.from[1]
       IN  /\ archive[k].dated => entry.meta.time = {k}
           /\ entry.meta.attrs = {k}

\* MetaGoesWithBytes says it of each appended entry
LEMMA AllGo == MetaGoesWithBytes <=> \A entry \in ToSet(appended) : Goes(entry)
BY Zenon DEF MetaGoesWithBytes, Goes

LEMMA AllGoNext == MetaGoesWithBytes' <=> \A entry \in ToSet(appended') : Goes(entry)'
BY Zenon DEF MetaGoesWithBytes, Goes

\* what the loops leave alone
LEMMA ArchiveKept ==
  ASSUME UNCHANGED vars
  PROVE  /\ Planned' = Planned /\ Files' = Files /\ (OneStep' <=> OneStep)
         /\ \A path : MembersOf(path)' = MembersOf(path)
         /\ \A path : OneSpelling(path)' <=> OneSpelling(path)
         /\ \A path : NoDirectoryAt(path)' <=> NoDirectoryAt(path)
         /\ \A path : StoredAs(path)' = StoredAs(path)
         /\ \A k, path : IsLast(k, path)' <=> IsLast(k, path)
<1>1. archive' = archive /\ planned' = planned
  BY DEF vars, inputs
<1>2. Planned' = Planned /\ Files' = Files
  BY <1>1, Zenon DEF Planned, Files
<1>3. OneStep' <=> OneStep
  BY <1>1, <1>2, Zenon DEF OneStep
<1>4. \A path : MembersOf(path)' = MembersOf(path)
  BY <1>1, <1>2, Zenon DEF MembersOf
<1>5. \A path : OneSpelling(path)' <=> OneSpelling(path)
  BY <1>1, <1>4, Zenon DEF OneSpelling
<1>6. \A path : NoDirectoryAt(path)' <=> NoDirectoryAt(path)
  BY <1>1, <1>2, Zenon DEF NoDirectoryAt
<1>7. \A path : StoredAs(path)' = StoredAs(path)
  BY <1>1, <1>2, Zenon DEF StoredAs
<1>8. \A k, path : IsLast(k, path)' <=> IsLast(k, path)
  BY <1>4, Zenon DEF IsLast
<1>. QED BY <1>2, <1>3, <1>4, <1>5, <1>6, <1>7, <1>8

\* nor does what is said of an entry that was appended change
LEMMA GoesKept ==
  ASSUME UNCHANGED <<vars, bulk>>
  PROVE  \A entry : Goes(entry)' <=> Goes(entry)
<1>1. archive' = archive /\ readable' = readable /\ backend' = backend /\ bulk' = bulk
  BY DEF vars, inputs
<1>2. UNCHANGED vars
  OBVIOUS
<1>3. /\ OneStep' <=> OneStep
      /\ \A path : OneSpelling(path)' <=> OneSpelling(path)
      /\ \A path : NoDirectoryAt(path)' <=> NoDirectoryAt(path)
      /\ \A path : StoredAs(path)' = StoredAs(path)
  BY <1>2, ArchiveKept
<1>. QED BY <1>1, <1>3 DEF Goes

\* the archive as the readers see it
LEMMA ArchiveFacts ==
  ASSUME IInv
  PROVE  /\ DOMAIN archive = 1 .. Len(archive) /\ Len(archive) \in Nat /\ IsFiniteSet(DOMAIN archive)
         /\ \A k \in Files : k \in DOMAIN archive /\ k \in Nat
         /\ \A k \in DOMAIN archive : IsSequence(archive[k].path)
         /\ OneStep => \A k \in Files :
              normalize_member_path(normalize_member_path(archive[k].path)) = normalize_member_path(archive[k].path)
<1>1. GoodArchive(archive)
  BY InputTypes DEF IInv
<1>2. IsSequence(archive) /\ \A k \in DOMAIN archive : IsSequence(archive[k].path)
  BY <1>1 DEF GoodArchive
<1>3. DOMAIN archive = 1 .. Len(archive) /\ Len(archive) \in Nat
  BY <1>2, SequenceFacts
<1>4. \A k \in Files : k \in DOMAIN archive /\ k \in Nat
  <2>1. \A k \in Files : k \in DOMAIN archive
    BY Zenon DEF Files
  <2>. QED BY <1>3, <2>1
<1>5. ASSUME OneStep, NEW k \in Files
      PROVE  normalize_member_path(normalize_member_path(archive[k].path)) = normalize_member_path(archive[k].path)
  <2>1. ~HidesDot(archive[k].path) /\ IsSequence(archive[k].path)
    BY <1>2, <1>4, <1>5 DEF OneStep
  <2>. QED BY <2>1, NormalPath
<1>6. IsFiniteSet(DOMAIN archive)
  <2>1. DOMAIN archive \subseteq DOMAIN archive
    OBVIOUS
  <2>. QED BY <1>2, <2>1, ScannedFinite
<1>. QED BY <1>2, <1>3, <1>4, <1>5, <1>6

\* the greatest of some members
LEMMA LastIsMax ==
  ASSUME IInv, NEW S, S \subseteq DOMAIN archive, NEW m \in S, \A j \in S : j <= m
  PROVE  Max(S) = m
<1>1. S \subseteq Nat /\ S # {} /\ Len(archive) \in Nat /\ \A y \in S : y <= Len(archive)
  BY ArchiveFacts
<1>2. Max(S) \in S /\ \A y \in S : Max(S) >= y
  BY <1>1, MaxIsGreatest
<1>. QED BY <1>1, <1>2

\* a path that some file has, has a last one
LEMMA LastExists ==
  ASSUME IInv, NEW path, MembersOf(path) # {}
  PROVE  IsLast(Max(MembersOf(path)), path)
<1>0. \A k \in MembersOf(path) : k \in Files
  BY Zenon DEF MembersOf
<1>1. MembersOf(path) \subseteq Nat /\ Len(archive) \in Nat /\ \A y \in MembersOf(path) : y <= Len(archive)
  BY <1>0, ArchiveFacts
<1>2. PICK S, m : S = MembersOf(path) /\ m = Max(S)
  OBVIOUS
<1>3. m \in S /\ \A y \in S : m >= y
  BY <1>1, <1>2, MaxIsGreatest
<1>4. \A y \in S : y <= m
  BY <1>1, <1>2, <1>3
<1>. QED BY <1>2, <1>3, <1>4 DEF IsLast

\* there is one last member of a path
LEMMA LastOfPath ==
  ASSUME IInv, NEW path, NEW m, IsLast(m, path)
  PROVE  Max(MembersOf(path)) = m
<1>0. \A k \in MembersOf(path) : k \in Files
  BY Zenon DEF MembersOf
<1>1. MembersOf(path) \subseteq DOMAIN archive
  BY <1>0, ArchiveFacts
<1>. QED BY <1>1, LastIsMax DEF IsLast

\* the metadata of a planned entry
LEMMA PlannedMeta ==
  ASSUME IInv, NEW k \in Planned, NEW s, s = planned[k].source,
         readable, OneStep, NoDirectoryAt(s), NEW m, IsLast(m, s)
  PROVE  /\ DOMAIN planned[k].meta = {"time", "attrs"}
         /\ planned[k].meta.attrs = {m}
         /\ archive[m].dated => planned[k].meta.time = {m}
<1>1. k \in DOMAIN planned
  BY PlannedEntry
<1>2. PICK e : e = planned[k]
  OBVIOUS
<1>3. IsOfFile(e)
  BY <1>1, <1>2 DEF IInv, PlannedOK
<1>4. PICK i \in Scanned : e.source = normalize_member_path(listing[i].path) /\ e.meta = listing[i].meta
  BY <1>3, Zenon DEF IsOfFile
<1>5. i \in DOMAIN listing
  BY <1>4, Zenon DEF Scanned
<1>6. PICK d : d = listing[i]
  OBVIOUS
<1>7. EntryOK(d) /\ MetaOK(d)
  BY <1>5, <1>6 DEF IInv, ListingOK
<1>8. s = normalize_member_path(d.path) /\ e.meta = d.meta /\ e.source = s
  BY <1>2, <1>4, <1>6
<1>9. \A j : j \in Alike(d.path) <=> j \in MembersOf(s)
  <2>1. \A j : j \in Alike(d.path) <=>
                 j \in DOMAIN archive /\ normalize_member_path(normalize_member_path(archive[j].path)) = s
    BY <1>8, Zenon DEF Alike
  <2>2. \A j : j \in MembersOf(s) <=> j \in Files /\ normalize_member_path(archive[j].path) = s
    BY Zenon DEF MembersOf
  <2>3. \A j \in DOMAIN archive \ Files : normalize_member_path(normalize_member_path(archive[j].path)) # s
    BY Zenon DEF NoDirectoryAt
  <2>4. \A j \in Files : j \in DOMAIN archive /\ normalize_member_path(normalize_member_path(archive[j].path))
                                                  = normalize_member_path(archive[j].path)
    BY ArchiveFacts
  <2>. QED BY <2>1, <2>2, <2>3, <2>4
<1>10. Alike(d.path) # {} /\ Max(Alike(d.path)) = m
  <2>1. PICK A : A = Alike(d.path)
    OBVIOUS
  <2>2. m \in A /\ \A j \in A : j <= m
    BY <1>9, <2>1 DEF IsLast
  <2>3. A \subseteq DOMAIN archive
    BY <2>1 DEF Alike
  <2>4. Max(A) = m
    BY <2>2, <2>3, LastIsMax
  <2>. QED BY <2>1, <2>2, <2>4
<1>11. d.meta.attrs = {m} /\ (archive[m].dated => d.meta.time = {m})
  BY <1>7, <1>10, Zenon DEF MetaOK
<1>12. DOMAIN d.meta = {"time", "attrs"}
  BY <1>7 DEF EntryOK
<1>. QED BY <1>2, <1>8, <1>11, <1>12

\* the members that have the source path of a planned entry as their path
LEMMA NativeSource ==
  ASSUME IInv, pc = "done", backend = "native", OneStep, NEW k \in Planned
  PROVE  MembersOf(planned[k].source) # {}
<1>1. k \in DOMAIN planned
  BY PlannedEntry
<1>2. PICK e : e = planned[k]
  OBVIOUS
<1>3. IsOfFile(e)
  BY <1>1, <1>2 DEF IInv, PlannedOK
<1>4. PICK i \in Scanned : e.source = normalize_member_path(listing[i].path)
  BY <1>3, Zenon DEF IsOfFile
<1>5. i \in DOMAIN listing /\ ~listing[i].is_dir
  BY <1>4, Zenon DEF Scanned
<1>6. i \in DOMAIN archive /\ listing[i].path = normalize_member_path(archive[i].path)
      /\ listing[i].is_dir = archive[i].is_dir
  BY <1>5 DEF IInv, ListingOK
<1>7. i \in Files
  BY <1>5, <1>6 DEF Files
<1>8. e.source = normalize_member_path(archive[i].path)
  BY <1>4, <1>6, <1>7, ArchiveFacts
<1>9. i \in MembersOf(e.source)
  BY <1>7, <1>8 DEF MembersOf
<1>. QED BY <1>2, <1>9

\* nothing was staged
Unstaged ==
  /\ stage = "planning" /\ ~bulk /\ bulk \in BOOLEAN /\ extracted = {} /\ at = 1 /\ appended = <<>>
  /\ settings \in Settings /\ IInv

\* what is to be staged is not there yet
LEMMA NoneYet == Unstaged => SInv
<1>. SUFFICES ASSUME Unstaged PROVE SInv
  OBVIOUS
<1>1. /\ stage = "planning" /\ ~bulk /\ bulk \in BOOLEAN /\ extracted = {} /\ at = 1 /\ appended = <<>>
      /\ settings \in Settings /\ IInv
  BY DEF Unstaged
<1>2. ToSet(appended) = {} /\ IsSequence(appended) /\ DOMAIN appended = {}
  BY <1>1, EmptyFacts DEF ToSet
<1>3. Len(planned) \in Nat
  BY <1>1, SequenceFacts DEF IInv, PlannedOK
<1>4. 1 \in 1 .. Len(planned) + 1
  BY <1>3
<1>5. StagingTypeOK
  BY <1>1, <1>2, <1>4 DEF StagingTypeOK, IInv
<1>6. StageOK
  BY <1>1, <1>2 DEF StageOK
<1>7. ExtractedOK
  BY <1>1, FS_EmptySet DEF ExtractedOK
<1>8. MetaGoesWithBytes
  BY <1>2, AllGo
<1>9. StagedSoFar
  BY <1>1 DEF StagedSoFar
<1>. QED BY <1>1, <1>5, <1>6, <1>7, <1>8, <1>9 DEF SInv

LEMMA NoneYetNext == Unstaged' => SInv'
BY NoneYet, PTL

\* nothing is staged while the plan is made
LEMMA PlanningInv == SInv /\ Planning => SInv'
<1>. SUFFICES ASSUME SInv, Planning PROVE SInv'
  OBVIOUS
<1>1. Build /\ UNCHANGED staging
  BY DEF Planning
<1>2. IInv /\ IInv'
  BY <1>1, BuildInv DEF SInv
<1>3. pc # "done"
  BY <1>1 DEF Build, List, ListFails, ScanDirectory, ScanRefused, ScanFile, ScanDone, Scanning,
               RenameSkipped, RenameKept, RenameFails, RenameDone, Renaming, Place
<1>4. stage = "planning" /\ ~bulk /\ extracted = {} /\ at = 1 /\ appended = <<>>
  BY <1>3 DEF SInv, StageOK
<1>5. settings \in Settings /\ bulk \in BOOLEAN
  BY DEF SInv, StagingTypeOK
<1>6. Unstaged'
  BY <1>1, <1>2, <1>4, <1>5 DEF staging, Unstaged
<1>. QED BY <1>6, NoneYetNext

\* the bytes and metadata stay the same, and so does what the loops have passed
LEMMA Passed ==
  ASSUME SInv, UNCHANGED <<vars, settings, bulk, extracted, appended>>, stage # "planning",
         stage' \in {"passthrough", "nested", "staged"}, at' \in 1 .. Len(planned) + 1,
         \A k \in Planned : Behind(k)' <=> Behind(k)
  PROVE  SInv'
<1>1. /\ UNCHANGED vars /\ pc' = pc /\ planned' = planned /\ archive' = archive /\ backend' = backend
      /\ bulk' = bulk /\ extracted' = extracted /\ appended' = appended /\ settings' = settings
  BY DEF vars, inputs
<1>2. /\ Planned' = Planned /\ Files' = Files /\ (OneStep' <=> OneStep)
      /\ \A path : MembersOf(path)' = MembersOf(path)
      /\ \A path : OneSpelling(path)' <=> OneSpelling(path)
      /\ \A path : StoredAs(path)' = StoredAs(path)
      /\ \A k, path : IsLast(k, path)' <=> IsLast(k, path)
  BY <1>1, ArchiveKept
<1>3. pc = "done"
  BY DEF SInv, StageOK
<1>4. IInv'
  BY <1>1, StutterInv DEF SInv
<1>5. StagingTypeOK'
  <2>1. TypeOK'
    BY <1>4 DEF IInv
  <2>2. /\ settings' \in Settings /\ bulk' \in BOOLEAN
        /\ \A f \in extracted' : f.from \in Files' /\ f.time \in {MadeUp, {f.from}}
        /\ \A f, g \in extracted' : f.path = g.path => f = g
        /\ \A entry \in ToSet(appended') :
             \E k \in Planned' : entry.source = planned'[k].source /\ entry.dest = planned'[k].dest
        /\ \A i, j \in DOMAIN appended' : appended'[i].source = appended'[j].source => i = j
    BY <1>1, <1>2 DEF SInv, StagingTypeOK
  <2>. QED BY <1>1, <2>1, <2>2 DEF StagingTypeOK
<1>6. StageOK'
  <2>1. \A entry \in ToSet(appended') :
          \E k \in Planned' : /\ Behind(k)'
                              /\ entry.source = planned'[k].source /\ entry.dest = planned'[k].dest
    <3>. SUFFICES ASSUME NEW entry \in ToSet(appended)
                  PROVE  \E k \in Planned' : /\ Behind(k)'
                              /\ entry.source = planned'[k].source /\ entry.dest = planned'[k].dest
      BY <1>1
    <3>1. PICK k \in Planned : /\ Behind(k)
                               /\ entry.source = planned[k].source /\ entry.dest = planned[k].dest
      BY DEF SInv, StageOK
    <3>2. Behind(k)'
      BY <3>1
    <3>. QED BY <1>1, <1>2, <3>1, <3>2
  <2>2. IsSequence(appended)'
    BY <1>1 DEF SInv, StageOK, IsSequence
  <2>. QED BY <1>1, <1>3, <2>1, <2>2 DEF StageOK
<1>7. ExtractedOK'
  <2>1. \A f \in extracted' :
          backend' = "native" \/ (normalize_member_path(f.path) = f.path /\ OneSpelling(f.path)')
            => IsLast(f.from, f.path)'
    BY <1>1, <1>2 DEF SInv, ExtractedOK
  <2>2. bulk' => \A k \in Planned' : 
         \/ Behind(k)'
         \/ /\ backend' = "native" /\ OneStep' => Held(planned[k].source)'
            /\ /\ backend' = "cli" /\ OneSpelling(planned[k].source)'
               /\ StoredAs(planned[k].source)' # {}
               => \/ Held(planned[k].source)'
                  \/ \A f \in extracted' : Last(f.path) # Last(planned'[k].source)
    <3>. SUFFICES ASSUME bulk, NEW k \in Planned, ~Behind(k)
                  PROVE
            /\ backend' = "native" /\ OneStep' => Held(planned[k].source)'
            /\ /\ backend' = "cli" /\ OneSpelling(planned[k].source)'
               /\ StoredAs(planned[k].source)' # {}
               => \/ Held(planned[k].source)'
                  \/ \A f \in extracted' : Last(f.path) # Last(planned'[k].source)
      BY <1>1, <1>2
    <3>1. PICK s : s = planned[k].source /\ s = planned'[k].source
      BY <1>1
    <3>2. /\ backend = "native" /\ OneStep => Held(s)
          /\ /\ backend = "cli" /\ OneSpelling(s) /\ StoredAs(s) # {}
             => \/ Held(s)
                \/ \A f \in extracted : Last(f.path) # Last(s)
      BY <3>1 DEF SInv, ExtractedOK
    <3>3. Held(s)' <=> Held(s)
      BY <1>1 DEF Held
    <3>4. /\ backend' = "native" /\ OneStep' => Held(s)'
          /\ /\ backend' = "cli" /\ OneSpelling(s)' /\ StoredAs(s)' # {}
             => \/ Held(s)'
                \/ \A f \in extracted' : Last(f.path) # Last(s)
      BY <1>1, <1>2, <3>2, <3>3
    <3>. QED BY <3>1, <3>4
  <2>3. IsFiniteSet(extracted')
    BY <1>1 DEF SInv, ExtractedOK
  <2>. QED BY <2>1, <2>2, <2>3 DEF ExtractedOK
<1>8. MetaGoesWithBytes'
  <2>1. \A entry \in ToSet(appended) : Goes(entry)
    BY AllGo DEF SInv
  <2>2. \A entry : Goes(entry)' <=> Goes(entry)
    BY <1>1, GoesKept
  <2>3. \A entry \in ToSet(appended') : Goes(entry)'
    BY <1>1, <2>1, <2>2
  <2>. QED BY <2>3, AllGoNext
<1>9. StagedSoFar'
  <2>. SUFFICES ASSUME backend' = "native", OneStep', NEW k \in Planned',
                       Behind(k)', bulk' \/ OneSpelling(planned[k].source)'
                PROVE  \E entry \in ToSet(appended') :
                         /\ entry.dest = planned'[k].dest
                         /\ entry.from = <<Max(MembersOf(planned[k].source)')>>
    BY Zenon DEF StagedSoFar
  <2>1. PICK s : s = planned[k].source /\ s = planned'[k].source
    BY <1>1
  <2>2. OneSpelling(planned[k].source)' <=> OneSpelling(s)
    <3>1. OneSpelling(planned[k].source)' <=> OneSpelling(s)'
      BY <2>1
    <3>. QED BY <1>2, <3>1
  <2>3. MembersOf(planned[k].source)' = MembersOf(s)
    <3>1. MembersOf(planned[k].source)' = MembersOf(s)'
      BY <2>1
    <3>. QED BY <1>2, <3>1
  <2>4. k \in Planned /\ Behind(k) /\ (bulk \/ OneSpelling(s))
    BY <1>1, <1>2, <2>2
  <2>5. \E entry \in ToSet(appended) : /\ entry.dest = planned[k].dest
                                       /\ entry.from = <<Max(MembersOf(s))>>
    BY <1>1, <1>2, <2>1, <2>4 DEF SInv, StagedSoFar
  <2>. QED BY <1>1, <2>3, <2>5
<1>. QED BY <1>4, <1>5, <1>6, <1>7, <1>8, <1>9 DEF SInv

-----------------------------------------------------------------------------
(* The loops start and end.                                                *)

\* the plan is a sequence, and what is executed is a copy or a conversion
LEMMA PlanIsSequence ==
  ASSUME IInv
  PROVE  /\ DOMAIN planned = 1 .. Len(planned) /\ Len(planned) \in Nat
         /\ \A k \in Planned : /\ k \in 1 .. Len(planned) /\ ~ (k < 1)
                               /\ planned[k].action \in {"Passthrough", "ConvertNested"}
         /\ 1 \in 1 .. Len(planned) + 1
<1>1. DOMAIN planned = 1 .. Len(planned) /\ Len(planned) \in Nat
  BY SequenceFacts DEF IInv, PlannedOK
<1>2. \A k \in Planned : k \in DOMAIN planned /\ planned[k].action # "Skip"
  BY Zenon DEF Planned
<1>3. \A k \in DOMAIN planned : planned[k].action \in {"Skip", "Passthrough", "ConvertNested"}
  BY DEF IInv, TypeOK
<1>. QED BY <1>1, <1>2, <1>3

\* an entry of the other kind is passed by
LEMMA PassOverInv == SInv /\ PassOver => SInv'
<1>. SUFFICES ASSUME SInv, PassOver PROVE SInv'
  OBVIOUS
<1>1. UNCHANGED <<vars, settings, stage, bulk, extracted, appended>>
  BY DEF PassOver
<1>2. /\ stage \in {"passthrough", "nested"} /\ at <= Len(planned) /\ at' = at + 1
      /\ stage = "passthrough" => planned[at].action \in {"Skip", "ConvertNested"}
      /\ stage = "nested" => planned[at].action \in {"Skip", "Passthrough"}
  BY DEF PassOver, AtEntry
<1>3. IInv /\ at \in 1 .. Len(planned) + 1
  BY DEF SInv, StagingTypeOK
<1>4. at' \in 1 .. Len(planned) + 1 /\ at \in Nat
  BY <1>2, <1>3, PlanIsSequence
<1>5. ASSUME NEW k \in Planned PROVE Behind(k)' <=> Behind(k)
  <2>1. k \in Nat /\ (k < at + 1 <=> k < at \/ k = at)
    BY <1>3, <1>4, PlanIsSequence
  <2>2. planned[k].action # "Skip" /\ planned' = planned
    BY <1>1, <1>3, PlanIsSequence DEF vars
  <2>. QED BY <1>1, <1>2, <2>1, <2>2 DEF Behind
<1>. QED BY <1>1, <1>2, <1>4, <1>5, Passed

\* a loop that ends has passed all entries of its kind
LEMMA LoopDoneInv == SInv /\ LoopDone => SInv'
<1>. SUFFICES ASSUME SInv, LoopDone PROVE SInv'
  OBVIOUS
<1>1. /\ stage \in {"passthrough", "nested"} /\ at > Len(planned) /\ at' = 1
      /\ stage' = IF stage = "passthrough" THEN "nested" ELSE "staged"
      /\ UNCHANGED <<vars, settings, bulk, extracted, appended>>
  BY DEF LoopDone
<1>2. IInv /\ at \in 1 .. Len(planned) + 1
  BY DEF SInv, StagingTypeOK
<1>3. at' \in 1 .. Len(planned) + 1
  BY <1>1, <1>2, PlanIsSequence
<1>4. ASSUME NEW k \in Planned PROVE Behind(k)' <=> Behind(k)
  <2>1. k < at /\ ~ (k < 1)
    BY <1>1, <1>2, PlanIsSequence
  <2>2. planned' = planned
    BY <1>1 DEF vars
  <2>. QED BY <1>1, <2>1, <2>2 DEF Behind
<1>. QED BY <1>1, <1>3, <1>4, Passed

\* the loops begin
Started ==
  /\ IInv /\ pc = "done" /\ settings \in Settings /\ stage = "passthrough" /\ at = 1 /\ appended = <<>>
  /\ bulk \in BOOLEAN
  /\ \A f \in extracted : f.from \in Files /\ f.time \in {MadeUp, {f.from}}
  /\ \A f, g \in extracted : f.path = g.path => f = g
  /\ IsFiniteSet(extracted)
  /\ \A f \in extracted :
       backend = "native" \/ (normalize_member_path(f.path) = f.path /\ OneSpelling(f.path))
         => IsLast(f.from, f.path)
  /\ bulk => \A k \in Planned :
       /\ backend = "native" /\ OneStep => Held(planned[k].source)
       /\ backend = "cli" /\ OneSpelling(planned[k].source) /\ StoredAs(planned[k].source) # {}
            => Held(planned[k].source)

\* the loops begin in the invariant
LEMMA StartedOK == Started => SInv
<1>. SUFFICES ASSUME Started PROVE SInv
  OBVIOUS
<1>1. /\ IInv /\ pc = "done" /\ settings \in Settings /\ stage = "passthrough" /\ at = 1 /\ appended = <<>>
  BY DEF Started
<1>2. ToSet(appended) = {} /\ IsSequence(appended) /\ DOMAIN appended = {}
  BY <1>1, EmptyFacts DEF ToSet
<1>3. \A k \in Planned : ~Behind(k)
  BY <1>1, PlanIsSequence DEF Behind
<1>4. StagingTypeOK
  <2>1. 1 \in 1 .. Len(planned) + 1
    BY <1>1, PlanIsSequence
  <2>. QED BY <1>1, <1>2, <2>1 DEF StagingTypeOK, IInv, Started
<1>5. StageOK
  BY <1>1, <1>2 DEF StageOK
<1>6. ExtractedOK
  BY DEF ExtractedOK, Started
<1>7. MetaGoesWithBytes
  BY <1>2, AllGo
<1>8. StagedSoFar
  BY <1>3 DEF StagedSoFar
<1>. QED BY <1>1, <1>4, <1>5, <1>6, <1>7, <1>8 DEF SInv

LEMMA StartedNext == Started' => SInv'
BY StartedOK, PTL

\* without a bulk directory
LEMMA AloneInv == SInv /\ (NoBulk \/ BulkExtractFails) => SInv'
<1>. SUFFICES ASSUME SInv, NoBulk \/ BulkExtractFails PROVE SInv'
  OBVIOUS
<1>1. /\ pc = "done" /\ stage = "planning" /\ stage' = "passthrough" /\ at' = 1
      /\ UNCHANGED <<vars, settings, bulk, extracted, appended>>
  BY DEF NoBulk, BulkExtractFails, Executing, StartLoops
<1>2. ~bulk /\ extracted = {} /\ appended = <<>> /\ bulk \in BOOLEAN /\ settings \in Settings
  BY <1>1 DEF SInv, StageOK, StagingTypeOK
<1>3. IInv'
  BY <1>1, StutterInv DEF SInv
<1>4. pc' = pc
  BY <1>1 DEF vars
<1>5. Started'
  BY <1>1, <1>2, <1>3, <1>4, FS_EmptySet DEF Started
<1>. QED BY <1>5, StartedNext

-----------------------------------------------------------------------------
(* What is extracted in bulk.                                              *)

\* the image of a finite set is finite
LEMMA FiniteImage ==
  ASSUME NEW L, IsFiniteSet(L), NEW f, f = [k \in L |-> f[k]], NEW I, \A x : x \in I <=> \E k \in L : x = f[k]
  PROVE  IsFiniteSet(I)
<1>1. f \in Surjection(L, I)
  <2>1. f \in [L -> I]
    OBVIOUS
  <2>2. \A x \in I : \E k \in L : f[k] = x
    OBVIOUS
  <2>. QED BY <2>1, <2>2 DEF Surjection
<1>. QED BY <1>1, FS_Surjection

\* the latest members are finitely many
LEMMA LatestFinite ==
  ASSUME IInv, NEW W, W \subseteq Files
  PROVE  IsFiniteSet(Latest(W))
<1>1. Latest(W) \subseteq W
  BY Zenon DEF Latest
<1>2. PICK T : T = Latest(W)
  OBVIOUS
<1>3. T \in SUBSET (DOMAIN archive)
  BY <1>1, <1>2, ArchiveFacts
<1>. QED BY <1>2, <1>3, ArchiveFacts, FS_Subset

\* the last member of each path
LEMMA LatestIs ==
  ASSUME NEW W
  PROVE  \A k : k \in Latest(W) <=>
           /\ k \in W
           /\ \A j \in W : normalize_member_path(archive[j].path) = normalize_member_path(archive[k].path)
                             => j <= k
BY Zenon DEF Latest

\* what the files of the bulk directory are, and which ones it has
BulkOK(files) ==
  /\ IsFiniteSet(files)
  /\ \A f \in files : f.from \in Files /\ f.time \in {MadeUp, {f.from}}
  /\ \A f, g \in files : f.path = g.path => f = g
  /\ \A f \in files :
       backend = "native" \/ (normalize_member_path(f.path) = f.path /\ OneSpelling(f.path))
         => IsLast(f.from, f.path)
  /\ \A k \in Planned :
       /\ backend = "native" /\ OneStep => \E f \in files : f.path = planned[k].source
       /\ backend = "cli" /\ OneSpelling(planned[k].source) /\ StoredAs(planned[k].source) # {}
            => \E f \in files : f.path = planned[k].source

\* the native reader extracts the last file of each path that is needed
LEMMA NativeBulkOK ==
  ASSUME IInv, pc = "done", backend = "native"
  PROVE  BulkOK(NativeBulk)
<1>1. PICK W : W = {k \in Files : normalize_member_path(archive[k].path) \in Needed}
  OBVIOUS
<1>2. PICK B : B = NativeBulk
  OBVIOUS
<1>3. PICK L : L = Latest(W)
  OBVIOUS
<1>4. PICK r : r = [k \in L |-> [path |-> normalize_member_path(archive[k].path), from |-> k, time |-> MadeUp]]
  OBVIOUS
<1>5. \A x : x \in B <=> \E k \in L : x = r[k]
  <2>1. B = {[path |-> normalize_member_path(archive[k].path), from |-> k, time |-> MadeUp] : k \in L}
    BY <1>1, <1>2, <1>3, Zenon DEF NativeBulk
  <2>. QED BY <1>4, <2>1
<1>6. \A k : k \in W <=> k \in Files /\ normalize_member_path(archive[k].path) \in Needed
  BY <1>1
<1>7. \A k : k \in L <=>
           /\ k \in W
           /\ \A j \in W : normalize_member_path(archive[j].path) = normalize_member_path(archive[k].path)
                             => j <= k
  BY <1>3, LatestIs
<1>8. \A k \in L : r[k].path = normalize_member_path(archive[k].path) /\ r[k].from = k /\ r[k].time = MadeUp
  BY <1>4
<1>9. IsFiniteSet(B)
  <2>1. IsFiniteSet(L)
    BY <1>3, <1>6, LatestFinite
  <2>2. r = [k \in L |-> r[k]]
    BY <1>4
  <2>. QED BY <1>5, <2>1, <2>2, FiniteImage
<1>10. \A path, k : k \in MembersOf(path) <=> k \in Files /\ normalize_member_path(archive[k].path) = path
  BY Zenon DEF MembersOf
<1>11. \A k \in L : IsLast(k, normalize_member_path(archive[k].path))
  BY <1>6, <1>7, <1>10 DEF IsLast
<1>12. \A f \in B : \E k \in L : f = r[k] /\ f.path = normalize_member_path(archive[k].path) /\ f.from = k
                                 /\ f.time = MadeUp
  BY <1>5, <1>8
<1>13. \A f \in B : f.from \in Files /\ f.time \in {MadeUp, {f.from}} /\ IsLast(f.from, f.path)
  BY <1>6, <1>7, <1>11, <1>12
<1>14. \A f, g \in B : f.path = g.path => f = g
  <2>. SUFFICES ASSUME NEW f \in B, NEW g \in B, f.path = g.path PROVE f = g
    OBVIOUS
  <2>1. PICK i \in L : f = r[i] /\ f.path = normalize_member_path(archive[i].path)
    BY <1>12
  <2>2. PICK j \in L : g = r[j] /\ g.path = normalize_member_path(archive[j].path)
    BY <1>12
  <2>3. i <= j /\ j <= i /\ i \in Nat /\ j \in Nat
    BY <1>6, <1>7, <2>1, <2>2, ArchiveFacts
  <2>4. i = j
    BY <2>3
  <2>. QED BY <2>1, <2>2, <2>4
<1>15. ASSUME OneStep, NEW k \in Planned PROVE \E f \in B : f.path = planned[k].source
  <2>1. PICK s : s = planned[k].source
    OBVIOUS
  <2>2. MembersOf(s) # {}
    BY <1>15, <2>1, NativeSource
  <2>3. PICK m : IsLast(m, s)
    BY <2>2, LastExists
  <2>4. m \in Files /\ normalize_member_path(archive[m].path) = s
    BY <1>10, <2>3 DEF IsLast
  <2>5. s \in Needed
    BY <2>1 DEF Needed
  <2>6. m \in L
    BY <1>6, <1>7, <1>10, <2>3, <2>4, <2>5 DEF IsLast
  <2>. QED BY <1>5, <1>8, <2>1, <2>4, <2>6
<1>16. BulkOK(B)
  BY <1>9, <1>13, <1>14, <1>15 DEF BulkOK
<1>. QED BY <1>2, <1>16

\* so does 7z, of the paths that are stored as they are needed
LEMMA CliBulkOK ==
  ASSUME IInv, pc = "done", backend = "cli"
  PROVE  BulkOK(CliBulk)
<1>1. PICK W : W = {k \in Files : \E path \in Needed : IsPrefix(path, archive[k].path)}
  OBVIOUS
<1>2. PICK B : B = CliBulk
  OBVIOUS
<1>3. PICK L : L = Latest(W)
  OBVIOUS
<1>4. PICK r : r = [k \in L |-> [path |-> archive[k].path, from |-> k,
                                 time |-> IF archive[k].dated THEN {k} ELSE MadeUp]]
  OBVIOUS
<1>5. \A x : x \in B <=> \E k \in L : x = r[k]
  <2>1. B = {[path |-> archive[k].path, from |-> k,
              time |-> IF archive[k].dated THEN {k} ELSE MadeUp] : k \in L}
    BY <1>1, <1>2, <1>3, Zenon DEF CliBulk
  <2>. QED BY <1>4, <2>1
<1>6. \A k : k \in W <=> k \in Files /\ \E path \in Needed : IsPrefix(path, archive[k].path)
  BY <1>1
<1>7. \A k : k \in L <=>
           /\ k \in W
           /\ \A j \in W : normalize_member_path(archive[j].path) = normalize_member_path(archive[k].path)
                             => j <= k
  BY <1>3, LatestIs
<1>8. \A k \in L : r[k].path = archive[k].path /\ r[k].from = k /\ r[k].time \in {MadeUp, {k}}
  BY <1>4
<1>9. IsFiniteSet(B)
  <2>1. IsFiniteSet(L)
    BY <1>3, <1>6, LatestFinite
  <2>2. r = [k \in L |-> r[k]]
    BY <1>4
  <2>. QED BY <1>5, <2>1, <2>2, FiniteImage
<1>10. \A path, k : k \in MembersOf(path) <=> k \in Files /\ normalize_member_path(archive[k].path) = path
  BY Zenon DEF MembersOf
<1>11. \A f \in B : \E k \in L : f = r[k] /\ f.path = archive[k].path /\ f.from = k
                                 /\ f.time \in {MadeUp, {k}}
  BY <1>5, <1>8
<1>12. \A f \in B : f.from \in Files /\ f.time \in {MadeUp, {f.from}}
  BY <1>6, <1>7, <1>11
<1>13. ASSUME NEW f \in B, normalize_member_path(f.path) = f.path, OneSpelling(f.path)
       PROVE  IsLast(f.from, f.path)
  <2>1. PICK k \in L : f.path = archive[k].path /\ f.from = k
    BY <1>11
  <2>2. k \in MembersOf(f.path)
    BY <1>6, <1>7, <1>10, <1>13, <2>1
  <2>3. ASSUME NEW j \in MembersOf(f.path) PROVE j <= k
    <3>1. archive[j].path = archive[k].path /\ j \in Files
      BY <1>10, <1>13, <2>1 DEF OneSpelling
    <3>2. j \in W
      BY <1>6, <1>7, <3>1
    <3>. QED BY <1>7, <3>1, <3>2
  <2>. QED BY <2>1, <2>2, <2>3 DEF IsLast
<1>14. \A f, g \in B : f.path = g.path => f = g
  <2>. SUFFICES ASSUME NEW f \in B, NEW g \in B, f.path = g.path PROVE f = g
    OBVIOUS
  <2>1. PICK i \in L : f = r[i] /\ f.path = archive[i].path
    BY <1>11
  <2>2. PICK j \in L : g = r[j] /\ g.path = archive[j].path
    BY <1>11
  <2>3. i <= j /\ j <= i /\ i \in Nat /\ j \in Nat
    BY <1>6, <1>7, <2>1, <2>2, ArchiveFacts
  <2>4. i = j
    BY <2>3
  <2>. QED BY <2>1, <2>2, <2>4
<1>15. ASSUME NEW k \in Planned, OneSpelling(planned[k].source), StoredAs(planned[k].source) # {}
       PROVE  \E f \in B : f.path = planned[k].source
  <2>1. PICK s : s = planned[k].source
    OBVIOUS
  <2>2. IsSequence(s) /\ normalize_member_path(s) = s
    BY <2>1, PlannedEntry
  <2>3. PICK i \in Files : archive[i].path = s
    BY <1>15, <2>1 DEF StoredAs
  <2>4. MembersOf(s) # {}
    BY <1>10, <2>2, <2>3
  <2>5. PICK m : IsLast(m, s)
    BY <2>4, LastExists
  <2>6. m \in Files /\ normalize_member_path(archive[m].path) = s /\ archive[m].path = s
    BY <1>10, <1>15, <2>1, <2>5 DEF IsLast, OneSpelling
  <2>7. s \in Needed /\ IsPrefix(s, s)
    <3>1. s \in Needed
      BY <2>1 DEF Needed
    <3>2. s \in Seq(ToSet(s))
      BY <2>2, SequenceFacts
    <3>3. IsPrefix(s, s)
      BY <3>2 DEF IsPrefix
    <3>. QED BY <3>1, <3>3
  <2>8. m \in L
    BY <1>6, <1>7, <1>10, <2>5, <2>6, <2>7 DEF IsLast
  <2>. QED BY <1>5, <1>8, <2>1, <2>6, <2>8
<1>16. BulkOK(B)
  BY <1>9, <1>12, <1>13, <1>14, <1>15 DEF BulkOK
<1>. QED BY <1>2, <1>16

\* with a bulk directory
LEMMA BulkExtractInv == SInv /\ BulkExtract => SInv'
<1>. SUFFICES ASSUME SInv, BulkExtract PROVE SInv'
  OBVIOUS
<1>1. /\ pc = "done" /\ stage = "planning" /\ stage' = "passthrough" /\ at' = 1 /\ bulk' = TRUE
      /\ UNCHANGED <<vars, settings, appended>>
      /\ extracted' = IF backend = "native" THEN NativeBulk ELSE CliBulk
  BY DEF BulkExtract, Executing, StartLoops
<1>2. appended = <<>> /\ settings \in Settings
  BY <1>1 DEF SInv, StageOK, StagingTypeOK
<1>3. IInv'
  BY <1>1, StutterInv DEF SInv
<1>4. backend \in {"cli", "native"}
  BY DEF SInv, IInv, TypeOK
<1>5. BulkOK(extracted')
  <2>1. CASE backend = "native"
    BY <1>1, <2>1, NativeBulkOK DEF SInv
  <2>2. CASE backend = "cli"
    BY <1>1, <2>2, CliBulkOK DEF SInv
  <2>. QED BY <1>4, <2>1, <2>2
<1>6. /\ pc' = pc /\ backend' = backend /\ planned' = planned
      /\ Planned' = Planned /\ Files' = Files /\ (OneStep' <=> OneStep)
      /\ \A path : OneSpelling(path)' <=> OneSpelling(path)
      /\ \A path : StoredAs(path)' = StoredAs(path)
      /\ \A k, path : IsLast(k, path)' <=> IsLast(k, path)
  BY <1>1, ArchiveKept DEF vars, inputs
<1>7. \A f \in extracted' :
        backend' = "native" \/ (normalize_member_path(f.path) = f.path /\ OneSpelling(f.path)')
          => IsLast(f.from, f.path)'
  BY <1>5, <1>6 DEF BulkOK
<1>8. \A k \in Planned' :
       /\ backend' = "native" /\ OneStep' => Held(planned[k].source)'
       /\ backend' = "cli" /\ OneSpelling(planned[k].source)' /\ StoredAs(planned[k].source)' # {}
            => Held(planned[k].source)'
  <2>. SUFFICES ASSUME NEW k \in Planned
                PROVE
       /\ backend' = "native" /\ OneStep' => Held(planned[k].source)'
       /\ backend' = "cli" /\ OneSpelling(planned[k].source)' /\ StoredAs(planned[k].source)' # {}
            => Held(planned[k].source)'
    BY <1>6
  <2>1. PICK s : s = planned[k].source /\ s = planned'[k].source
    BY <1>6
  <2>2. /\ backend = "native" /\ OneStep => \E f \in extracted' : f.path = s
        /\ backend = "cli" /\ OneSpelling(s) /\ StoredAs(s) # {} => \E f \in extracted' : f.path = s
    BY <1>5, <2>1 DEF BulkOK
  <2>3. Held(s)' <=> \E f \in extracted' : f.path = s
    BY DEF Held
  <2>4. /\ backend' = "native" /\ OneStep' => Held(s)'
        /\ backend' = "cli" /\ OneSpelling(s)' /\ StoredAs(s)' # {} => Held(s)'
    BY <1>6, <2>2, <2>3
  <2>. QED BY <2>1, <2>4
<1>9. /\ \A f \in extracted' : f.from \in Files' /\ f.time \in {MadeUp, {f.from}}
      /\ \A f, g \in extracted' : f.path = g.path => f = g
      /\ IsFiniteSet(extracted')
  BY <1>5, <1>6 DEF BulkOK
<1>10. Started'
  BY <1>1, <1>2, <1>3, <1>6, <1>7, <1>8, <1>9 DEF Started
<1>. QED BY <1>10, StartedNext

-----------------------------------------------------------------------------
(* One entry of the plan.                                                  *)

\* no two entries that are executed have one source
LEMMA SourcesDistinct ==
  ASSUME IInv, NEW j \in Planned, NEW k \in Planned, planned[j].source = planned[k].source
  PROVE  j = k
<1>1. j \in Taken /\ k \in Taken
  BY PlannedEntry
<1>. QED BY <1>1 DEF IInv, PlannedOK

\* the entry a loop is at is planned, and the loop passes it
LEMMA AtIsPlanned ==
  ASSUME SInv, AtEntry("passthrough", "Passthrough") \/ AtEntry("nested", "ConvertNested"),
         planned' = planned, stage' = stage
  PROVE  /\ pc = "done" /\ stage # "planning" /\ at \in Planned /\ ~Behind(at)
         /\ at' \in 1 .. Len(planned) + 1
         /\ \A k \in Planned : Behind(k)' <=> Behind(k) \/ k = at
<1>1. /\ at <= Len(planned) /\ at' = at + 1
      /\ \/ stage = "passthrough" /\ planned[at].action = "Passthrough"
         \/ stage = "nested" /\ planned[at].action = "ConvertNested"
  BY DEF AtEntry
<1>2. IInv /\ at \in 1 .. Len(planned) + 1
  BY DEF SInv, StagingTypeOK
<1>3. at \in DOMAIN planned /\ at' \in 1 .. Len(planned) + 1 /\ at \in Nat /\ ~ (at < at)
  BY <1>1, <1>2, PlanIsSequence
<1>4. at \in Planned
  BY <1>1, <1>3 DEF Planned
<1>5. ~Behind(at)
  BY <1>1, <1>3 DEF Behind
<1>6. ASSUME NEW k \in Planned PROVE Behind(k)' <=> Behind(k) \/ k = at
  <2>1. k \in Nat /\ (k < at + 1 <=> k < at \/ k = at)
    BY <1>2, <1>3, PlanIsSequence
  <2>2. planned[k].action \in {"Passthrough", "ConvertNested"}
    BY <1>2, PlanIsSequence
  <2>. QED BY <1>1, <2>1, <2>2 DEF Behind
<1>7. pc = "done" /\ stage # "planning"
  BY <1>1 DEF SInv, StageOK
<1>. QED BY <1>3, <1>4, <1>5, <1>6, <1>7

\* what find_extracted finds
LEMMA Found ==
  ASSUME IsFiniteSet(extracted), NEW s, NEW f \in FindExtracted(s)
  PROVE  /\ f \in extracted
         /\ f.path = s \/ (~Held(s) /\ \A g \in extracted : Last(g.path) = Last(s) <=> g = f)
<1>1. PICK exact : exact = {g \in extracted : g.path = s}
  OBVIOUS
<1>2. PICK named : named = {g \in extracted : Last(g.path) = Last(s)}
  OBVIOUS
<1>3. f \in IF exact # {} THEN exact ELSE IF Cardinality(named) = 1 THEN named ELSE {}
  BY <1>1, <1>2, Zenon DEF FindExtracted
<1>4. CASE exact # {}
  BY <1>1, <1>3, <1>4
<1>5. CASE exact = {}
  <2>1. f \in named /\ Cardinality(named) = 1
    BY <1>3, <1>5
  <2>2. PICK g : named = {g}
    <3>1. named \in SUBSET extracted
      BY <1>2
    <3>2. IsFiniteSet(named)
      BY <3>1, FS_Subset
    <3>. QED BY <2>1, <3>2, FS_Singleton
  <2>3. named = {f}
    BY <2>1, <2>2
  <2>4. ~Held(s)
    BY <1>1, <1>5 DEF Held
  <2>. QED BY <1>2, <2>1, <2>3, <2>4
<1>. QED BY <1>4, <1>5

\* what is there is found
LEMMA HeldIsFound ==
  ASSUME NEW s, Held(s)
  PROVE  FindExtracted(s) # {}
<1>1. PICK exact : exact = {g \in extracted : g.path = s}
  OBVIOUS
<1>2. exact # {}
  BY <1>1 DEF Held
<1>3. FindExtracted(s) = exact
  BY <1>1, <1>2, Zenon DEF FindExtracted
<1>. QED BY <1>2, <1>3

\* the bulk directory without the file of an entry
LEMMA Removed ==
  ASSUME SInv, UNCHANGED <<vars, bulk>>, bulk, NEW k \in Planned, ~Behind(k),
         \A i \in Planned : Behind(i)' <=> Behind(i) \/ i = k,
         NEW f \in FindExtracted(planned[k].source),
         extracted' = extracted \/ extracted' = extracted \ {f}
  PROVE  ExtractedOK'
<1>1. UNCHANGED vars /\ IInv /\ planned' = planned /\ backend' = backend /\ IsFiniteSet(extracted)
  BY DEF SInv, ExtractedOK, vars, inputs
<1>2. /\ Planned' = Planned /\ Files' = Files /\ (OneStep' <=> OneStep)
      /\ \A path : OneSpelling(path)' <=> OneSpelling(path)
      /\ \A path : StoredAs(path)' = StoredAs(path)
      /\ \A i, path : IsLast(i, path)' <=> IsLast(i, path)
  BY <1>1, ArchiveKept
<1>3. PICK t : t = planned[k].source
  OBVIOUS
<1>4. /\ f \in extracted
      /\ f.path = t \/ (~Held(t) /\ \A g \in extracted : Last(g.path) = Last(t) <=> g = f)
  BY <1>1, <1>3, Found
<1>5. backend = "native" /\ OneStep => Held(t)
  BY <1>3 DEF SInv, ExtractedOK
<1>6. IsFiniteSet(extracted')
  <2>1. extracted' \in SUBSET extracted
    OBVIOUS
  <2>. QED BY <1>1, <2>1, FS_Subset
<1>7. \A g \in extracted' :
        backend' = "native" \/ (normalize_member_path(g.path) = g.path /\ OneSpelling(g.path)')
          => IsLast(g.from, g.path)'
  BY <1>1, <1>2 DEF SInv, ExtractedOK
<1>8. ASSUME NEW i \in Planned', ~Behind(i)'
      PROVE  /\ backend' = "native" /\ OneStep' => Held(planned[i].source)'
             /\ /\ backend' = "cli" /\ OneSpelling(planned[i].source)'
                /\ StoredAs(planned[i].source)' # {}
                => \/ Held(planned[i].source)'
                   \/ \A g \in extracted' : Last(g.path) # Last(planned'[i].source)
  <2>1. PICK s : s = planned[i].source /\ s = planned'[i].source
    BY <1>1
  <2>2. i \in Planned /\ ~Behind(i) /\ i # k
    BY <1>2, <1>8
  <2>3. s # t
    BY <1>1, <1>3, <2>1, <2>2, SourcesDistinct
  <2>4. /\ backend = "native" /\ OneStep => Held(s)
        /\ /\ backend = "cli" /\ OneSpelling(s) /\ StoredAs(s) # {}
           => \/ Held(s)
              \/ \A g \in extracted : Last(g.path) # Last(s)
    BY <2>1, <2>2 DEF SInv, ExtractedOK
  <2>5. Held(s)' <=> \E g \in extracted' : g.path = s
    BY DEF Held
  <2>6. Held(s) <=> \E g \in extracted : g.path = s
    BY DEF Held
  <2>7. backend = "native" /\ OneStep => Held(s)'
    BY <1>4, <1>5, <2>3, <2>4, <2>5, <2>6
  <2>8. backend = "cli" /\ OneSpelling(s) /\ StoredAs(s) # {}
           => \/ Held(s)'
              \/ \A g \in extracted' : Last(g.path) # Last(s)
    BY <1>4, <2>3, <2>4, <2>5, <2>6
  <2>9. /\ backend' = "native" /\ OneStep' => Held(s)'
        /\ backend' = "cli" /\ OneSpelling(s)' /\ StoredAs(s)' # {}
           => \/ Held(s)'
              \/ \A g \in extracted' : Last(g.path) # Last(s)
    BY <1>1, <1>2, <2>7, <2>8
  <2>. QED BY <2>1, <2>9
<1>. QED BY <1>6, <1>7, <1>8 DEF ExtractedOK

\* a loop passes an entry and leaves the bulk directory as it is
LEMMA NotRemoved ==
  ASSUME SInv, UNCHANGED <<vars, bulk, extracted>>, NEW k \in Planned,
         \A i \in Planned : Behind(i)' <=> Behind(i) \/ i = k
  PROVE  ExtractedOK'
<1>1. UNCHANGED vars /\ IInv /\ planned' = planned /\ backend' = backend /\ IsFiniteSet(extracted)
  BY DEF SInv, ExtractedOK, vars, inputs
<1>2. /\ Planned' = Planned /\ Files' = Files /\ (OneStep' <=> OneStep)
      /\ \A path : OneSpelling(path)' <=> OneSpelling(path)
      /\ \A path : StoredAs(path)' = StoredAs(path)
      /\ \A i, path : IsLast(i, path)' <=> IsLast(i, path)
  BY <1>1, ArchiveKept
<1>7. \A g \in extracted' :
        backend' = "native" \/ (normalize_member_path(g.path) = g.path /\ OneSpelling(g.path)')
          => IsLast(g.from, g.path)'
  BY <1>1, <1>2 DEF SInv, ExtractedOK
<1>8. ASSUME bulk, NEW i \in Planned', ~Behind(i)'
      PROVE  /\ backend' = "native" /\ OneStep' => Held(planned[i].source)'
             /\ /\ backend' = "cli" /\ OneSpelling(planned[i].source)'
                /\ StoredAs(planned[i].source)' # {}
                => \/ Held(planned[i].source)'
                   \/ \A g \in extracted' : Last(g.path) # Last(planned'[i].source)
  <2>1. PICK s : s = planned[i].source /\ s = planned'[i].source
    BY <1>1
  <2>2. i \in Planned /\ ~Behind(i)
    BY <1>2, <1>8
  <2>4. /\ backend = "native" /\ OneStep => Held(s)
        /\ /\ backend = "cli" /\ OneSpelling(s) /\ StoredAs(s) # {}
           => \/ Held(s)
              \/ \A g \in extracted : Last(g.path) # Last(s)
    BY <1>8, <2>1, <2>2 DEF SInv, ExtractedOK
  <2>5. Held(s)' <=> Held(s)
    BY DEF Held
  <2>9. /\ backend' = "native" /\ OneStep' => Held(s)'
        /\ backend' = "cli" /\ OneSpelling(s)' /\ StoredAs(s)' # {}
           => \/ Held(s)'
              \/ \A g \in extracted' : Last(g.path) # Last(s)
    BY <1>1, <1>2, <2>4, <2>5
  <2>. QED BY <2>1, <2>9
<1>. QED BY <1>1, <1>7, <1>8 DEF ExtractedOK

\* StagedSoFar for an entry that a loop passes
LEMMA SoFarNext ==
  ASSUME SInv, UNCHANGED <<vars, bulk, stage>>, stage # "planning", NEW k \in Planned,
         \A i \in Planned : Behind(i)' <=> Behind(i) \/ i = k,
         \A entry \in ToSet(appended) : entry \in ToSet(appended'),
         backend = "native" /\ OneStep /\ (bulk \/ OneSpelling(planned[k].source)) =>
           \E entry \in ToSet(appended') :
             /\ entry.dest = planned[k].dest
             /\ entry.from = <<Max(MembersOf(planned[k].source))>>
  PROVE  StagedSoFar'
<1>1. UNCHANGED vars /\ planned' = planned /\ backend' = backend
  BY DEF vars, inputs
<1>2. /\ Planned' = Planned /\ (OneStep' <=> OneStep)
      /\ \A path : OneSpelling(path)' <=> OneSpelling(path)
      /\ \A path : MembersOf(path)' = MembersOf(path)
  BY <1>1, ArchiveKept
<1>. SUFFICES ASSUME backend' = "native", OneStep', NEW i \in Planned',
                     Behind(i)', bulk' \/ OneSpelling(planned[i].source)'
              PROVE  \E entry \in ToSet(appended') :
                       /\ entry.dest = planned'[i].dest
                       /\ entry.from = <<Max(MembersOf(planned[i].source)')>>
  BY Zenon DEF StagedSoFar
<1>3. PICK s : s = planned[i].source /\ s = planned'[i].source
  BY <1>1
<1>4. OneSpelling(planned[i].source)' <=> OneSpelling(s)
  <2>1. OneSpelling(planned[i].source)' <=> OneSpelling(s)'
    BY <1>3
  <2>. QED BY <1>2, <2>1
<1>5. MembersOf(planned[i].source)' = MembersOf(s)
  <2>1. MembersOf(planned[i].source)' = MembersOf(s)'
    BY <1>3
  <2>. QED BY <1>2, <2>1
<1>6. i \in Planned /\ (bulk \/ OneSpelling(s)) /\ (Behind(i) \/ i = k)
  BY <1>1, <1>2, <1>4
<1>7. \E entry \in ToSet(appended') : /\ entry.dest = planned[i].dest
                                      /\ entry.from = <<Max(MembersOf(s))>>
  <2>1. CASE Behind(i)
    BY <1>1, <1>2, <1>3, <1>6, <2>1 DEF SInv, StagedSoFar
  <2>2. CASE i = k
    BY <1>1, <1>2, <1>3, <1>6, <2>2
  <2>. QED BY <1>6, <2>1, <2>2
<1>. QED BY <1>1, <1>5, <1>7

\* a loop passes an entry without staging it
LEMMA SkipInv ==
  ASSUME SInv, UNCHANGED <<vars, settings, stage, bulk, extracted, appended>>, stage # "planning",
         NEW k \in Planned, at' \in 1 .. Len(planned) + 1,
         \A i \in Planned : Behind(i)' <=> Behind(i) \/ i = k,
         ~ (backend = "native" /\ OneStep /\ (bulk \/ OneSpelling(planned[k].source)))
  PROVE  SInv'
<1>1. /\ UNCHANGED vars /\ pc' = pc /\ planned' = planned
  BY DEF vars, inputs
<1>2. Planned' = Planned /\ Files' = Files
  BY <1>1, ArchiveKept
<1>3. pc = "done"
  BY DEF SInv, StageOK
<1>4. IInv'
  BY <1>1, StutterInv DEF SInv
<1>5. StagingTypeOK'
  BY <1>1, <1>2, <1>4 DEF SInv, StagingTypeOK, IInv
<1>6. StageOK'
  <2>1. \A entry \in ToSet(appended') :
          \E i \in Planned' : /\ Behind(i)'
                              /\ entry.source = planned'[i].source /\ entry.dest = planned'[i].dest
    <3>. SUFFICES ASSUME NEW entry \in ToSet(appended)
                  PROVE  \E i \in Planned' : /\ Behind(i)'
                              /\ entry.source = planned'[i].source /\ entry.dest = planned'[i].dest
      BY <1>1
    <3>1. PICK i \in Planned : /\ Behind(i)
                               /\ entry.source = planned[i].source /\ entry.dest = planned[i].dest
      BY DEF SInv, StageOK
    <3>2. Behind(i)'
      BY <3>1
    <3>. QED BY <1>1, <1>2, <3>1, <3>2
  <2>2. IsSequence(appended)'
    BY <1>1 DEF SInv, StageOK, IsSequence
  <2>. QED BY <1>1, <1>3, <2>1, <2>2 DEF StageOK
<1>7. ExtractedOK'
  BY <1>1, NotRemoved
<1>8. MetaGoesWithBytes'
  <2>1. \A entry \in ToSet(appended) : Goes(entry)
    BY AllGo DEF SInv
  <2>2. \A entry : Goes(entry)' <=> Goes(entry)
    BY <1>1, GoesKept
  <2>. QED BY <1>1, <2>1, <2>2, AllGoNext
<1>9. StagedSoFar'
  <2>1. \A entry \in ToSet(appended) : entry \in ToSet(appended')
    BY <1>1
  <2>. QED BY <1>1, <2>1, SoFarNext
<1>. QED BY <1>4, <1>5, <1>6, <1>7, <1>8, <1>9 DEF SInv

\* a loop passes an entry and stages it
LEMMA AppendInv ==
  ASSUME SInv, UNCHANGED <<vars, settings, stage, bulk>>, stage # "planning",
         NEW k \in Planned, ~Behind(k), at' \in 1 .. Len(planned) + 1,
         \A i \in Planned : Behind(i)' <=> Behind(i) \/ i = k,
         ExtractedOK', \A f \in extracted' : f \in extracted,
         NEW entry, entry.source = planned[k].source, entry.dest = planned[k].dest,
         Goes(entry), appended' = Append(appended, entry),
         backend = "native" /\ OneStep /\ (bulk \/ OneSpelling(planned[k].source)) =>
           entry.from = <<Max(MembersOf(planned[k].source))>>
  PROVE  SInv'
<1>1. /\ UNCHANGED vars /\ pc' = pc /\ planned' = planned
  BY DEF vars, inputs
<1>2. Planned' = Planned /\ Files' = Files
  BY <1>1, ArchiveKept
<1>3. pc = "done" /\ IsSequence(appended)
  BY DEF SInv, StageOK
<1>4. IInv'
  BY <1>1, StutterInv DEF SInv
<1>5. PICK n : n = Len(appended) + 1
  OBVIOUS
<1>6. IsLonger(appended', appended, entry, n)
  <2>1. IsLonger(Append(appended, entry), appended, entry, Len(appended) + 1)
    BY <1>3, AppendFacts, Zenon
  <2>. QED BY <1>5, <2>1
<1>7. /\ IsSequence(appended') /\ DOMAIN appended' = DOMAIN appended \cup {n} /\ n \notin DOMAIN appended
      /\ appended'[n] = entry /\ \A i \in DOMAIN appended : appended'[i] = appended[i]
  BY <1>6, Zenon DEF IsLonger
<1>8. \A x : x \in ToSet(appended') <=> x \in ToSet(appended) \/ x = entry
  <2>1. \A x : x \in ToSet(appended') <=> \E i \in DOMAIN appended' : appended'[i] = x
    BY DEF ToSet
  <2>2. \A x : x \in ToSet(appended) <=> \E i \in DOMAIN appended : appended[i] = x
    BY DEF ToSet
  <2>. QED BY <1>7, <2>1, <2>2
<1>9. \A x \in ToSet(appended) : \E i \in Planned : /\ Behind(i)
                                                    /\ x.source = planned[i].source /\ x.dest = planned[i].dest
  BY DEF SInv, StageOK
<1>10. \A x \in ToSet(appended) : x.source # entry.source
  <2>. SUFFICES ASSUME NEW x \in ToSet(appended), x.source = entry.source PROVE FALSE
    OBVIOUS
  <2>1. PICK i \in Planned : Behind(i) /\ x.source = planned[i].source
    BY <1>9
  <2>2. i = k
    BY <2>1, SourcesDistinct DEF SInv
  <2>. QED BY <2>1, <2>2
<1>11. \A x \in ToSet(appended') :
         \E i \in Planned : /\ Behind(i)'
                            /\ x.source = planned[i].source /\ x.dest = planned[i].dest
  <2>. SUFFICES ASSUME NEW x \in ToSet(appended')
                PROVE  \E i \in Planned : /\ Behind(i)'
                            /\ x.source = planned[i].source /\ x.dest = planned[i].dest
    OBVIOUS
  <2>1. CASE x = entry
    BY <2>1
  <2>2. CASE x \in ToSet(appended)
    <3>1. PICK i \in Planned : /\ Behind(i)
                               /\ x.source = planned[i].source /\ x.dest = planned[i].dest
      BY <1>9, <2>2
    <3>2. Behind(i)'
      BY <3>1
    <3>. QED BY <3>1, <3>2
  <2>. QED BY <1>8, <2>1, <2>2
<1>12. \A i, j \in DOMAIN appended' : appended'[i].source = appended'[j].source => i = j
  <2>1. \A i, j \in DOMAIN appended : appended[i].source = appended[j].source => i = j
    BY DEF SInv, StagingTypeOK
  <2>2. \A i \in DOMAIN appended : appended'[i].source # appended'[n].source
    <3>1. \A i \in DOMAIN appended : appended[i] \in ToSet(appended)
      BY DEF ToSet
    <3>. QED BY <1>7, <1>10, <3>1
  <2>. SUFFICES ASSUME NEW i \in DOMAIN appended', NEW j \in DOMAIN appended',
                       appended'[i].source = appended'[j].source
                PROVE  i = j
    OBVIOUS
  <2>3. (i \in DOMAIN appended \/ i = n) /\ (j \in DOMAIN appended \/ j = n)
    BY <1>7
  <2>4. CASE i \in DOMAIN appended /\ j \in DOMAIN appended
    BY <1>7, <2>1, <2>4
  <2>5. CASE i = n \/ j = n
    BY <2>2, <2>3, <2>5
  <2>. QED BY <2>3, <2>4, <2>5
<1>13. StagingTypeOK'
  <2>1. settings' \in Settings /\ bulk' \in BOOLEAN /\ stage' \in {"planning", "passthrough", "nested", "staged"}
    BY DEF SInv, StagingTypeOK
  <2>2. /\ \A f \in extracted' : f.from \in Files' /\ f.time \in {MadeUp, {f.from}}
        /\ \A f, g \in extracted' : f.path = g.path => f = g
    BY <1>2 DEF SInv, StagingTypeOK
  <2>3. \A x \in ToSet(appended') :
          \E i \in Planned' : x.source = planned'[i].source /\ x.dest = planned'[i].dest
    BY <1>1, <1>2, <1>11
  <2>4. TypeOK' /\ at' \in 1 .. Len(planned') + 1
    BY <1>1, <1>4 DEF IInv
  <2>. QED BY <1>12, <2>1, <2>2, <2>3, <2>4 DEF StagingTypeOK
<1>14. StageOK'
  <2>1. IsSequence(appended)'
    BY <1>7 DEF IsSequence
  <2>2. \A x \in ToSet(appended') :
          \E i \in Planned' : /\ Behind(i)'
                              /\ x.source = planned'[i].source /\ x.dest = planned'[i].dest
    BY <1>1, <1>2, <1>11
  <2>. QED BY <1>1, <1>3, <2>1, <2>2 DEF StageOK
<1>15. MetaGoesWithBytes'
  <2>1. \A x \in ToSet(appended) : Goes(x)
    BY AllGo DEF SInv
  <2>2. \A x : Goes(x)' <=> Goes(x)
    BY <1>1, GoesKept
  <2>3. \A x \in ToSet(appended') : Goes(x)'
    BY <1>8, <2>1, <2>2
  <2>. QED BY <2>3, AllGoNext
<1>16. StagedSoFar'
  <2>1. \A x \in ToSet(appended) : x \in ToSet(appended')
    BY <1>8
  <2>2. backend = "native" /\ OneStep /\ (bulk \/ OneSpelling(planned[k].source)) =>
          \E x \in ToSet(appended') :
            /\ x.dest = planned[k].dest
            /\ x.from = <<Max(MembersOf(planned[k].source))>>
    BY <1>8
  <2>. QED BY <1>1, <2>1, <2>2, SoFarNext
<1>. QED BY <1>4, <1>13, <1>14, <1>15, <1>16 DEF SInv

\* the new entry has the metadata of the member its bytes come from
LEMMA NewGoes ==
  ASSUME IInv, NEW k \in Planned, NEW from, NEW time, NEW entry,
         entry = [source |-> planned[k].source, dest |-> planned[k].dest,
                  from |-> from, meta |-> Or(planned[k].meta, FsMeta(time))],
         OneStep /\ Len(from) = 1
           /\ (IF backend = "native" /\ bulk THEN TRUE
               ELSE OneSpelling(planned[k].source) /\ StoredAs(planned[k].source) # {})
           => IsLast(from[1], planned[k].source)
  PROVE  Goes(entry)
<1>. SUFFICES ASSUME readable, OneStep, NoDirectoryAt(entry.source), Len(entry.from) = 1,
                     IF backend = "native" /\ bulk THEN TRUE
                     ELSE OneSpelling(entry.source) /\ StoredAs(entry.source) # {},
                     NEW m, m = entry.from[1]
              PROVE  /\ archive[m].dated => entry.meta.time = {m}
                     /\ entry.meta.attrs = {m}
  BY Zenon DEF Goes
<1>1. PICK meta : meta = Or(planned[k].meta, FsMeta(time))
  OBVIOUS
<1>2. entry.source = planned[k].source /\ entry.from = from /\ entry.meta = meta
  BY <1>1
<1>3. IsLast(m, planned[k].source)
  BY <1>2
<1>4. /\ DOMAIN planned[k].meta = {"time", "attrs"}
      /\ planned[k].meta.attrs = {m}
      /\ archive[m].dated => planned[k].meta.time = {m}
  BY <1>2, <1>3, PlannedMeta
<1>5. PICK pm : pm = planned[k].meta
  OBVIOUS
<1>6. /\ pm.attrs = {m} => Or(pm, FsMeta(time)).attrs = {m}
      /\ pm.time = {m} => Or(pm, FsMeta(time)).time = {m}
  <2>1. DOMAIN pm = {"time", "attrs"}
    BY <1>4, <1>5
  <2>2. \A field \in {"time", "attrs"} :
          Or(pm, FsMeta(time))[field] = IF pm[field] # Unknown THEN pm[field] ELSE FsMeta(time)[field]
    BY <2>1 DEF Or
  <2>3. {m} # Unknown
    BY DEF Unknown
  <2>. QED BY <2>2, <2>3
<1>7. meta = Or(pm, FsMeta(time))
  BY <1>1, <1>5
<1>8. meta.attrs = {m} /\ (archive[m].dated => meta.time = {m})
  BY <1>4, <1>5, <1>6, <1>7
<1>. QED BY <1>2, <1>8

\* a loop stages a file of the bulk directory
LEMMA FromBulk ==
  ASSUME SInv, bulk, UNCHANGED <<vars, settings, stage, bulk>>,
         AtEntry("passthrough", "Passthrough") \/ AtEntry("nested", "ConvertNested"),
         NEW f \in FindExtracted(planned[at].source), NEW time,
         Append1(planned[at], <<f.from>>, time),
         extracted' = extracted \/ extracted' = extracted \ {f}
  PROVE  SInv'
<1>1. /\ UNCHANGED vars /\ planned' = planned /\ IInv /\ ExtractedOK
      /\ backend \in {"cli", "native"}
  BY DEF SInv, IInv, TypeOK, vars, inputs
<1>2. PICK k : k = at
  OBVIOUS
<1>3. /\ stage # "planning" /\ k \in Planned /\ ~Behind(k) /\ at' \in 1 .. Len(planned) + 1
      /\ \A i \in Planned : Behind(i)' <=> Behind(i) \/ i = k
  BY <1>1, <1>2, AtIsPlanned
<1>4. PICK s : s = planned[k].source
  OBVIOUS
<1>5. normalize_member_path(s) = s
  BY <1>1, <1>3, <1>4, PlannedEntry
<1>6. f \in FindExtracted(s)
  BY <1>2, <1>4
<1>7. /\ f \in extracted
      /\ f.path = s \/ (~Held(s) /\ \A g \in extracted : Last(g.path) = Last(s) <=> g = f)
  BY <1>1, <1>6, Found DEF ExtractedOK
<1>8. /\ backend = "native" /\ OneStep => Held(s)
      /\ /\ backend = "cli" /\ OneSpelling(s) /\ StoredAs(s) # {}
         => Held(s) \/ \A g \in extracted : Last(g.path) # Last(s)
  BY <1>1, <1>3, <1>4 DEF ExtractedOK
<1>9. backend = "native" \/ (normalize_member_path(f.path) = f.path /\ OneSpelling(f.path))
        => IsLast(f.from, f.path)
  BY <1>1, <1>7 DEF ExtractedOK
<1>10. OneStep /\ (backend = "native" \/ (OneSpelling(s) /\ StoredAs(s) # {})) => IsLast(f.from, s)
  <2>. SUFFICES ASSUME OneStep, backend = "native" \/ (OneSpelling(s) /\ StoredAs(s) # {})
                PROVE  IsLast(f.from, s)
    OBVIOUS
  <2>1. f.path = s
    BY <1>1, <1>7, <1>8
  <2>. QED BY <1>5, <1>9, <2>1
<1>11. PICK from : from = <<f.from>>
  OBVIOUS
<1>12. from[1] = f.from
  BY <1>11
<1>13. PICK entry : entry = [source |-> planned[k].source, dest |-> planned[k].dest,
                             from |-> from, meta |-> Or(planned[k].meta, FsMeta(time))]
  OBVIOUS
<1>14. OneStep /\ Len(from) = 1
         /\ (IF backend = "native" /\ bulk THEN TRUE
             ELSE OneSpelling(planned[k].source) /\ StoredAs(planned[k].source) # {})
         => IsLast(from[1], planned[k].source)
  BY <1>4, <1>10, <1>12
<1>15. Goes(entry)
  BY <1>1, <1>3, <1>13, <1>14, NewGoes
<1>16. appended' = Append(appended, entry)
  BY <1>2, <1>11, <1>13 DEF Append1
<1>17. ExtractedOK'
  BY <1>1, <1>3, <1>4, <1>6, Removed
<1>18. backend = "native" /\ OneStep => entry.from = <<Max(MembersOf(planned[k].source))>>
  <2>. SUFFICES ASSUME backend = "native", OneStep PROVE entry.from = <<Max(MembersOf(s))>>
    BY <1>4
  <2>1. Max(MembersOf(s)) = f.from
    BY <1>1, <1>10, LastOfPath
  <2>. QED BY <1>11, <1>13, <2>1
<1>19. entry.source = planned[k].source /\ entry.dest = planned[k].dest
  BY <1>13
<1>20. \A g \in extracted' : g \in extracted
  OBVIOUS
<1>. QED BY <1>3, <1>15, <1>16, <1>17, <1>18, <1>19, <1>20, AppendInv

\* what extract_member writes, where the archive spells the path in one way
LEMMA Extracted ==
  ASSUME IInv, pc = "done", NEW s, normalize_member_path(s) = s, OneSpelling(s),
         NEW from \in ExtractMember(s)
  PROVE  /\ StoredAs(s) # {} /\ Len(from) = 1 => IsLast(from[1], s)
         /\ backend = "native" => from = <<Max(MembersOf(s))>>
<1>1. StoredAs(s) = MembersOf(s)
  <2>1. \A k : k \in StoredAs(s) <=> k \in Files /\ archive[k].path = s
    BY Zenon DEF StoredAs
  <2>2. \A k : k \in MembersOf(s) <=> k \in Files /\ normalize_member_path(archive[k].path) = s
    BY Zenon DEF MembersOf
  <2>3. \A k \in MembersOf(s) : archive[k].path = s
    BY Zenon DEF OneSpelling
  <2>4. \A k : k \in StoredAs(s) <=> k \in MembersOf(s)
    BY <2>1, <2>2, <2>3
  <2>. QED BY <2>4
<1>2. PICK M : M = MembersOf(s)
  OBVIOUS
<1>3. CASE backend = "native"
  <2>1. M # {} /\ from = <<Max(M)>>
    BY <1>1, <1>2, <1>3, Zenon DEF ExtractMember
  <2>2. IsLast(Max(M), s)
    BY <1>2, <2>1, LastExists
  <2>3. from[1] = Max(M)
    BY <2>1
  <2>. QED BY <1>2, <2>1, <2>2, <2>3
<1>4. CASE backend = "cli"
  <2>. SUFFICES ASSUME M # {}, Len(from) = 1 PROVE IsLast(from[1], s)
    BY <1>1, <1>2, <1>4
  <2>1. DOMAIN archive = 1 .. Len(archive) /\ Len(archive) \in Nat
    BY ArchiveFacts
  <2>2. PICK n : n = Len(archive) /\ n \in Nat
    BY <2>1
  <2>3. PICK all : all = [k \in DOMAIN archive |-> k]
    OBVIOUS
  <2>4. all \in Seq(Nat) /\ Len(all) = n /\ \A k \in 1 .. n : all[k] = k
    BY <2>1, <2>2, <2>3
  <2>5. from = Subsequence(all, M)
    BY <1>1, <1>2, <1>4, <2>3, Zenon DEF ExtractMember
  <2>6. IsChosen(from, all, M, Nat)
    BY <2>4, <2>5, Subsequences
  <2>7. /\ \A i \in 1 .. Len(from) : \E j \in 1 .. Len(all) : j \in M /\ from[i] = all[j]
        /\ \A j \in 1 .. Len(all) : j \in M => \E i \in 1 .. Len(from) : from[i] = all[j]
    BY <2>6, Zenon DEF IsChosen
  <2>8. \A j \in M : j \in 1 .. n
    <3>1. \A j \in MembersOf(s) : j \in Files
      BY Zenon DEF MembersOf
    <3>. QED BY <1>2, <2>1, <2>2, <3>1, ArchiveFacts
  <2>9. from[1] \in M
    BY <2>4, <2>7
  <2>10. \A j \in M : j = from[1]
    BY <2>4, <2>7, <2>8
  <2>11. from[1] \in Nat
    BY <2>2, <2>8, <2>9
  <2>12. \A j \in M : j <= from[1]
    BY <2>10, <2>11
  <2>. QED BY <1>2, <2>9, <2>12, Zenon DEF IsLast
<1>5. backend \in {"cli", "native"}
  BY DEF IInv, TypeOK
<1>. QED BY <1>3, <1>4, <1>5

\* a loop stages a member it extracts on its own
LEMMA Alone ==
  ASSUME SInv, ~bulk, UNCHANGED <<vars, settings, stage, bulk, extracted>>,
         AtEntry("passthrough", "Passthrough") \/ AtEntry("nested", "ConvertNested"),
         NEW from \in ExtractMember(planned[at].source), NEW time,
         Append1(planned[at], from, time)
  PROVE  SInv'
<1>1. /\ UNCHANGED vars /\ planned' = planned /\ IInv
  BY DEF SInv, vars, inputs
<1>2. PICK k : k = at
  OBVIOUS
<1>3. /\ pc = "done" /\ stage # "planning" /\ k \in Planned /\ ~Behind(k) /\ at' \in 1 .. Len(planned) + 1
      /\ \A i \in Planned : Behind(i)' <=> Behind(i) \/ i = k
  BY <1>1, <1>2, AtIsPlanned
<1>4. PICK s : s = planned[k].source
  OBVIOUS
<1>5. normalize_member_path(s) = s
  BY <1>1, <1>3, <1>4, PlannedEntry
<1>6. from \in ExtractMember(s)
  BY <1>2, <1>4
<1>7. OneSpelling(s) => /\ StoredAs(s) # {} /\ Len(from) = 1 => IsLast(from[1], s)
                        /\ backend = "native" => from = <<Max(MembersOf(s))>>
  BY <1>1, <1>3, <1>5, <1>6, Extracted
<1>8. PICK entry : entry = [source |-> planned[k].source, dest |-> planned[k].dest,
                            from |-> from, meta |-> Or(planned[k].meta, FsMeta(time))]
  OBVIOUS
<1>9. OneStep /\ Len(from) = 1
         /\ (IF backend = "native" /\ bulk THEN TRUE
             ELSE OneSpelling(planned[k].source) /\ StoredAs(planned[k].source) # {})
         => IsLast(from[1], planned[k].source)
  BY <1>4, <1>7
<1>10. Goes(entry)
  BY <1>1, <1>3, <1>8, <1>9, NewGoes
<1>11. appended' = Append(appended, entry)
  BY <1>2, <1>8 DEF Append1
<1>12. ExtractedOK'
  BY <1>3, NotRemoved
<1>13. backend = "native" /\ OneStep /\ (bulk \/ OneSpelling(planned[k].source)) =>
         entry.from = <<Max(MembersOf(planned[k].source))>>
  BY <1>4, <1>7, <1>8
<1>14. entry.source = planned[k].source /\ entry.dest = planned[k].dest
  BY <1>8
<1>15. \A g \in extracted' : g \in extracted
  OBVIOUS
<1>. QED BY <1>3, <1>10, <1>11, <1>12, <1>13, <1>14, <1>15, AppendInv

\* what is left out has a name that the extraction does not know
LEMMA SkipMemberInv == SInv /\ SkipMember => SInv'
<1>. SUFFICES ASSUME SInv, SkipMember PROVE SInv'
  OBVIOUS
<1>1. /\ UNCHANGED <<vars, settings, stage, bulk, extracted, appended>> /\ Skippable
      /\ AtEntry("passthrough", "Passthrough") \/ AtEntry("nested", "ConvertNested")
  BY DEF SkipMember
<1>2. planned' = planned /\ IInv
  BY <1>1 DEF SInv, vars, inputs
<1>3. PICK k : k = at
  OBVIOUS
<1>4. /\ pc = "done" /\ stage # "planning" /\ k \in Planned /\ ~Behind(k) /\ at' \in 1 .. Len(planned) + 1
      /\ \A i \in Planned : Behind(i)' <=> Behind(i) \/ i = k
  BY <1>1, <1>2, <1>3, AtIsPlanned
<1>5. PICK s : s = planned[k].source
  OBVIOUS
<1>6. normalize_member_path(s) = s
  BY <1>2, <1>4, <1>5, PlannedEntry
<1>7. IF bulk THEN FindExtracted(s) = {} ELSE ExtractMember(s) \subseteq {<<>>}
  BY <1>1, <1>3, <1>5 DEF Skippable
<1>8. ASSUME backend = "native", OneStep, bulk PROVE FALSE
  <2>1. Held(s)
    BY <1>4, <1>5, <1>8 DEF SInv, ExtractedOK
  <2>. QED BY <1>7, <1>8, <2>1, HeldIsFound
<1>9. ASSUME backend = "native", OneStep, ~bulk, OneSpelling(s) PROVE FALSE
  <2>1. PICK j : j \in MembersOf(s)
    BY <1>2, <1>4, <1>5, <1>9, NativeSource
  <2>2. j \in StoredAs(s)
    BY <1>9, <2>1 DEF StoredAs, MembersOf, OneSpelling
  <2>3. ExtractMember(s) = {<<Max(StoredAs(s))>>}
    BY <1>9, <2>2, Zenon DEF ExtractMember
  <2>. QED BY <1>7, <1>9, <2>3
<1>10. ~ (backend = "native" /\ OneStep /\ (bulk \/ OneSpelling(planned[k].source)))
  BY <1>5, <1>8, <1>9
<1>. QED BY <1>1, <1>4, <1>10, SkipInv

\* nothing changes
LEMMA StagingStutter == SInv /\ UNCHANGED allVars => SInv'
<1>. SUFFICES ASSUME SInv, UNCHANGED allVars PROVE SInv'
  OBVIOUS
<1>1. UNCHANGED <<vars, settings, bulk, extracted, appended>> /\ stage' = stage /\ at' = at
  BY DEF allVars, staging
<1>2. stage \in {"planning", "passthrough", "nested", "staged"} /\ at \in 1 .. Len(planned) + 1
  BY DEF SInv, StagingTypeOK
<1>3. CASE stage = "planning"
  <2>1. IInv'
    BY <1>1, StutterInv DEF SInv
  <2>2. Unstaged'
    BY <1>1, <1>3, <2>1 DEF SInv, StageOK, StagingTypeOK, Unstaged
  <2>. QED BY <2>2, NoneYetNext
<1>4. CASE stage # "planning"
  <2>1. planned' = planned
    BY <1>1 DEF vars
  <2>2. \A k \in Planned : Behind(k)' <=> Behind(k)
    BY <1>1, <2>1 DEF Behind
  <2>. QED BY <1>1, <1>2, <1>4, <2>2, Passed
<1>. QED BY <1>3, <1>4

\* the job begins in the invariant of both parts
LEMMA StagingInitInv == StagingInit => SInv
<1>. SUFFICES ASSUME StagingInit PROVE SInv
  OBVIOUS
<1>1. IInv
  BY InitInv DEF StagingInit
<1>2. Unstaged
  BY <1>1 DEF StagingInit, Unstaged
<1>. QED BY <1>2, NoneYet

\* every step of the job keeps it
LEMMA StagingStep == SInv /\ [StagingNext]_allVars => SInv'
<1>. SUFFICES ASSUME SInv, [StagingNext]_allVars PROVE SInv'
  OBVIOUS
<1>1. CASE Planning
  BY <1>1, PlanningInv
<1>2. CASE NoBulk \/ BulkExtractFails
  BY <1>2, AloneInv
<1>3. CASE BulkExtract
  BY <1>3, BulkExtractInv
<1>4. CASE PassthroughFromBulk
  <2>1. PICK f \in FindExtracted(planned[at].source) :
          Append1(planned[at], <<f.from>>, MadeUp) /\ extracted' = extracted \ {f}
    BY <1>4 DEF PassthroughFromBulk
  <2>2. AtEntry("passthrough", "Passthrough") /\ bulk /\ UNCHANGED <<vars, settings, stage, bulk>>
    BY <1>4 DEF PassthroughFromBulk
  <2>. QED BY <2>1, <2>2, FromBulk
<1>5. CASE PassthroughAlone
  <2>1. PICK from \in ExtractMember(planned[at].source) : Append1(planned[at], from, MadeUp)
    BY <1>5 DEF PassthroughAlone
  <2>2. /\ AtEntry("passthrough", "Passthrough") /\ ~bulk
        /\ UNCHANGED <<vars, settings, stage, bulk, extracted>>
    BY <1>5 DEF PassthroughAlone
  <2>. QED BY <2>1, <2>2, Alone
<1>6. CASE NestedFromBulk
  <2>1. PICK f \in FindExtracted(planned[at].source) : Append1(planned[at], <<f.from>>, f.time)
    BY <1>6 DEF NestedFromBulk
  <2>2. /\ AtEntry("nested", "ConvertNested") /\ bulk
        /\ UNCHANGED <<vars, settings, stage, bulk, extracted>>
    BY <1>6 DEF NestedFromBulk
  <2>. QED BY <2>1, <2>2, FromBulk
<1>7. CASE NestedAlone
  <2>1. PICK from \in ExtractMember(planned[at].source) : Append1(planned[at], from, MadeUp)
    BY <1>7 DEF NestedAlone
  <2>2. /\ AtEntry("nested", "ConvertNested") /\ ~bulk
        /\ UNCHANGED <<vars, settings, stage, bulk, extracted>>
    BY <1>7 DEF NestedAlone
  <2>. QED BY <2>1, <2>2, Alone
<1>8. CASE SkipMember
  BY <1>8, SkipMemberInv
<1>9. CASE PassOver
  BY <1>9, PassOverInv
<1>10. CASE LoopDone
  BY <1>10, LoopDoneInv
<1>11. CASE UNCHANGED allVars
  BY <1>11, StagingStutter
<1>12. CASE Staged
  BY <1>11, <1>12 DEF Staged
<1>. QED BY <1>1, <1>2, <1>3, <1>4, <1>5, <1>6, <1>7, <1>8, <1>9, <1>10, <1>11, <1>12
         DEF StagingNext

\* The metadata and the bytes of what reaches the writer hang together in every state of
\* the job: the bulk directory, the place of the loop and the output agree (execute and
\* build_plan, src/pipeline/mod.rs).
THEOREM StagingInvariant == StagingSpec => []SInv
BY StagingInitInv, StagingStep, PTL DEF StagingSpec

\* The loops of execute stay in the plan, and a source path is appended at most once
\* (stage_passthrough, convert_nested_size_aware).
THEOREM StagingTypes == StagingSpec => []StagingTypeOK
<1>1. SInv => StagingTypeOK
  BY DEF SInv
<1>. QED BY <1>1, StagingInvariant, PTL

\* The times and attributes of an appended entry are those of the very member its bytes
\* come from, where MetaGoesWithBytes says so: enrich_entry_meta and the extraction agree
\* on which of several members of a path counts.
THEOREM MetaAndBytes == StagingSpec => []MetaGoesWithBytes
<1>1. SInv => MetaGoesWithBytes
  BY DEF SInv
<1>. QED BY <1>1, StagingInvariant, PTL

\* With the native backend each entry of the plan reaches the writer with the bytes of the
\* last member of its path, if the archive spells the path in one way or is extracted in
\* bulk (the loops of execute, find_extracted, extract_member).
THEOREM PlanIsStaged == StagingSpec => []StagedIsPlanned
<1>1. SInv => StagedIsPlanned
  <2>1. stage = "staged" => stage # "planning" /\ \A k \in Planned : Behind(k)
    BY DEF Behind
  <2>. QED BY <2>1 DEF SInv, StagedSoFar, StagedIsPlanned
<1>. QED BY <1>1, StagingInvariant, PTL

\* No two appended entries have one name: the destinations of the plan are distinct, and
\* each of its entries is appended at most once (transform_all, the loops of execute).
THEOREM NamesAreApart == StagingSpec => []AppendedApart
<1>1. SInv /\ DestinationsDistinct => AppendedApart
  <2>. SUFFICES ASSUME SInv, DestinationsDistinct, NEW i \in DOMAIN appended,
                       NEW j \in DOMAIN appended, appended[i].dest = appended[j].dest
                PROVE  i = j
    BY DEF AppendedApart
  <2>1. pc = "done"
    BY DEF SInv, StageOK
  <2>2. appended[i] \in ToSet(appended) /\ appended[j] \in ToSet(appended)
    BY DEF ToSet
  <2>3. PICK k \in Planned : /\ appended[i].source = planned[k].source
                             /\ appended[i].dest = planned[k].dest
    BY <2>2 DEF SInv, StagingTypeOK
  <2>4. PICK l \in Planned : /\ appended[j].source = planned[l].source
                             /\ appended[j].dest = planned[l].dest
    BY <2>2 DEF SInv, StagingTypeOK
  <2>5. k = l
    BY <2>1, <2>3, <2>4 DEF DestinationsDistinct
  <2>6. appended[i].source = appended[j].source
    BY <2>3, <2>4, <2>5
  <2>. QED BY <2>6 DEF SInv, StagingTypeOK
<1>. QED BY <1>1, StagingInvariant, DestinationsAreDistinct, PTL
=============================================================================
