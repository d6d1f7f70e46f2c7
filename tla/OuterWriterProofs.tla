------------------------- MODULE OuterWriterProofs -------------------------
(***************************************************************************)
(* Proofs about OuterWriter, for any producers, sizes and names, any of    *)
(* the three formats, and failing copies and panics of any of them: IInv   *)
(* is inductive, and with it a finished archive reads back as what was     *)
(* pushed, a poisoned one is never finished, and the writers implement     *)
(* OuterArchive.  Then about SevenZHeader: what write_raw_header writes is *)
(* read back as it was.                                                    *)
(***************************************************************************)
EXTENDS OuterWriter, FiniteSetTheorems, SequenceTheorems, DataInduction, TLAPS

-----------------------------------------------------------------------------
(***************************************************************************)
(* The invariant of the proofs.                                            *)
(***************************************************************************)

\* two members do not collide; in a directory none has the name of another's parent
NamesApart ==
  \A p, q \in Producers : p # q =>
    Name[p] # Name[q] /\ ("dir" \in Formats => ~IsPrefix(Name[p], Name[q]))

\* a producer is in its push exactly while it holds the mutex
MutexOK ==
  /\ \A p \in Producers : pc[p] \in {"locked", "streaming"} <=> mutex = p
  /\ \A p \in Producers : pc[p] = "panicked" => poisoned
  /\ poisoned => mutex = Free
  /\ \A p \in Producers : pc[p] \in {"ready", "locked"} => streamed[p] = 0
  /\ \A p \in Producers : pc[p] = "streaming" => format # "dir"
  /\ phase # "open" => ProducersDone
  /\ phase = "finished" => ~poisoned /\ count # 0

CountOK == IsFiniteSet(Written) /\ count = Cardinality(Written)

\* the n-th header entry is that of p, and so are the blocks a reader finds for it
IsEntryOf(n, p) ==
  /\ files[n] = [name |-> Name[p], size |-> Size[p], ctime |-> CTime[p]]
  /\ PackOffset(n) + Size[p] <= Len(data)
  /\ \A k \in 1 .. Size[p] : data[PackOffset(n) + k] = <<p, k>>

Open == PackOffset(Len(files) + 1)     \* where the next packed stream begins

SevenZOK ==
  format = "sevenz" /\ ~disk_fails =>
    /\ \A p \in Written : \E n \in 1 .. Len(files) : IsEntryOf(n, p)
    /\ \A n \in 1 .. Len(files) : \E p \in Written : IsEntryOf(n, p)
    /\ ~poisoned => Len(data) = Open + (IF mutex = Free THEN 0 ELSE streamed[mutex])
    /\ \A p \in Producers : pc[p] = "streaming" =>
         \A k \in 1 .. streamed[p] : data[Open + k] = <<p, k>>

Headers   == {h \in 1 .. Len(data) : data[h][2] = 0}
Owner(h)  == data[h][1]
Complete  == {h \in Headers : h + Size[Owner(h)] <= Len(data)}

\* each header block is followed by the blocks of its member and then by the next header
TarOK ==
  format = "tar" /\ ~disk_fails =>
    /\ data # <<>> => 1 \in Headers
    /\ \A h \in Headers :
         /\ \A k \in 1 .. Size[Owner(h)] : h + k <= Len(data) => data[h + k] = <<Owner(h), k>>
         /\ h + Size[Owner(h)] < Len(data) => h + Size[Owner(h)] + 1 \in Headers
         /\ pc[Owner(h)] \in {"streaming", "done", "panicked"}
    /\ \A h, g \in Headers : Owner(h) = Owner(g) => h = g
    /\ \A p \in Written : \E h \in Complete : Owner(h) = p
    /\ \A p \in Producers : pc[p] = "streaming" =>
         \E h \in Headers : Owner(h) = p /\ Len(data) = h + streamed[p]
    /\ ~poisoned => \A h \in Headers \ Complete : pc[Owner(h)] = "streaming"

DirOK == format = "dir" /\ ~disk_fails => tree = {Member(p) : p \in Written}

IInv == TypeOK /\ MutexOK /\ CountOK /\ SevenZOK /\ TarOK /\ DirOK

-----------------------------------------------------------------------------
(* Where the packed streams begin.                                         *)

\* PackOffset for any list of header entries
Sum(fs, n) == CHOOSE sum : sum = [i \in 0 .. n |-> IF i = 0 THEN 0 ELSE sum[i - 1] + fs[i].size]
Offset(fs, n) == Sum(fs, n)[n - 1]
IsSum(sum, fs, n) == sum = [i \in 0 .. n |-> IF i = 0 THEN 0 ELSE sum[i - 1] + fs[i].size]

LEMMA SumsExist ==
  ASSUME NEW fs, NEW m \in Nat
  PROVE  \E sum : IsSum(sum, fs, m)
<1>. DEFINE S == {n \in Nat : \E sum : IsSum(sum, fs, n)}
<1>1. 0 \in S
  <2>. DEFINE g == [i \in 0 .. 0 |-> 0]
  <2>1. g = [i \in 0 .. 0 |-> IF i = 0 THEN 0 ELSE g[i - 1] + fs[i].size]
    OBVIOUS
  <2>. QED BY <2>1 DEF IsSum
<1>2. ASSUME NEW n \in S PROVE n + 1 \in S
  <2>1. PICK sum : IsSum(sum, fs, n)
    OBVIOUS
  <2>. DEFINE g == [i \in 0 .. n + 1 |-> IF i = n + 1 THEN sum[n] + fs[n + 1].size ELSE sum[i]]
  <2>2. \A i \in 0 .. n : sum[i] = IF i = 0 THEN 0 ELSE sum[i - 1] + fs[i].size
    BY <2>1, Zenon DEF IsSum
  <2>3. ASSUME NEW i \in 0 .. n + 1
        PROVE  g[i] = IF i = 0 THEN 0 ELSE g[i - 1] + fs[i].size
    <3>1. CASE i = n + 1
      BY <3>1
    <3>2. CASE i # n + 1
      BY <2>2, <3>2
    <3>. QED BY <3>1, <3>2
  <2>4. g = [i \in 0 .. n + 1 |-> g[i]]
    OBVIOUS
  <2>. HIDE DEF g
  <2>5. g = [i \in 0 .. n + 1 |-> IF i = 0 THEN 0 ELSE g[i - 1] + fs[i].size]
    BY <2>3, <2>4, Zenon
  <2>6. \E h : IsSum(h, fs, n + 1)
    BY <2>5, Zenon DEF IsSum
  <2>. HIDE DEF g
  <2>. QED BY <2>6
<1>. HIDE DEF S
<1>3. S \subseteq Nat
  BY DEF S
<1>4. S = Nat
  BY <1>1, <1>2, <1>3, SetInduction
<1>. QED BY <1>4 DEF S

LEMMA SumIsSum ==
  ASSUME NEW fs, NEW n \in Nat
  PROVE  \A i \in 0 .. n : Sum(fs, n)[i] = IF i = 0 THEN 0 ELSE Sum(fs, n)[i - 1] + fs[i].size
<1>1. \E sum : sum = [i \in 0 .. n |-> IF i = 0 THEN 0 ELSE sum[i - 1] + fs[i].size]
  BY SumsExist DEF IsSum
<1>2. Sum(fs, n) = [i \in 0 .. n |-> IF i = 0 THEN 0 ELSE Sum(fs, n)[i - 1] + fs[i].size]
  BY <1>1, Zenon DEF Sum
<1>. QED BY <1>2, Zenon

\* sums over the same sizes are the same
LEMMA SumsAgree ==
  ASSUME NEW fs, NEW gs, NEW m \in Nat, NEW n \in Nat, NEW k \in Nat, k <= m, k <= n,
         \A i \in 1 .. k : fs[i].size = gs[i].size
  PROVE  \A i \in 0 .. k : Sum(fs, m)[i] = Sum(gs, n)[i]
<1>. DEFINE S == {i \in 0 .. k : Sum(fs, m)[i] = Sum(gs, n)[i]}
<1>1. 0 \in S
  BY SumIsSum
<1>2. ASSUME NEW i \in S, i < k PROVE i + 1 \in S
  <2>1. /\ Sum(fs, m)[i + 1] = Sum(fs, m)[i] + fs[i + 1].size
        /\ Sum(gs, n)[i + 1] = Sum(gs, n)[i] + gs[i + 1].size
    BY <1>2, SumIsSum
  <2>. QED BY <1>2, <2>1
<1>. HIDE DEF S
<1>3. \A i \in 0 .. k : i \in S
  BY <1>1, <1>2, BoundedInduction
<1>. QED BY <1>3 DEF S

LEMMA Offsets ==
  /\ \A n : PackOffset(n) = Offset(files, n)
  /\ \A n : PackOffset(n)' = Offset(files', n)
BY Zenon DEF PackOffset, Offset, Sum

LEMMA OffsetFirst == \A fs : Offset(fs, 1) = 0
BY SumIsSum DEF Offset

LEMMA OffsetNext ==
  ASSUME NEW fs, NEW n \in Nat, n >= 1
  PROVE  Offset(fs, n + 1) = Offset(fs, n) + fs[n].size
<1>1. Sum(fs, n + 1)[n] = Sum(fs, n + 1)[n - 1] + fs[n].size
  BY SumIsSum
<1>2. Sum(fs, n + 1)[n - 1] = Sum(fs, n)[n - 1]
  <2>. DEFINE m == n + 1
             k == n - 1
  <2>1. m \in Nat /\ k \in Nat /\ k <= m /\ k <= n
    OBVIOUS
  <2>2. \A i \in 1 .. k : fs[i].size = fs[i].size
    OBVIOUS
  <2>4. k \in 0 .. k
    OBVIOUS
  <2>. HIDE DEF m, k
  <2>3. \A i \in 0 .. k : Sum(fs, m)[i] = Sum(fs, n)[i]
    BY <2>1, <2>2, SumsAgree, SMTT(30)
  <2>5. Sum(fs, m)[k] = Sum(fs, n)[k]
    BY <2>3, <2>4
  <2>. QED BY <2>5 DEF m, k
<1>. QED BY <1>1, <1>2 DEF Offset

LEMMA OffsetKept ==
  ASSUME NEW fs, NEW gs, NEW n \in Nat, n >= 1,
         \A i \in 1 .. n - 1 : fs[i].size = gs[i].size
  PROVE  Offset(fs, n) = Offset(gs, n)
BY SumsAgree DEF Offset

LEMMA OffsetType ==
  ASSUME NEW fs, NEW m \in Nat, \A i \in 1 .. m : fs[i].size \in Nat
  PROVE  \A n \in 1 .. m + 1 : Offset(fs, n) \in Nat
<1>. DEFINE S == {i \in 0 .. m : Offset(fs, i + 1) \in Nat}
<1>1. 0 \in S
  BY OffsetFirst
<1>2. ASSUME NEW i \in S, i < m PROVE i + 1 \in S
  BY <1>2, OffsetNext
<1>. HIDE DEF S
<1>3. \A i \in 0 .. m : i \in S
  BY <1>1, <1>2, BoundedInduction
<1>4. \A n \in 1 .. m + 1 : n - 1 \in 0 .. m /\ (n - 1) + 1 = n
  OBVIOUS
<1>. QED BY <1>3, <1>4 DEF S

-----------------------------------------------------------------------------
(* The members, and sequences that grow.                                   *)

LEMMA Grown ==
  ASSUME NEW S, NEW s \in Seq(S), NEW e \in S
  PROVE  /\ Append(s, e) \in Seq(S)
         /\ Len(Append(s, e)) = Len(s) + 1
         /\ \A i \in 1 .. Len(s) : Append(s, e)[i] = s[i]
         /\ Append(s, e)[Len(s) + 1] = e
OBVIOUS

LEMMA Contents ==
  ASSUME NEW p \in Producers
  PROVE  /\ Size[p] \in Nat
         /\ Content(p) \in Seq(Producers \X Nat)
         /\ Len(Content(p)) = Size[p]
         /\ \A k \in 1 .. Size[p] : Content(p)[k] = <<p, k>>
<1>1. Size[p] \in Nat
  BY MemberAssumption
<1>2. \A k \in 1 .. Size[p] : <<p, k>> \in Producers \X Nat
  OBVIOUS
<1>. QED BY <1>1, <1>2 DEF Content

LEMMA PrefixType ==
  ASSUME NEW p \in Producers, NEW k \in 0 .. Size[p]
  PROVE  SubSeq(Content(p), 1, k) \in Seq(Producers \X Nat)
<1>1. \A i \in 1 .. k : Content(p)[i] \in Producers \X Nat
  BY Contents
<1>2. k \in Int /\ 1 \in Int
  BY Contents
<1>. QED BY <1>1, <1>2, SubSeqProperties, Zenon

\* a reader that finds the blocks of a member one after another has its content
LEMMA ContentFound ==
  ASSUME NEW p \in Producers, NEW s, NEW m \in Nat,
         \A k \in 1 .. Size[p] : s[m + k] = <<p, k>>
  PROVE  SubSeq(s, m + 1, m + Size[p]) = Content(p)
<1>. DEFINE t == SubSeq(s, m + 1, m + Size[p])
<1>1. Size[p] \in Nat
  BY Contents
<1>2. \A i \in m + 1 .. m + Size[p] : s[i] \in Producers \X Nat
  <2>1. ASSUME NEW i \in m + 1 .. m + Size[p] PROVE s[i] = <<p, i - m>> /\ i - m \in Nat
    <3>1. i - m \in 1 .. Size[p] /\ m + (i - m) = i
      BY <1>1
    <3>. QED BY <3>1
  <2>. QED BY <2>1
<1>3. /\ t \in Seq(Producers \X Nat)
      /\ Len(t) = IF m + 1 <= m + Size[p] THEN (m + Size[p]) - (m + 1) + 1 ELSE 0
      /\ \A i \in 1 .. (m + Size[p]) - (m + 1) + 1 : t[i] = s[(m + 1) + i - 1]
  <2>. DEFINE a == m + 1
             b == m + Size[p]
             S == Producers \X Nat
  <2>1. a \in Int /\ b \in Int
    BY <1>1
  <2>2. \A i \in a .. b : s[i] \in S
    BY <1>2
  <2>. HIDE DEF a, b, S
  <2>3. /\ SubSeq(s, a, b) \in Seq(S)
        /\ Len(SubSeq(s, a, b)) = IF a <= b THEN b - a + 1 ELSE 0
        /\ \A i \in 1 .. b - a + 1 : SubSeq(s, a, b)[i] = s[a + i - 1]
    BY ONLY <2>1, <2>2, SubSeqProperties
  <2>. QED BY <2>3, Zenon DEF a, b, S, t
<1>. HIDE DEF t
<1>4. Len(t) = Size[p]
  BY <1>1, <1>3
<1>5. \A i \in 1 .. Size[p] : t[i] = <<p, i>>
  <2>1. ASSUME NEW i \in 1 .. Size[p] PROVE t[i] = <<p, i>>
    <3>1. i \in 1 .. (m + Size[p]) - (m + 1) + 1 /\ (m + 1) + i - 1 = m + i
      BY <1>1
    <3>. QED BY <1>3, <3>1
  <2>. QED BY <2>1
<1>6. t = Content(p)
  <2>1. Content(p) \in Seq(Producers \X Nat) /\ Len(Content(p)) = Size[p]
    BY Contents
  <2>2. \A i \in 1 .. Size[p] : Content(p)[i] = <<p, i>>
    BY Contents
  <2>3. \A i \in 1 .. Len(t) : t[i] = Content(p)[i]
    BY <1>4, <1>5, <2>2
  <2>. QED BY ONLY <1>3, <1>4, <2>1, <2>3, SeqEqual
<1>. QED BY <1>6 DEF t

-----------------------------------------------------------------------------
(* The domains of the state.                                               *)

States == {"ready", "locked", "streaming", "done", "skipped", "panicked"}
Blocks == Producers \X Nat
Names  == {Name[p] : p \in Producers}
Times  == {CTime[p] : p \in Producers}

LEMMA InitTypes == Init => TypeOK
<1>. SUFFICES ASSUME Init PROVE TypeOK
  OBVIOUS
<1>1. \A p \in Producers : 0 \in 0 .. Size[p]
  BY Contents
<1>2. streamed \in [Producers -> Nat] /\ \A p \in Producers : streamed[p] <= Size[p]
  BY <1>1 DEF Init
<1>3. pc \in [Producers -> States]
  BY DEF Init, States
<1>4. data \in Seq(Blocks) /\ tree = {} /\ count \in Nat
  BY DEF Init
<1>5. files \in Seq([name : Names, size : Nat, ctime : Times])
  BY DEF Init
<1>. QED BY <1>2, <1>3, <1>4, <1>5 DEF Init, TypeOK, States, Blocks, Names, Times

LEMMA UnlockTypes ==
  ASSUME TypeOK, NEW p \in Producers, NEW outcome \in States, Unlock(p, outcome)
  PROVE  /\ mutex' \in Producers \cup {Free}
         /\ pc' \in [Producers -> States]
BY DEF TypeOK, Unlock, States

LEMMA NextTypes == TypeOK /\ [Next]_vars => TypeOK'
<1>. SUFFICES ASSUME TypeOK, [Next]_vars PROVE TypeOK'
  OBVIOUS
<1>. USE DEF setting
<1>1. ASSUME NEW p \in Producers, Lock(p) PROVE TypeOK'
  BY <1>1 DEF TypeOK, Lock
<1>2. ASSUME NEW p \in Producers, LockPoisoned(p) PROVE TypeOK'
  BY <1>2 DEF TypeOK, LockPoisoned
<1>3. ASSUME NEW p \in Producers, PushRefused(p) PROVE TypeOK'
  BY <1>3, UnlockTypes DEF TypeOK, PushRefused, States
<1>4. ASSUME NEW p \in Producers, PushPanic(p) PROVE TypeOK'
  BY <1>4, UnlockTypes DEF TypeOK, PushPanic, States
<1>5. ASSUME NEW p \in Producers, StartStream(p) PROVE TypeOK'
  <2>1. <<p, 0>> \in Producers \X Nat
    OBVIOUS
  <2>2. data' \in Seq(Producers \X Nat)
    BY <1>5, <2>1, Grown DEF StartStream, TypeOK
  <2>. QED BY <1>5, <2>2 DEF TypeOK, StartStream
<1>6. ASSUME NEW p \in Producers, CopyBlock(p) PROVE TypeOK'
  <2>1. streamed[p] \in Nat /\ streamed[p] + 1 \in 0 .. Size[p] /\ streamed[p] + 1 \in 1 .. Size[p]
    <3>1. streamed[p] \in Nat
      BY DEF TypeOK
    <3>2. Size[p] \in Nat
      BY MemberAssumption
    <3>3. streamed[p] < Size[p]
      BY <1>6 DEF CopyBlock
    <3>. QED BY <3>1, <3>2, <3>3
  <2>2. streamed' \in [Producers -> Nat] /\ \A q \in Producers : streamed'[q] <= Size[q]
    BY <1>6, <2>1 DEF CopyBlock, TypeOK
  <2>3. Content(p)[streamed[p] + 1] \in Producers \X Nat
    BY <2>1, Contents
  <2>4. data' \in Seq(Producers \X Nat)
    BY <1>6, <2>3, Grown DEF CopyBlock, TypeOK
  <2>. QED BY <1>6, <2>2, <2>4 DEF TypeOK, CopyBlock
<1>7. ASSUME NEW p \in Producers, CopyFails(p) PROVE TypeOK'
  BY <1>7, UnlockTypes DEF TypeOK, CopyFails, States
<1>8. ASSUME NEW p \in Producers, EndStream(p) PROVE TypeOK'
  <2>1. HeaderFile(p) \in [name : Names, size : Nat, ctime : Times]
    BY Contents DEF HeaderFile, TypeOK, Names, Times
  <2>2. files' \in Seq([name : Names, size : Nat, ctime : Times])
    <3>1. files \in Seq([name : Names, size : Nat, ctime : Times])
      BY DEF TypeOK, Names, Times
    <3>. HIDE DEF TypeOK
    <3>. QED BY <1>8, <2>1, <3>1, Grown DEF EndStream
  <2>3. mutex' \in Producers \cup {Free} /\ pc' \in [Producers -> States]
    BY <1>8, UnlockTypes DEF EndStream, States
  <2>4. count' \in Nat
    BY <1>8 DEF EndStream, TypeOK
  <2>. QED BY <1>8, <2>2, <2>3, <2>4 DEF TypeOK, EndStream, States, Names, Times
<1>9. ASSUME NEW p \in Producers, DirPlace(p) PROVE TypeOK'
  <2>1. Member(p) \in [name : Names, content : Seq(Producers \X Nat)]
    BY Contents DEF Member, Names
  <2>2. tree' \subseteq [name : Names, content : Seq(Producers \X Nat)]
    BY <1>9, <2>1, Zenon DEF DirPlace, TypeOK, Names
  <2>3. mutex' \in Producers \cup {Free} /\ pc' \in [Producers -> States]
    BY <1>9, UnlockTypes DEF DirPlace, States
  <2>4. count' \in Nat
    BY <1>9 DEF DirPlace, TypeOK
  <2>. QED BY <1>9, <2>2, <2>3, <2>4 DEF TypeOK, DirPlace, States, Names
<1>10. ASSUME NEW p \in Producers, DirPlaceFails(p) PROVE TypeOK'
  <2>. DEFINE part(k) == [name |-> Name[p], content |-> SubSeq(Content(p), 1, k)]
  <2>1. PICK k \in 0 .. Size[p] :
          tree' \in {tree \ Under(Name[p]), (tree \ Under(Name[p])) \cup {part(k)}}
    BY <1>10 DEF DirPlaceFails
  <2>2. part(k) \in [name : Names, content : Seq(Producers \X Nat)]
    BY PrefixType DEF Names
  <2>3. tree' \subseteq [name : Names, content : Seq(Producers \X Nat)]
    <3>. DEFINE Files == [name : Names, content : Seq(Producers \X Nat)]
    <3>1. tree \subseteq Files
      BY DEF TypeOK, Names
    <3>2. part(k) \in Files
      BY <2>2
    <3>. HIDE DEF part, Files
    <3>3. tree' \subseteq Files
      BY ONLY <2>1, <3>1, <3>2
    <3>. QED BY <3>3 DEF Files
  <2>4. mutex' \in Producers \cup {Free} /\ pc' \in [Producers -> States]
    BY <1>10, UnlockTypes DEF DirPlaceFails, States
  <2>. QED BY <1>10, <2>3, <2>4 DEF TypeOK, DirPlaceFails, States, Names
<1>11. CASE Finish
  BY <1>11 DEF TypeOK, Finish
<1>12. CASE UNCHANGED vars
  BY <1>12 DEF TypeOK, vars
<1>. QED
  BY <1>1, <1>2, <1>3, <1>4, <1>5, <1>6, <1>7, <1>8, <1>9, <1>10, <1>11, <1>12
  DEF Next, Push, Terminated

-----------------------------------------------------------------------------
(* Who holds the mutex, and how many members there are.                    *)

LEMMA Pushing ==
  ASSUME MutexOK, NEW p \in Producers
  PROVE  /\ pc[p] \in {"ready", "locked", "streaming"} => phase = "open"
         /\ pc[p] \in {"locked", "streaming"} => mutex = p /\ ~poisoned
         /\ pc[p] \in {"ready", "locked"} => streamed[p] = 0
         /\ pc[p] = "streaming" => format # "dir"
BY MemberAssumption DEF MutexOK, ProducersDone

\* while one producer is in its push no other one is
LEMMA Alone ==
  ASSUME MutexOK, NEW p \in Producers, pc[p] \in {"locked", "streaming"},
         NEW q \in Producers, q # p
  PROVE  pc[q] \notin {"locked", "streaming"}
BY DEF MutexOK

LEMMA UnlockMutex ==
  ASSUME TypeOK, MutexOK, NEW p \in Producers, pc[p] \in {"locked", "streaming"},
         NEW outcome \in {"done", "skipped", "panicked"}, Unlock(p, outcome),
         UNCHANGED <<format, streamed, phase>>,
         poisoned' = IF outcome = "panicked" THEN TRUE ELSE poisoned
  PROVE  MutexOK'
<1>. USE DEF TypeOK
<1>1. /\ pc'[p] = outcome
      /\ \A q \in Producers : q # p => pc'[q] = pc[q]
      /\ mutex' = Free
  BY DEF Unlock
<1>2. mutex = p /\ ~poisoned /\ phase = "open"
  BY Pushing
<1>3. \A q \in Producers : pc'[q] \notin {"locked", "streaming"}
  BY <1>1, Alone
<1>. QED BY <1>1, <1>2, <1>3, MemberAssumption DEF MutexOK

LEMMA InitMutex == Init => MutexOK /\ CountOK
<1>. SUFFICES ASSUME Init PROVE MutexOK /\ CountOK
  OBVIOUS
<1>1. Written = {}
  BY DEF Written, Init
<1>2. CountOK
  BY <1>1, FS_EmptySet DEF CountOK, Init
<1>3. MutexOK
  BY MemberAssumption DEF MutexOK, Init
<1>. QED BY <1>2, <1>3

LEMMA NextMutex == TypeOK /\ MutexOK /\ CountOK /\ [Next]_vars => MutexOK'
<1>. SUFFICES ASSUME TypeOK, MutexOK, CountOK, [Next]_vars PROVE MutexOK'
  OBVIOUS
<1>. USE DEF setting
<1>1. ASSUME NEW p \in Producers, Lock(p) PROVE MutexOK'
  BY <1>1, MemberAssumption DEF TypeOK, MutexOK, Lock, ProducersDone
<1>2. ASSUME NEW p \in Producers, LockPoisoned(p) PROVE MutexOK'
  BY <1>2, MemberAssumption DEF TypeOK, MutexOK, LockPoisoned, ProducersDone
<1>3. ASSUME NEW p \in Producers, PushRefused(p) PROVE MutexOK'
  <2>1. /\ pc[p] \in {"locked", "streaming"} /\ Unlock(p, "skipped")
        /\ UNCHANGED <<format, streamed, phase>>
        /\ poisoned' = poisoned
    BY <1>3 DEF PushRefused
  <2>. QED BY <2>1, UnlockMutex
<1>4. ASSUME NEW p \in Producers, PushPanic(p) PROVE MutexOK'
  <2>1. /\ pc[p] \in {"locked", "streaming"} /\ Unlock(p, "panicked")
        /\ UNCHANGED <<format, streamed, phase>>
        /\ poisoned' = TRUE
    BY <1>4 DEF PushPanic
  <2>. QED BY <2>1, UnlockMutex
<1>5. ASSUME NEW p \in Producers, StartStream(p) PROVE MutexOK'
  BY <1>5, Pushing DEF TypeOK, MutexOK, StartStream, ProducersDone
<1>6. ASSUME NEW p \in Producers, CopyBlock(p) PROVE MutexOK'
  <2>1. \A q \in Producers : pc[q] \in {"ready", "locked"} => streamed'[q] = streamed[q]
    <3>1. ASSUME NEW q \in Producers, pc[q] \in {"ready", "locked"}
          PROVE  streamed'[q] = streamed[q]
      BY <1>6, <3>1 DEF CopyBlock, MutexOK
    <3>. QED BY <3>1
  <2>. QED BY <1>6, <2>1 DEF TypeOK, MutexOK, CopyBlock, ProducersDone
<1>7. ASSUME NEW p \in Producers, CopyFails(p) PROVE MutexOK'
  <2>1. /\ pc[p] \in {"locked", "streaming"} /\ Unlock(p, "skipped")
        /\ UNCHANGED <<format, streamed, phase>>
        /\ poisoned' = poisoned
    BY <1>7 DEF CopyFails
  <2>. QED BY <2>1, UnlockMutex
<1>8. ASSUME NEW p \in Producers, EndStream(p) PROVE MutexOK'
  <2>1. /\ pc[p] \in {"locked", "streaming"} /\ Unlock(p, "done")
        /\ UNCHANGED <<format, streamed, phase>>
        /\ poisoned' = poisoned
    BY <1>8 DEF EndStream
  <2>. QED BY <2>1, UnlockMutex
<1>9. ASSUME NEW p \in Producers, DirPlace(p) PROVE MutexOK'
  <2>1. /\ pc[p] \in {"locked", "streaming"} /\ Unlock(p, "done")
        /\ UNCHANGED <<format, streamed, phase>>
        /\ poisoned' = poisoned
    BY <1>9 DEF DirPlace
  <2>. QED BY <2>1, UnlockMutex
<1>10. ASSUME NEW p \in Producers, DirPlaceFails(p) PROVE MutexOK'
  <2>1. /\ pc[p] \in {"locked", "streaming"} /\ Unlock(p, "skipped")
        /\ UNCHANGED <<format, streamed, phase>>
        /\ poisoned' = poisoned
    BY <1>10 DEF DirPlaceFails
  <2>. QED BY <2>1, UnlockMutex
<1>11. CASE Finish
  BY <1>11 DEF Finish, MutexOK, ProducersDone
<1>12. CASE UNCHANGED vars
  BY <1>12 DEF MutexOK, vars, ProducersDone
<1>. QED
  BY <1>1, <1>2, <1>3, <1>4, <1>5, <1>6, <1>7, <1>8, <1>9, <1>10, <1>11, <1>12
  DEF Next, Push, Terminated

\* the members written change only when a push returns Ok
LEMMA WrittenMoves ==
  ASSUME TypeOK, NEW p \in Producers, pc[p] # "done", NEW outcome,
         pc' = [pc EXCEPT ![p] = outcome]
  PROVE  /\ p \notin Written
         /\ Written' = IF outcome = "done" THEN Written \cup {p} ELSE Written
<1>1. pc'[p] = outcome /\ \A q \in Producers : q # p => pc'[q] = pc[q]
  BY DEF TypeOK
<1>. QED BY <1>1 DEF Written

LEMMA WrittenKept ==
  ASSUME TypeOK, NEW p \in Producers,
         \/ Lock(p) \/ LockPoisoned(p) \/ PushRefused(p) \/ PushPanic(p) \/ StartStream(p)
         \/ CopyBlock(p) \/ CopyFails(p) \/ DirPlaceFails(p)
  PROVE  Written' = Written /\ count' = count
<1>1. CASE Lock(p)
  BY <1>1, WrittenMoves DEF Lock
<1>2. CASE LockPoisoned(p)
  BY <1>2, WrittenMoves DEF LockPoisoned
<1>3. CASE PushRefused(p)
  BY <1>3, WrittenMoves DEF PushRefused, Unlock
<1>4. CASE PushPanic(p)
  <2>1. pc[p] # "done" /\ pc' = [pc EXCEPT ![p] = "panicked"] /\ count' = count
    BY <1>4 DEF PushPanic, Unlock
  <2>2. "panicked" # "done"
    OBVIOUS
  <2>. QED BY ONLY TypeOK, <2>1, <2>2, WrittenMoves
<1>5. CASE StartStream(p)
  <2>1. pc[p] # "done" /\ pc' = [pc EXCEPT ![p] = "streaming"] /\ count' = count
    BY <1>5 DEF StartStream
  <2>2. "streaming" # "done"
    OBVIOUS
  <2>. QED BY ONLY TypeOK, <2>1, <2>2, WrittenMoves
<1>6. CASE CopyFails(p)
  <2>1. pc[p] # "done" /\ pc' = [pc EXCEPT ![p] = "skipped"] /\ count' = count
    BY <1>6 DEF CopyFails, Unlock
  <2>2. "skipped" # "done"
    OBVIOUS
  <2>. QED BY ONLY TypeOK, <2>1, <2>2, WrittenMoves
<1>7. CASE DirPlaceFails(p)
  BY <1>7, WrittenMoves DEF DirPlaceFails, Unlock
<1>8. CASE CopyBlock(p)
  BY <1>8 DEF CopyBlock, Written
<1>. QED BY <1>1, <1>2, <1>3, <1>4, <1>5, <1>6, <1>7, <1>8

LEMMA WrittenGrows ==
  ASSUME TypeOK, NEW p \in Producers, EndStream(p) \/ DirPlace(p)
  PROVE  p \notin Written /\ Written' = Written \cup {p} /\ count' = count + 1
<1>1. CASE EndStream(p)
  BY <1>1, WrittenMoves DEF EndStream, Unlock
<1>2. CASE DirPlace(p)
  BY <1>2, WrittenMoves DEF DirPlace, Unlock
<1>. QED BY <1>1, <1>2

LEMMA NextCount == TypeOK /\ CountOK /\ [Next]_vars => CountOK'
<1>. SUFFICES ASSUME TypeOK, CountOK, [Next]_vars PROVE CountOK'
  OBVIOUS
<1>1. CASE Written' = Written /\ count' = count
  BY <1>1 DEF CountOK
<1>2. ASSUME NEW p \in Producers,
             p \notin Written /\ Written' = Written \cup {p} /\ count' = count + 1
      PROVE  CountOK'
  BY <1>2, FS_AddElement DEF CountOK
<1>3. ASSUME NEW p \in Producers, Push(p) PROVE CountOK'
  BY <1>1, <1>2, <1>3, WrittenKept, WrittenGrows DEF Push
<1>4. CASE Finish
  BY <1>1, <1>4 DEF Finish, Written
<1>5. CASE UNCHANGED vars
  BY <1>1, <1>5 DEF vars, Written
<1>. QED BY <1>3, <1>4, <1>5 DEF Next, Terminated

-----------------------------------------------------------------------------
(* The 7z file.                                                            *)

Entries ==
  /\ \A p \in Written : \E n \in 1 .. Len(files) : IsEntryOf(n, p)
  /\ \A n \in 1 .. Len(files) : \E p \in Written : IsEntryOf(n, p)

Packed == ~poisoned => Len(data) = Open + (IF mutex = Free THEN 0 ELSE streamed[mutex])

Copied ==
  \A p \in Producers : pc[p] = "streaming" =>
    \A k \in 1 .. streamed[p] : data[Open + k] = <<p, k>>

LEMMA OffsetsAreNat ==
  ASSUME TypeOK
  PROVE  /\ \A n \in 1 .. Len(files) + 1 : PackOffset(n) \in Nat
         /\ Len(files) \in Nat /\ Len(data) \in Nat
<1>1. Len(files) \in Nat /\ \A i \in 1 .. Len(files) : files[i].size \in Nat
  <2>. DEFINE E == [name : Names, size : Nat, ctime : Times]
  <2>1. files \in Seq(E)
    BY DEF TypeOK, Names, Times
  <2>2. \A e \in E : e.size \in Nat
    OBVIOUS
  <2>. HIDE DEF E
  <2>3. Len(files) \in Nat /\ \A i \in 1 .. Len(files) : files[i] \in E
    BY <2>1
  <2>. QED BY <2>2, <2>3
<1>2. Len(data) \in Nat
  BY DEF TypeOK
<1>. HIDE DEF TypeOK
<1>. QED BY <1>1, <1>2, OffsetType, Offsets

\* what is in the file stays where it is
LEMMA EntryKept ==
  ASSUME TypeOK, NEW n \in 1 .. Len(files), NEW p \in Producers, IsEntryOf(n, p),
         Len(data') \in Nat, Len(data') >= Len(data),
         \A i \in 1 .. Len(data) : data'[i] = data[i],
         \A i \in 1 .. Len(files) : files'[i] = files[i]
  PROVE  IsEntryOf(n, p)'
<1>1. PackOffset(n) \in Nat /\ Len(files) \in Nat /\ Len(data) \in Nat
  BY OffsetsAreNat
<1>2. PackOffset(n)' = PackOffset(n)
  <2>1. n \in Nat /\ n >= 1 /\ \A i \in 1 .. n - 1 : files[i].size = files'[i].size
    BY <1>1
  <2>2. Offset(files, n) = Offset(files', n)
    BY <2>1, OffsetKept
  <2>. QED BY <2>2, Offsets
<1>3. \A k \in 1 .. Size[p] : data'[PackOffset(n) + k] = <<p, k>>
  <2>1. ASSUME NEW k \in 1 .. Size[p] PROVE data'[PackOffset(n) + k] = <<p, k>>
    <3>1. PackOffset(n) + k \in 1 .. Len(data)
      BY <1>1, Contents, SMTT(30) DEF IsEntryOf
    <3>. QED BY <3>1 DEF IsEntryOf
  <2>. QED BY <2>1
<1>4. PackOffset(n) + Size[p] <= Len(data')
  BY <1>1, Contents DEF IsEntryOf
<1>5. files'[n] = [name |-> Name[p], size |-> Size[p], ctime |-> CTime[p]]
  BY DEF IsEntryOf
<1>. QED BY <1>2, <1>3, <1>4, <1>5 DEF IsEntryOf

LEMMA EntriesKept ==
  ASSUME TypeOK, Entries, files' = files, Written' = Written,
         Len(data') \in Nat, Len(data') >= Len(data),
         \A i \in 1 .. Len(data) : data'[i] = data[i]
  PROVE  Entries'
<1>1. ASSUME NEW n \in 1 .. Len(files), NEW p \in Producers, IsEntryOf(n, p)
      PROVE  IsEntryOf(n, p)'
  BY <1>1, EntryKept
<1>2. Written \subseteq Producers
  BY DEF Written
<1>3. \A p \in Written' : \E n \in 1 .. Len(files') : IsEntryOf(n, p)'
  BY <1>1, <1>2 DEF Entries
<1>4. \A n \in 1 .. Len(files') : \E p \in Written' : IsEntryOf(n, p)'
  BY <1>1, <1>2 DEF Entries
<1>. QED BY <1>3, <1>4 DEF Entries

LEMMA OpenKept ==
  ASSUME files' = files
  PROVE  Open' = Open
BY Offsets DEF Open

LEMMA InitSevenZ == Init => SevenZOK
<1>. SUFFICES ASSUME Init PROVE SevenZOK
  OBVIOUS
<1>1. Open = 0
  BY Offsets, OffsetFirst DEF Init, Open
<1>2. Written = {}
  BY DEF Written, Init
<1>3. Len(data) = 0 /\ Len(files) = 0 /\ mutex = Free
  BY DEF Init
<1>4. \A p \in Producers : pc[p] # "streaming"
  BY DEF Init
<1>. QED BY <1>1, <1>2, <1>3, <1>4 DEF SevenZOK

LEMMA NextSevenZ == TypeOK /\ MutexOK /\ SevenZOK /\ [Next]_vars => SevenZOK'
<1>. SUFFICES ASSUME TypeOK, MutexOK, SevenZOK, [Next]_vars,
                     format' = "sevenz", ~disk_fails'
              PROVE  Entries' /\ Packed' /\ Copied'
  BY DEF SevenZOK, Entries, Packed, Copied
<1>. USE DEF setting
<1>a. format = "sevenz" /\ ~disk_fails
  BY DEF Next, Push, Finish, Terminated, vars, Lock, LockPoisoned, PushRefused, PushPanic,
         StartStream, CopyBlock, CopyFails, EndStream, DirPlace, DirPlaceFails
<1>b. Entries /\ Packed /\ Copied
  BY <1>a DEF SevenZOK, Entries, Packed, Copied
<1>c. /\ Len(data) \in Nat /\ Open \in Nat
      /\ \A q \in Producers : streamed[q] \in Nat
  <2>1. Len(files) + 1 \in 1 .. Len(files) + 1
    BY OffsetsAreNat
  <2>2. \A q \in Producers : streamed[q] \in Nat
    BY DEF TypeOK
  <2>. QED BY <2>1, <2>2, OffsetsAreNat DEF Open
\* a step that leaves the file alone
<1>d. ASSUME files' = files, data' = data, Written' = Written
      PROVE  Entries' /\ Open' = Open
  BY <1>b, <1>c, <1>d, EntriesKept, OpenKept
<1>1. ASSUME NEW p \in Producers, Lock(p) PROVE Entries' /\ Packed' /\ Copied'
  <2>1. files' = files /\ data' = data /\ Written' = Written
    BY <1>1, WrittenKept DEF Lock
  <2>2. Packed'
    BY <1>1, <1>b, <1>c, <1>d, <2>1, Pushing, MemberAssumption DEF Packed, Lock
  <2>3. Copied'
    BY <1>1, <1>b, <1>d, <2>1 DEF Copied, Lock, TypeOK
  <2>. QED BY <1>d, <2>1, <2>2, <2>3
<1>2. ASSUME NEW p \in Producers, LockPoisoned(p) PROVE Entries' /\ Packed' /\ Copied'
  <2>1. files' = files /\ data' = data /\ Written' = Written
    BY <1>2, WrittenKept DEF LockPoisoned
  <2>2. Packed'
    BY <1>2 DEF Packed, LockPoisoned
  <2>3. Copied'
    BY <1>2, <1>b, <1>d, <2>1 DEF Copied, LockPoisoned, TypeOK
  <2>. QED BY <1>d, <2>1, <2>2, <2>3
<1>3. ASSUME NEW p \in Producers, PushRefused(p) PROVE Entries' /\ Packed' /\ Copied'
  <2>1. files' = files /\ data' = data /\ Written' = Written
    BY <1>3, WrittenKept DEF PushRefused
  <2>2. mutex = p /\ ~poisoned /\ streamed[p] = 0 /\ p # Free
    BY <1>3, Pushing, MemberAssumption DEF PushRefused
  <2>3. Packed'
    BY <1>3, <1>b, <1>c, <1>d, <2>1, <2>2 DEF Packed, PushRefused, Unlock
  <2>4. Copied'
    BY <1>3, <1>b, <1>d, <2>1 DEF Copied, PushRefused, Unlock, TypeOK
  <2>. QED BY <1>d, <2>1, <2>3, <2>4
<1>4. ASSUME NEW p \in Producers, PushPanic(p) PROVE Entries' /\ Packed' /\ Copied'
  <2>1. files' = files /\ data' = data /\ Written' = Written
    BY <1>4, WrittenKept DEF PushPanic
  <2>2. Packed'
    BY <1>4 DEF Packed, PushPanic
  <2>3. Copied'
    BY <1>4, <1>b, <1>d, <2>1 DEF Copied, PushPanic, Unlock, TypeOK
  <2>. QED BY <1>d, <2>1, <2>2, <2>3
<1>5. ASSUME NEW p \in Producers, StartStream(p) PROVE Entries' /\ Packed' /\ Copied'
  <2>1. files' = files /\ data' = data /\ Written' = Written
    BY <1>5, <1>a, WrittenKept DEF StartStream
  <2>2. Packed'
    BY <1>5, <1>b, <1>d, <2>1 DEF Packed, StartStream
  <2>3. pc[p] = "locked" /\ streamed[p] = 0 /\ streamed' = streamed
    BY <1>5, Pushing DEF StartStream
  <2>4. Copied'
    BY <1>5, <1>b, <1>d, <2>1, <2>3 DEF Copied, StartStream, TypeOK
  <2>. QED BY <1>d, <2>1, <2>2, <2>4
<1>6. ASSUME NEW p \in Producers, CopyBlock(p) PROVE Entries' /\ Packed' /\ Copied'
  <2>1. /\ files' = files /\ Written' = Written /\ mutex' = mutex /\ pc' = pc
        /\ poisoned' = poisoned
    BY <1>6, WrittenKept DEF CopyBlock
  <2>2. mutex = p /\ ~poisoned /\ p # Free
    BY <1>6, Pushing, MemberAssumption DEF CopyBlock
  <2>3. streamed[p] + 1 \in 1 .. Size[p] /\ streamed'[p] = streamed[p] + 1
    <3>1. streamed[p] + 1 \in 1 .. Size[p]
      BY <1>6, <1>c, Contents DEF CopyBlock
    <3>2. streamed'[p] = streamed[p] + 1
      BY <1>6 DEF CopyBlock, TypeOK
    <3>. QED BY <3>1, <3>2
  <2>4. <<p, streamed[p] + 1>> \in Producers \X Nat /\ data' = Append(data, <<p, streamed[p] + 1>>)
    BY <1>6, <1>c, <2>3, Contents DEF CopyBlock
  <2>5. /\ Len(data') = Len(data) + 1
        /\ \A i \in 1 .. Len(data) : data'[i] = data[i]
        /\ data'[Len(data) + 1] = <<p, streamed[p] + 1>>
    BY <2>4, Grown DEF TypeOK
  <2>6. Len(data) = Open + streamed[p] /\ Open' = Open
    BY <1>b, <2>1, <2>2, OpenKept DEF Packed
  <2>7. Entries'
    BY <1>b, <1>c, <2>1, <2>5, EntriesKept
  <2>8. Packed'
    BY <1>c, <2>1, <2>2, <2>3, <2>5, <2>6 DEF Packed
  <2>9. Copied'
    <3>1. ASSUME NEW q \in Producers, pc'[q] = "streaming" PROVE q = p
      BY <3>1, <2>1, <1>6, Alone DEF CopyBlock
    <3>2. \A k \in 1 .. streamed[p] : Open + k \in 1 .. Len(data) /\ data[Open + k] = <<p, k>>
      <4>1. \A k \in 1 .. streamed[p] : data[Open + k] = <<p, k>>
        BY <1>6, <1>b, Zenon DEF Copied, CopyBlock
      <4>2. Open \in Nat /\ Len(data) \in Nat /\ streamed[p] \in Nat
        BY <1>c
      <4>3. \A k \in 1 .. streamed[p] : Open + k \in 1 .. Len(data)
        BY ONLY <2>6, <4>2
      <4>. QED BY <4>1, <4>3
    <3>3. \A k \in 1 .. streamed'[p] : data'[Open' + k] = <<p, k>>
      <4>1. ASSUME NEW k \in 1 .. streamed'[p] PROVE data'[Open + k] = <<p, k>>
        <5>1. CASE k \in 1 .. streamed[p]
          BY <5>1, <3>2, <2>5
        <5>2. CASE k = streamed[p] + 1
          BY <5>2, <2>5, <2>6, <1>c
        <5>. QED BY <5>1, <5>2, <2>3, <1>c
      <4>. QED BY <4>1, <2>6
    <3>. QED BY <3>1, <3>3 DEF Copied
  <2>. QED BY <2>7, <2>8, <2>9
<1>7. ASSUME NEW p \in Producers, EndStream(p) PROVE Entries' /\ Packed' /\ Copied'
  <2>. DEFINE h == [name |-> Name[p], size |-> Size[p], ctime |-> CTime[p]]
  <2>n. PICK n \in Nat : n = Len(files) + 1 /\ n >= 1
    BY OffsetsAreNat
  <2>1. /\ pc[p] = "streaming" /\ streamed[p] = Size[p]
        /\ data' = data /\ streamed' = streamed /\ mutex' = Free
    BY <1>7 DEF EndStream, Unlock
  <2>2. files' = Append(files, h)
    BY <1>7, <1>a, <2>1 DEF EndStream, HeaderFile
  <2>3. /\ Len(files') = n /\ files'[n] = h
        /\ \A i \in 1 .. n - 1 : files'[i] = files[i]
        /\ Len(files) = n - 1
    <3>1. h \in [name : Names, size : Nat, ctime : Times]
      BY Contents DEF Names, Times
    <3>2. files \in Seq([name : Names, size : Nat, ctime : Times])
      BY DEF TypeOK, Names, Times
    <3>. HIDE DEF h
    <3>3. Len(files) \in Nat
      BY OffsetsAreNat
    <3>. QED BY <2>2, <2>n, <3>1, <3>2, <3>3, Grown
  <2>4. mutex = p /\ ~poisoned /\ p # Free
    BY <2>1, Pushing, MemberAssumption
  <2>5. Len(data) = Open + Size[p]
    BY <1>b, <2>1, <2>4 DEF Packed
  <2>6. PackOffset(n)' = Open
    <3>1. \A i \in 1 .. n - 1 : files[i].size = files'[i].size
      BY <2>3
    <3>2. Offset(files, n) = Offset(files', n)
      BY <2>n, <3>1, OffsetKept
    <3>3. Open = Offset(files, n) /\ PackOffset(n)' = Offset(files', n)
      BY <2>n, Offsets DEF Open
    <3>. QED BY <3>2, <3>3
  <2>7. Open' = Open + Size[p]
    <3>1. Open' = Offset(files', n + 1)
      BY <2>3, Offsets DEF Open
    <3>2. Offset(files', n + 1) = Offset(files', n) + files'[n].size
      BY <2>n, OffsetNext
    <3>3. Offset(files', n) = Open
      BY <2>6, Offsets
    <3>. QED BY <2>3, <3>1, <3>2, <3>3
  <2>8. IsEntryOf(n, p)'
    <3>1. \A k \in 1 .. Size[p] : data'[PackOffset(n)' + k] = <<p, k>>
      BY <1>b, <2>1, <2>6 DEF Copied
    <3>2. PackOffset(n)' + Size[p] <= Len(data')
      BY <1>c, <2>1, <2>5, <2>6, Contents
    <3>. QED BY <2>3, <3>1, <3>2 DEF IsEntryOf
  <2>9. Written' = Written \cup {p} /\ Written \subseteq Producers
    BY <1>7, WrittenGrows DEF Written
  <2>10. ASSUME NEW m \in 1 .. Len(files), NEW q \in Producers, IsEntryOf(m, q)
         PROVE  IsEntryOf(m, q)'
    <3>1. /\ Len(data') \in Nat /\ Len(data') >= Len(data)
          /\ \A i \in 1 .. Len(data) : data'[i] = data[i]
          /\ \A i \in 1 .. Len(files) : files'[i] = files[i]
      BY <1>c, <2>1, <2>3
    <3>. QED BY <2>10, <3>1, EntryKept
  <2>11. Entries'
    <3>1. \A q \in Written' : \E m \in 1 .. Len(files') : IsEntryOf(m, q)'
      <4>1. ASSUME NEW q \in Written PROVE \E m \in 1 .. Len(files') : IsEntryOf(m, q)'
        <5>1. PICK m \in 1 .. Len(files) : IsEntryOf(m, q)
          BY <1>b DEF Entries
        <5>2. m \in 1 .. Len(files')
          BY <2>n, <2>3
        <5>. QED BY <5>1, <5>2, <2>9, <2>10
      <4>2. n \in 1 .. Len(files')
        BY <2>n, <2>3
      <4>. QED BY <4>1, <4>2, <2>8, <2>9
    <3>2. \A m \in 1 .. Len(files') : \E q \in Written' : IsEntryOf(m, q)'
      <4>1. ASSUME NEW m \in 1 .. Len(files) PROVE \E q \in Written' : IsEntryOf(m, q)'
        BY <1>b, <2>9, <2>10 DEF Entries
      <4>2. \A m \in 1 .. Len(files') : m = n \/ m \in 1 .. Len(files)
        BY <2>n, <2>3
      <4>. QED BY <4>1, <4>2, <2>8, <2>9
    <3>. QED BY <3>1, <3>2 DEF Entries
  <2>12. Packed'
    BY <2>1, <2>5, <2>7, <1>c, Contents DEF Packed
  <2>13. Copied'
    <3>1. \A q \in Producers : pc'[q] # "streaming"
      <4>1. ASSUME NEW q \in Producers, q # p PROVE pc'[q] # "streaming"
        BY <1>7, <2>1, <4>1, Alone DEF EndStream, Unlock, TypeOK
      <4>2. pc'[p] # "streaming"
        BY <1>7 DEF EndStream, Unlock, TypeOK
      <4>. QED BY <4>1, <4>2
    <3>. QED BY <3>1 DEF Copied
  <2>. QED BY <2>11, <2>12, <2>13
<1>8. ASSUME NEW p \in Producers, CopyFails(p) \/ DirPlace(p) \/ DirPlaceFails(p) PROVE FALSE
  BY <1>8, <1>a DEF CopyFails, DirPlace, DirPlaceFails
<1>9. CASE Finish \/ UNCHANGED vars
  <2>1. /\ files' = files /\ data' = data /\ Written' = Written
        /\ UNCHANGED <<mutex, poisoned, pc, streamed>>
    BY <1>9 DEF Finish, vars, Written
  <2>2. Packed' /\ Copied'
    BY <1>b, <1>d, <2>1 DEF Packed, Copied
  <2>. QED BY <1>d, <2>1, <2>2
<1>. QED
  BY <1>1, <1>2, <1>3, <1>4, <1>5, <1>6, <1>7, <1>8, <1>9 DEF Next, Push, Terminated

-----------------------------------------------------------------------------
(* The directory.                                                          *)

LEMMA NextDir ==
  ASSUME NamesApart
  PROVE  TypeOK /\ MutexOK /\ DirOK /\ [Next]_vars => DirOK'
<1>. SUFFICES ASSUME TypeOK, MutexOK, DirOK, [Next]_vars,
                     format' = "dir", ~disk_fails'
              PROVE  tree' = {Member(p) : p \in Written'}
  BY DEF DirOK, Member, Content
<1>. USE DEF setting
<1>a. format = "dir" /\ ~disk_fails /\ "dir" \in Formats
  BY DEF Next, Push, Finish, Terminated, vars, Lock, LockPoisoned, PushRefused, PushPanic,
         StartStream, CopyBlock, CopyFails, EndStream, DirPlace, DirPlaceFails, TypeOK
<1>b. tree = {Member(p) : p \in Written}
  BY <1>a DEF DirOK
<1>1. ASSUME NEW p \in Producers,
             \/ Lock(p) \/ LockPoisoned(p) \/ PushRefused(p) \/ PushPanic(p) \/ StartStream(p)
             \/ CopyBlock(p)
      PROVE  tree' = tree /\ Written' = Written
  <2>1. Written' = Written
    BY <1>1, WrittenKept
  <2>2. tree' = tree
    BY <1>1 DEF Lock, LockPoisoned, PushRefused, PushPanic, StartStream, CopyBlock
  <2>. QED BY <2>1, <2>2
<1>2. ASSUME NEW p \in Producers, CopyFails(p) \/ DirPlaceFails(p) \/ EndStream(p) PROVE FALSE
  BY <1>2, <1>a, Pushing DEF CopyFails, DirPlaceFails, EndStream
<1>3. ASSUME NEW p \in Producers, DirPlace(p)
      PROVE  tree' = {Member(q) : q \in Written'}
  <2>1. p \notin Written /\ Written' = Written \cup {p} /\ Written \subseteq Producers
    BY <1>3, WrittenGrows DEF Written
  <2>2. Under(Name[p]) = {}
    <3>1. ASSUME NEW q \in Written PROVE ~ IsPrefix(Name[p], Member(q).name)
      BY <1>a, <2>1, <3>1 DEF NamesApart, Member
    <3>. QED BY <1>b, <3>1, Zenon DEF Under
  <2>3. tree' = tree \cup {Member(p)}
    BY <1>3, <2>2 DEF DirPlace
  <2>4. {Member(q) : q \in Written \cup {p}} = {Member(q) : q \in Written} \cup {Member(p)}
    OBVIOUS
  <2>. QED BY <1>b, <2>1, <2>3, <2>4
<1>4. CASE Finish \/ UNCHANGED vars
  BY <1>b, <1>4 DEF Finish, vars, Written
<1>. QED BY <1>b, <1>1, <1>2, <1>3, <1>4 DEF Next, Push, Terminated

-----------------------------------------------------------------------------
(* The tar file.                                                           *)

Follows(h) ==
  /\ \A k \in 1 .. Size[Owner(h)] : h + k <= Len(data) => data[h + k] = <<Owner(h), k>>
  /\ h + Size[Owner(h)] < Len(data) => h + Size[Owner(h)] + 1 \in Headers
Layout ==
  /\ data # <<>> => 1 \in Headers
  /\ \A h \in Headers : Follows(h)
Owners ==
  /\ \A h \in Headers : pc[Owner(h)] \in {"streaming", "done", "panicked"}
  /\ \A h, g \in Headers : Owner(h) = Owner(g) => h = g
Whole == \A p \in Written : \E h \in Complete : Owner(h) = p
AtTheEnd ==
  /\ \A p \in Producers : pc[p] = "streaming" =>
       \E h \in Headers : Owner(h) = p /\ Len(data) = h + streamed[p]
  /\ ~poisoned => \A h \in Headers \ Complete : pc[Owner(h)] = "streaming"

TarParts == Layout /\ Owners /\ Whole /\ AtTheEnd

LEMMA InitTar == Init => TarOK
<1>. SUFFICES ASSUME Init PROVE TarOK
  OBVIOUS
<1>1. Headers = {} /\ Complete = {}
  BY DEF Init, Headers, Complete
<1>2. Written = {} /\ data = <<>>
  BY DEF Written, Init
<1>3. \A p \in Producers : pc[p] # "streaming"
  BY DEF Init
<1>. QED BY <1>1, <1>2, <1>3 DEF TarOK

\* the positions of the blocks
LEMMA Positions ==
  ASSUME TypeOK
  PROVE  /\ Len(data) \in Nat
         /\ \A i \in 1 .. Len(data) : data[i] = <<data[i][1], data[i][2]>>
                                       /\ data[i][1] \in Producers /\ data[i][2] \in Nat
         /\ \A h \in Headers : /\ h \in Nat /\ h >= 1 /\ h <= Len(data)
                               /\ Owner(h) \in Producers /\ Size[Owner(h)] \in Nat
<1>1. data \in Seq(Producers \X Nat)
  BY DEF TypeOK
<1>2. Len(data) \in Nat /\ \A i \in 1 .. Len(data) : data[i] \in Producers \X Nat
  BY <1>1
<1>3. \A i \in 1 .. Len(data) : data[i] = <<data[i][1], data[i][2]>>
                                 /\ data[i][1] \in Producers /\ data[i][2] \in Nat
  BY <1>2
<1>4. \A h \in Headers : h \in Nat /\ h >= 1 /\ h <= Len(data) /\ Owner(h) \in Producers
  BY <1>2, <1>3 DEF Headers, Owner
<1>. QED BY <1>2, <1>3, <1>4, Contents

\* a step that does not touch the file, of a producer that has no header in it
LEMMA TarKept ==
  ASSUME TypeOK, TarParts, NEW p \in Producers, pc[p] \in {"ready", "locked"},
         NEW outcome \in {"locked", "skipped"}, pc' = [pc EXCEPT ![p] = outcome],
         UNCHANGED <<data, streamed, poisoned>>, Written' = Written
  PROVE  TarParts'
<1>1. \A q \in Producers : q # p => pc'[q] = pc[q]
  BY DEF TypeOK
<1>2. \A h \in Headers : Owner(h) # p /\ Owner(h) \in Producers
  BY Positions DEF TarParts, Owners
<1>3. /\ Headers' = Headers /\ Complete' = Complete
      /\ \A h : Owner(h)' = Owner(h)
  BY DEF Headers, Complete, Owner
<1>4. Layout'
  BY <1>3 DEF TarParts, Layout, Follows
<1>5. Owners'
  BY <1>1, <1>2, <1>3 DEF TarParts, Owners
<1>6. Whole'
  BY <1>3 DEF TarParts, Whole
<1>7. AtTheEnd'
  <2>1. ASSUME NEW q \in Producers, pc'[q] = "streaming"
        PROVE  \E h \in Headers' : Owner(h)' = q /\ Len(data') = h + streamed'[q]
    <3>1. pc[q] = "streaming"
      BY <1>1, <2>1 DEF TypeOK
    <3>. QED BY <1>3, <3>1 DEF TarParts, AtTheEnd
  <2>2. ASSUME ~poisoned', NEW h \in Headers' \ Complete'
        PROVE  pc'[Owner(h)'] = "streaming"
    BY <1>1, <1>2, <1>3, <2>2 DEF TarParts, AtTheEnd
  <2>. QED BY <2>1, <2>2 DEF AtTheEnd
<1>. QED BY <1>4, <1>5, <1>6, <1>7 DEF TarParts

\* a member that is not whole is the one being written
LEMMA OthersAreWhole ==
  ASSUME TypeOK, MutexOK, TarParts, NEW p \in Producers, pc[p] \in {"locked", "streaming"},
         NEW h \in Headers, Owner(h) # p
  PROVE  h \in Complete
<1>1. ~poisoned
  BY Pushing
<1>2. pc[Owner(h)] # "streaming"
  BY Positions, Alone
<1>. QED BY <1>1, <1>2 DEF TarParts, AtTheEnd

LEMMA TarStart ==
  ASSUME TypeOK, MutexOK, TarParts, format = "tar", NEW p \in Producers, StartStream(p)
  PROVE  TarParts'
<1>. USE DEF setting
<1>1. /\ pc[p] = "locked" /\ streamed[p] = 0 /\ streamed' = streamed
      /\ data' = Append(data, <<p, 0>>) /\ pc' = [pc EXCEPT ![p] = "streaming"]
      /\ poisoned' = poisoned /\ Written' = Written
  BY Pushing, WrittenKept DEF StartStream
<1>2. /\ Len(data) \in Nat /\ Len(data') = Len(data) + 1
      /\ \A i \in 1 .. Len(data) : data'[i] = data[i]
      /\ data'[Len(data) + 1] = <<p, 0>>
  <2>1. <<p, 0>> \in Producers \X Nat
    OBVIOUS
  <2>. QED BY <1>1, <2>1, Grown DEF TypeOK
<1>3. \A h \in Headers : h \in 1 .. Len(data) /\ Owner(h)' = Owner(h) /\ Owner(h) \in Producers
  BY <1>2, Positions DEF Headers, Owner
<1>4. PICK end \in Nat : end = Len(data) + 1
  BY <1>2
<1>5. /\ Headers' = Headers \cup {end} /\ Owner(end)' = p /\ end \notin Headers
      /\ Len(data') = end
  <2>1. \A h \in 1 .. end : h \in Headers' <=> (h \in Headers \/ h = end)
    BY <1>2, <1>4 DEF Headers
  <2>2. \A h \in Headers' : h \in 1 .. end
    BY <1>2, <1>4 DEF Headers
  <2>3. \A h \in Headers : h \in 1 .. end /\ h # end
    BY <1>2, <1>4 DEF Headers
  <2>4. Owner(end)' = p
    BY <1>2, <1>4 DEF Owner
  <2>. QED BY <1>2, <1>4, <2>1, <2>2, <2>3, <2>4
<1>6. \A h \in Headers : Owner(h) # p /\ h \in Complete /\ h + Size[Owner(h)] <= Len(data)
  <2>1. \A h \in Headers : Owner(h) # p
    BY <1>1 DEF TarParts, Owners
  <2>2. \A h \in Headers : h \in Complete
    BY <1>1, <2>1, OthersAreWhole
  <2>. QED BY <2>1, <2>2 DEF Complete
<1>7. \A q \in Producers : q # p => pc'[q] = pc[q]
  BY <1>1 DEF TypeOK
<1>8. pc'[p] = "streaming" /\ Size[p] \in Nat
  BY <1>1, Contents DEF TypeOK
<1>9. Layout'
  <2>1. ASSUME NEW h \in Headers PROVE Follows(h)'
    <3>1. /\ Owner(h)' = Owner(h) /\ h + Size[Owner(h)] <= Len(data)
          /\ h \in Nat /\ h >= 1 /\ Size[Owner(h)] \in Nat
      BY <1>3, <1>6, Positions
    <3>2. \A k \in 1 .. Size[Owner(h)] : data'[h + k] = <<Owner(h), k>>
      <4>1. ASSUME NEW k \in 1 .. Size[Owner(h)] PROVE data'[h + k] = <<Owner(h), k>>
        <5>1. h + k \in 1 .. Len(data) /\ h + k <= Len(data)
          BY <1>2, <3>1
        <5>2. data[h + k] = <<Owner(h), k>>
          BY <5>1 DEF TarParts, Layout, Follows
        <5>. QED BY <1>2, <5>1, <5>2
      <4>. QED BY <4>1
    <3>3. h + Size[Owner(h)] < Len(data') => h + Size[Owner(h)] + 1 \in Headers'
      <4>1. CASE h + Size[Owner(h)] < Len(data)
        BY <4>1, <1>5 DEF TarParts, Layout, Follows
      <4>2. CASE h + Size[Owner(h)] = Len(data)
        BY <4>2, <1>4, <1>5
      <4>. QED BY <4>1, <4>2, <3>1, <1>2
    <3>. QED BY <3>1, <3>2, <3>3 DEF Follows
  <2>2. Follows(end)'
    <3>1. \A k \in 1 .. Size[p] : ~ (end + k <= Len(data'))
      BY <1>5, <1>8
    <3>2. ~ (end + Size[p] < Len(data'))
      BY <1>5, <1>8
    <3>. QED BY <1>5, <3>1, <3>2 DEF Follows
  <2>3. 1 \in Headers'
    <3>1. CASE data = <<>>
      BY <3>1, <1>4, <1>5
    <3>2. CASE data # <<>>
      BY <3>2, <1>5 DEF TarParts, Layout
    <3>. QED BY <3>1, <3>2
  <2>. QED BY <1>5, <2>1, <2>2, <2>3 DEF Layout
<1>10. Owners'
  BY <1>3, <1>5, <1>6, <1>7, <1>8 DEF TarParts, Owners
<1>11. Complete \subseteq Complete'
  <2>1. ASSUME NEW h \in Complete PROVE h \in Complete'
    <3>1. h \in Headers' /\ Owner(h)' = Owner(h) /\ h + Size[Owner(h)] <= Len(data)
          /\ h \in Nat /\ Size[Owner(h)] \in Nat
      BY <1>3, <1>5, Positions DEF Complete
    <3>. QED BY <3>1, <1>2 DEF Complete
  <2>. QED BY <2>1
<1>12. Whole'
  <2>1. ASSUME NEW q \in Written PROVE \E h \in Complete' : Owner(h)' = q
    BY <1>3, <1>11 DEF TarParts, Whole, Complete
  <2>. QED BY <1>1, <2>1 DEF Whole
<1>13. AtTheEnd'
  <2>1. ASSUME NEW q \in Producers, pc'[q] = "streaming"
        PROVE  \E h \in Headers' : Owner(h)' = q /\ Len(data') = h + streamed'[q]
    <3>1. q = p
      BY <1>1, <1>7, <2>1, Alone
    <3>. QED BY <3>1, <1>1, <1>5
  <2>2. ASSUME ~poisoned', NEW h \in Headers' \ Complete'
        PROVE  pc'[Owner(h)'] = "streaming"
    BY <1>5, <1>6, <1>8, <1>11, <2>2
  <2>. QED BY <2>1, <2>2 DEF AtTheEnd
<1>. QED BY <1>9, <1>10, <1>12, <1>13 DEF TarParts

\* the header of the member that is being written
LEMMA Current ==
  ASSUME TypeOK, MutexOK, TarParts, NEW p \in Producers, pc[p] = "streaming"
  PROVE  \E h \in Headers : /\ Owner(h) = p /\ Len(data) = h + streamed[p]
                            /\ \A g \in Headers : g # h => Owner(g) # p /\ g \in Complete
<1>1. PICK h \in Headers : Owner(h) = p /\ Len(data) = h + streamed[p]
  BY DEF TarParts, AtTheEnd
<1>2. \A g \in Headers : g # h => Owner(g) # p
  BY <1>1 DEF TarParts, Owners
<1>3. \A g \in Headers : Owner(g) # p => g \in Complete
  BY OthersAreWhole
<1>. QED BY <1>1, <1>2, <1>3

LEMMA TarCopy ==
  ASSUME TypeOK, MutexOK, TarParts, NEW p \in Producers, CopyBlock(p)
  PROVE  TarParts'
<1>. USE DEF setting
<1>1. /\ pc[p] = "streaming" /\ pc' = pc /\ poisoned' = poisoned /\ Written' = Written
      /\ streamed[p] < Size[p]
  BY WrittenKept DEF CopyBlock
<1>2. /\ Size[p] \in Nat /\ streamed[p] \in Nat
      /\ streamed'[p] = streamed[p] + 1 /\ streamed[p] + 1 \in 1 .. Size[p]
  <2>1. Size[p] \in Nat /\ streamed[p] \in Nat /\ streamed'[p] = streamed[p] + 1
    BY Contents DEF CopyBlock, TypeOK
  <2>. QED BY <1>1, <2>1
<1>3. /\ Len(data) \in Nat /\ Len(data') = Len(data) + 1
      /\ \A i \in 1 .. Len(data) : data'[i] = data[i]
      /\ data'[Len(data) + 1] = <<p, streamed[p] + 1>>
  <2>1. <<p, streamed[p] + 1>> \in Producers \X Nat
    BY <1>2
  <2>2. data' = Append(data, <<p, streamed[p] + 1>>)
    BY <1>2, Contents DEF CopyBlock
  <2>. QED BY <2>1, <2>2, Grown DEF TypeOK
<1>4. Headers' = Headers
  <2>1. \A h \in 1 .. Len(data) + 1 : h \in Headers' <=> h \in Headers
    <3>1. \A h \in 1 .. Len(data) : h \in Headers' <=> h \in Headers
      BY <1>3 DEF Headers
    <3>2. Len(data) + 1 \notin Headers
      BY <1>3 DEF Headers
    <3>3. data'[Len(data) + 1][2] # 0
      BY <1>2, <1>3
    <3>4. Len(data) + 1 \notin Headers'
      BY <3>3 DEF Headers
    <3>. QED BY <1>3, <3>1, <3>2, <3>4
  <2>2. Headers \subseteq 1 .. Len(data) + 1 /\ Headers' \subseteq 1 .. Len(data) + 1
    BY <1>3 DEF Headers
  <2>. QED BY <2>1, <2>2
<1>5. \A h \in Headers : h \in 1 .. Len(data) /\ Owner(h)' = Owner(h) /\ Owner(h) \in Producers
  BY <1>3, Positions DEF Headers, Owner
<1>6. PICK c \in Headers : /\ Owner(c) = p /\ Len(data) = c + streamed[p]
                           /\ \A g \in Headers : g # c => Owner(g) # p /\ g \in Complete
  BY <1>1, Current
<1>7. \A h \in Headers : h \in Nat /\ h >= 1 /\ h <= Len(data) /\ Size[Owner(h)] \in Nat
  BY Positions
\* the blocks of a member that is whole end before the header of this one
<1>8. ASSUME NEW h \in Headers, h # c PROVE h + Size[Owner(h)] < Len(data)
  <2>1. h + Size[Owner(h)] <= Len(data)
    BY <1>6, <1>8 DEF Complete
  <2>2. SUFFICES ASSUME h + Size[Owner(h)] = Len(data) PROVE FALSE
    BY <1>3, <1>7, <2>1
  <2>3. CASE h < c
    <3>1. c - h \in 1 .. Size[Owner(h)] /\ h + (c - h) = c /\ c <= Len(data)
      BY <1>2, <1>6, <1>7, <2>2, <2>3
    <3>2. data[c] = <<Owner(h), c - h>>
      BY <3>1 DEF TarParts, Layout, Follows
    <3>3. data[c][2] = c - h /\ c - h # 0
      BY <3>1, <3>2
    <3>. QED BY <3>3 DEF Headers
  <2>4. CASE c < h
    <3>1. h - c \in 1 .. Size[Owner(c)] /\ c + (h - c) = h /\ h <= Len(data)
      BY <1>1, <1>2, <1>6, <1>7, <2>4
    <3>2. data[h] = <<Owner(c), h - c>>
      BY <3>1 DEF TarParts, Layout, Follows
    <3>3. data[h][2] = h - c /\ h - c # 0
      BY <3>1, <3>2
    <3>. QED BY <3>3 DEF Headers
  <2>. QED BY <1>7, <1>8, <2>3, <2>4
<1>9. ASSUME NEW h \in Headers PROVE Follows(h)'
  <2>1. Owner(h)' = Owner(h) /\ h \in Nat /\ h >= 1 /\ h <= Len(data) /\ Size[Owner(h)] \in Nat
    BY <1>5, <1>7
  <2>2. ASSUME NEW k \in 1 .. Size[Owner(h)], h + k <= Len(data')
        PROVE  data'[h + k] = <<Owner(h), k>>
    <3>1. CASE h + k <= Len(data)
      <4>1. data[h + k] = <<Owner(h), k>> /\ h + k \in 1 .. Len(data)
        BY <2>1, <3>1 DEF TarParts, Layout, Follows
      <4>. QED BY <1>3, <4>1
    <3>2. CASE h + k = Len(data) + 1
      <4>1. h = c
        BY <1>3, <1>8, <2>1, <3>2
      <4>2. k = streamed[p] + 1
        BY <1>2, <1>6, <2>1, <3>2, <4>1
      <4>. QED BY <1>3, <1>6, <3>2, <4>1, <4>2
    <3>. QED BY <1>3, <2>1, <2>2, <3>1, <3>2
  <2>3. h + Size[Owner(h)] < Len(data') => h + Size[Owner(h)] + 1 \in Headers'
    <3>1. CASE h = c
      BY <1>1, <1>2, <1>3, <1>6, <2>1, <3>1
    <3>2. CASE h # c
      BY <1>4, <1>8, <3>2 DEF TarParts, Layout, Follows
    <3>. QED BY <3>1, <3>2
  <2>. QED BY <2>1, <2>2, <2>3 DEF Follows
<1>10. Layout'
  <2>1. data # <<>>
    BY <1>3, <1>5
  <2>. QED BY <1>4, <1>9, <2>1 DEF TarParts, Layout
<1>11. Owners'
  BY <1>1, <1>4, <1>5 DEF TarParts, Owners
<1>12. Complete \subseteq Complete'
  <2>1. ASSUME NEW h \in Complete PROVE h \in Complete'
    <3>1. h \in Headers' /\ Owner(h)' = Owner(h) /\ h + Size[Owner(h)] <= Len(data)
          /\ h \in Nat /\ Size[Owner(h)] \in Nat
      BY <1>4, <1>5, <1>7 DEF Complete
    <3>. QED BY <3>1, <1>3 DEF Complete
  <2>. QED BY <2>1
<1>13. Whole'
  <2>1. ASSUME NEW q \in Written PROVE \E h \in Complete' : Owner(h)' = q
    BY <1>5, <1>12 DEF TarParts, Whole, Complete
  <2>. QED BY <1>1, <2>1 DEF Whole
<1>14. AtTheEnd'
  <2>1. ASSUME NEW q \in Producers, pc'[q] = "streaming"
        PROVE  \E h \in Headers' : Owner(h)' = q /\ Len(data') = h + streamed'[q]
    <3>1. q = p
      BY <1>1, <2>1, Alone
    <3>2. Len(data') = c + streamed'[p]
      BY <1>2, <1>3, <1>6, <1>7
    <3>. QED BY <3>1, <3>2, <1>4, <1>5, <1>6
  <2>2. ASSUME ~poisoned', NEW h \in Headers' \ Complete'
        PROVE  pc'[Owner(h)'] = "streaming"
    BY <1>1, <1>4, <1>5, <1>12, <2>2 DEF TarParts, AtTheEnd
  <2>. QED BY <2>1, <2>2 DEF AtTheEnd
<1>. QED BY <1>10, <1>11, <1>13, <1>14 DEF TarParts

\* the end of a push whose member has a header, whatever the outcome
LEMMA TarEnd ==
  ASSUME TypeOK, MutexOK, TarParts, NEW p \in Producers,
         pc[p] \in {"locked", "streaming"}, NEW outcome \in {"done", "panicked"},
         pc' = [pc EXCEPT ![p] = outcome], data' = data, streamed' = streamed,
         \/ outcome = "panicked" /\ poisoned' = TRUE /\ Written' = Written
         \/ /\ outcome = "done" /\ pc[p] = "streaming" /\ streamed[p] = Size[p]
            /\ Written' = Written \cup {p}
  PROVE  TarParts'
<1>1. pc'[p] = outcome /\ \A q \in Producers : q # p => pc'[q] = pc[q]
  BY DEF TypeOK
<1>2. /\ Headers' = Headers /\ Complete' = Complete
      /\ \A h : Owner(h)' = Owner(h)
  BY DEF Headers, Complete, Owner
<1>3. \A h \in Headers : Owner(h) \in Producers
  BY Positions
<1>4. Layout'
  BY <1>2 DEF TarParts, Layout, Follows
<1>5. Owners'
  BY <1>1, <1>2, <1>3 DEF TarParts, Owners
<1>6. \A q \in Producers : pc'[q] # "streaming"
  BY <1>1, Alone
<1>7. CASE outcome = "panicked" /\ poisoned' = TRUE /\ Written' = Written
  BY <1>2, <1>4, <1>5, <1>6, <1>7 DEF TarParts, Whole, AtTheEnd
<1>8. CASE /\ outcome = "done" /\ pc[p] = "streaming" /\ streamed[p] = Size[p]
           /\ Written' = Written \cup {p}
  <2>1. PICK c \in Headers : /\ Owner(c) = p /\ Len(data) = c + streamed[p]
                             /\ \A g \in Headers : g # c => Owner(g) # p /\ g \in Complete
    BY <1>8, Current
  <2>2. c \in Complete
    <3>1. c + Size[Owner(c)] = Len(data) /\ Len(data) \in Nat
      BY <1>8, <2>1, Positions
    <3>. QED BY <3>1 DEF Complete
  <2>3. Headers = Complete
    BY <2>1, <2>2 DEF Complete
  <2>4. Whole'
    BY <1>2, <1>8, <2>1, <2>2 DEF TarParts, Whole
  <2>5. AtTheEnd'
    BY <1>2, <1>6, <2>3 DEF AtTheEnd
  <2>. QED BY <1>4, <1>5, <2>4, <2>5 DEF TarParts
<1>. QED BY <1>7, <1>8

LEMMA NextTar == TypeOK /\ MutexOK /\ TarOK /\ [Next]_vars => TarOK'
<1>. SUFFICES ASSUME TypeOK, MutexOK, TarOK, [Next]_vars, format' = "tar", ~disk_fails'
              PROVE  TarParts'
  BY DEF TarOK, TarParts, Layout, Follows, Owners, Whole, AtTheEnd
<1>. USE DEF setting
<1>a. format = "tar" /\ ~disk_fails
  BY DEF Next, Push, Finish, Terminated, vars, Lock, LockPoisoned, PushRefused, PushPanic,
         StartStream, CopyBlock, CopyFails, EndStream, DirPlace, DirPlaceFails
<1>b. TarParts
  BY <1>a DEF TarOK, TarParts, Layout, Follows, Owners, Whole, AtTheEnd
<1>1. ASSUME NEW p \in Producers, Lock(p) PROVE TarParts'
  <2>1. /\ pc[p] \in {"ready", "locked"} /\ pc' = [pc EXCEPT ![p] = "locked"]
        /\ UNCHANGED <<data, streamed, poisoned>> /\ Written' = Written
    BY <1>1, WrittenKept DEF Lock
  <2>. QED BY <1>b, <2>1, TarKept
<1>2. ASSUME NEW p \in Producers, LockPoisoned(p) \/ PushRefused(p) PROVE TarParts'
  <2>1. /\ pc[p] \in {"ready", "locked"} /\ pc' = [pc EXCEPT ![p] = "skipped"]
        /\ UNCHANGED <<data, streamed, poisoned>>
    BY <1>2 DEF LockPoisoned, PushRefused, Unlock
  <2>2. Written' = Written
    BY <1>2, WrittenKept
  <2>. QED BY <1>b, <2>1, <2>2, TarKept
<1>3. ASSUME NEW p \in Producers, PushPanic(p) PROVE TarParts'
  <2>1. /\ pc[p] \in {"locked", "streaming"} /\ pc' = [pc EXCEPT ![p] = "panicked"]
        /\ data' = data /\ streamed' = streamed /\ poisoned' = TRUE
    BY <1>3 DEF PushPanic, Unlock
  <2>2. Written' = Written
    BY <1>3, WrittenKept
  <2>. QED BY <1>b, <2>1, <2>2, TarEnd
<1>4. ASSUME NEW p \in Producers, StartStream(p) PROVE TarParts'
  BY <1>a, <1>b, <1>4, TarStart
<1>5. ASSUME NEW p \in Producers, CopyBlock(p) PROVE TarParts'
  BY <1>b, <1>5, TarCopy
<1>6. ASSUME NEW p \in Producers, EndStream(p) PROVE TarParts'
  <2>1. /\ pc[p] = "streaming" /\ streamed[p] = Size[p] /\ pc' = [pc EXCEPT ![p] = "done"]
        /\ data' = data /\ streamed' = streamed
    BY <1>6 DEF EndStream, Unlock
  <2>2. Written' = Written \cup {p}
    BY <1>6, WrittenGrows
  <2>. QED BY <1>b, <2>1, <2>2, TarEnd
<1>7. ASSUME NEW p \in Producers, CopyFails(p) \/ DirPlace(p) \/ DirPlaceFails(p) PROVE FALSE
  BY <1>7, <1>a DEF CopyFails, DirPlace, DirPlaceFails
<1>8. CASE Finish \/ UNCHANGED vars
  <2>1. data' = data /\ Written' = Written /\ UNCHANGED <<mutex, poisoned, pc, streamed>>
    BY <1>8 DEF Finish, vars, Written
  <2>2. Headers' = Headers /\ Complete' = Complete /\ \A h : Owner(h)' = Owner(h)
    BY <2>1 DEF Headers, Complete, Owner
  <2>. QED BY <1>b, <2>1, <2>2 DEF TarParts, Layout, Follows, Owners, Whole, AtTheEnd
<1>. QED BY <1>1, <1>2, <1>3, <1>4, <1>5, <1>6, <1>7, <1>8 DEF Next, Push, Terminated

-----------------------------------------------------------------------------
(* What a reader finds.                                                    *)

\* the members that are whole in the file
Landed == IF format = "tar" THEN {Owner(h) : h \in Complete} ELSE Written

LEMMA SevenZReads ==
  ASSUME TypeOK, Entries
  PROVE  ReadSevenZ = {Member(p) : p \in Written}
<1>. DEFINE entry(n) ==
        [name    |-> files[n].name,
         content |-> SubSeq(data, PackOffset(n) + 1, PackOffset(n) + files[n].size)]
<1>1. ASSUME NEW n \in 1 .. Len(files), NEW p \in Producers, IsEntryOf(n, p)
      PROVE  entry(n) = Member(p)
  <2>1. PackOffset(n) \in Nat
    BY OffsetsAreNat
  <2>2. files[n].name = Name[p] /\ files[n].size = Size[p]
    BY <1>1 DEF IsEntryOf
  <2>3. SubSeq(data, PackOffset(n) + 1, PackOffset(n) + Size[p]) = Content(p)
    BY <1>1, <2>1, ContentFound DEF IsEntryOf
  <2>. QED BY <2>2, <2>3 DEF Member
<1>. HIDE DEF entry
<1>2. Written \subseteq Producers
  BY DEF Written
<1>3. {entry(n) : n \in 1 .. Len(files)} = {Member(p) : p \in Written}
  <2>1. ASSUME NEW n \in 1 .. Len(files) PROVE entry(n) \in {Member(p) : p \in Written}
    <3>1. PICK p \in Written : IsEntryOf(n, p)
      BY DEF Entries
    <3>2. entry(n) = Member(p)
      BY <1>1, <1>2, <3>1
    <3>. QED BY <3>2
  <2>2. ASSUME NEW p \in Written PROVE Member(p) \in {entry(n) : n \in 1 .. Len(files)}
    <3>1. PICK n \in 1 .. Len(files) : IsEntryOf(n, p)
      BY DEF Entries
    <3>2. entry(n) = Member(p)
      BY <1>1, <1>2, <3>1
    <3>. QED BY <3>2
  <2>. QED BY <2>1, <2>2
<1>. QED BY <1>3, Zenon DEF entry, ReadSevenZ

\* the reader of ReadTar, for any choice of what it finds further on
TarStep(e, pos) ==
  IF pos > Len(data) \/ data[pos][2] # 0 THEN {}
  ELSE LET p   == data[pos][1]
           end == pos + Size[p]
       IN  IF end > Len(data) THEN {}
           ELSE {[name |-> Name[p], content |-> SubSeq(data, pos + 1, end)]} \cup e[end + 1]

IsReader(e) == e = [pos \in 1 .. Len(data) + 1 |-> TarStep(e, pos)]

LEMMA ReadTarIsReader == ReadTar = (CHOOSE e : IsReader(e))[1]
BY Zenon DEF ReadTar, IsReader, TarStep

\* what it finds from a header on: the whole members from there on
Found(pos) == {Member(Owner(h)) : h \in {g \in Complete : g >= pos}}
FromHere(pos) == IF pos > Len(data) \/ data[pos][2] # 0 THEN {} ELSE Found(pos)

\* there is no header among the blocks of a member
LEMMA NoHeaderInside ==
  ASSUME TypeOK, Layout, NEW h \in Headers, NEW g \in Headers, g > h
  PROVE  g > h + Size[Owner(h)]
<1>. SUFFICES ASSUME g <= h + Size[Owner(h)] PROVE FALSE
  BY Positions
<1>1. g - h \in 1 .. Size[Owner(h)] /\ h + (g - h) = g /\ g <= Len(data)
  BY Positions
<1>2. data[g] = <<Owner(h), g - h>>
  BY <1>1 DEF Layout, Follows
<1>3. data[g][2] = g - h /\ g - h # 0
  BY <1>1, <1>2
<1>. QED BY <1>3 DEF Headers

LEMMA FromHereStep ==
  ASSUME TypeOK, Layout, NEW e, NEW pos \in 1 .. Len(data) + 1,
         \A n \in pos + 1 .. Len(data) + 1 : e[n] = FromHere(n)
  PROVE  TarStep(e, pos) = FromHere(pos)
<1>1. CASE pos > Len(data) \/ data[pos][2] # 0
  BY <1>1 DEF TarStep, FromHere
<1>2. CASE ~ (pos > Len(data) \/ data[pos][2] # 0)
  <2>. DEFINE p == data[pos][1]
             stop == pos + Size[p]
  <2>1. pos \in Headers /\ Owner(pos) = p /\ p \in Producers /\ Size[p] \in Nat /\ Len(data) \in Nat
    BY <1>2, Positions DEF Headers, Owner
  <2>2. \A g \in Headers : g > pos => g > stop
    BY <2>1, NoHeaderInside
  <2>3. FromHere(pos) = Found(pos)
    BY <1>2 DEF FromHere
  <2>4. \A g \in Complete : g \in Headers /\ g \in Nat /\ g <= Len(data)
    BY Positions DEF Complete
  <2>5. CASE stop > Len(data)
    <3>1. TarStep(e, pos) = {}
      BY <1>2, <2>5 DEF TarStep
    <3>2. pos \notin Complete
      BY <2>1, <2>5 DEF Complete
    <3>3. ASSUME NEW g \in Complete, g >= pos PROVE FALSE
      BY <2>1, <2>2, <2>4, <2>5, <3>2, <3>3
    <3>4. Found(pos) = {}
      BY <3>3 DEF Found
    <3>. QED BY <2>3, <3>1, <3>4
  <2>6. CASE stop <= Len(data)
    <3>1. TarStep(e, pos) = {[name |-> Name[p], content |-> SubSeq(data, pos + 1, stop)]}
                              \cup e[stop + 1]
      <4>1. ~ (stop > Len(data))
        BY <2>1, <2>6
      <4>. QED BY <1>2, <4>1, Zenon DEF TarStep
    <3>2. [name |-> Name[p], content |-> SubSeq(data, pos + 1, stop)] = Member(p)
      <4>1. \A k \in 1 .. Size[p] : data[pos + k] = <<p, k>>
        <5>1. ASSUME NEW k \in 1 .. Size[p] PROVE data[pos + k] = <<p, k>>
          <6>1. pos + k <= Len(data)
            BY <2>1, <2>6
          <6>. QED BY <2>1, <6>1 DEF Layout, Follows
        <5>. QED BY <5>1
      <4>2. pos \in Nat
        BY <2>1
      <4>3. SubSeq(data, pos + 1, stop) = Content(p)
        BY <2>1, <4>1, <4>2, ContentFound
      <4>. QED BY <4>3 DEF Member
    <3>3. pos \in Complete
      BY <2>1, <2>6 DEF Complete
    <3>4. e[stop + 1] = FromHere(stop + 1)
      <4>1. stop + 1 \in pos + 1 .. Len(data) + 1
        BY <2>1, <2>6
      <4>. QED BY <4>1
    <3>5. FromHere(stop + 1) = Found(stop + 1)
      <4>1. CASE stop = Len(data)
        <5>1. \A g \in Complete : ~ (g >= stop + 1)
          BY <2>1, <2>4, <4>1
        <5>2. Found(stop + 1) = {}
          BY <5>1 DEF Found
        <5>. QED BY <2>1, <4>1, <5>2 DEF FromHere
      <4>2. CASE stop < Len(data)
        <5>1. stop + 1 \in Headers
          BY <2>1, <4>2 DEF Layout, Follows
        <5>2. data[stop + 1][2] = 0 /\ ~ (stop + 1 > Len(data))
          BY <2>1, <4>2, <5>1 DEF Headers
        <5>. QED BY <5>2 DEF FromHere
      <4>. QED BY <2>1, <2>6, <4>1, <4>2
    <3>6. Found(pos) = {Member(p)} \cup Found(stop + 1)
      <4>1. \A g \in Complete : g >= pos <=> (g = pos \/ g >= stop + 1)
        BY <2>1, <2>2, <2>4
      <4>2. {g \in Complete : g >= pos} = {pos} \cup {g \in Complete : g >= stop + 1}
        BY <3>3, <4>1
      <4>. DEFINE later == {g \in Complete : g >= stop + 1}
      <4>3. {Member(Owner(h)) : h \in {pos} \cup later}
              = {Member(Owner(pos))} \cup {Member(Owner(h)) : h \in later}
        OBVIOUS
      <4>. QED BY <2>1, <4>2, <4>3 DEF Found
    <3>. QED BY <2>3, <3>1, <3>2, <3>4, <3>5, <3>6
  <2>. QED BY <2>1, <2>5, <2>6
<1>. QED BY <1>1, <1>2

\* the reader exists and there is only one
LEMMA ReaderExists ==
  ASSUME TypeOK, Layout
  PROVE  IsReader([pos \in 1 .. Len(data) + 1 |-> FromHere(pos)])
<1>. DEFINE f == [pos \in 1 .. Len(data) + 1 |-> FromHere(pos)]
<1>1. ASSUME NEW pos \in 1 .. Len(data) + 1 PROVE f[pos] = TarStep(f, pos)
  <2>1. \A n \in pos + 1 .. Len(data) + 1 : f[n] = FromHere(n)
    BY Positions
  <2>2. f[pos] = FromHere(pos)
    OBVIOUS
  <2>. HIDE DEF f
  <2>. QED BY <2>1, <2>2, FromHereStep
<1>2. f = [pos \in 1 .. Len(data) + 1 |-> f[pos]]
  OBVIOUS
<1>. HIDE DEF f
<1>3. IsReader(f)
  BY <1>1, <1>2, Zenon DEF IsReader
<1>. QED BY <1>3 DEF f

LEMMA ReaderFinds ==
  ASSUME TypeOK, Layout, NEW e, IsReader(e)
  PROVE  \A pos \in 1 .. Len(data) + 1 : e[pos] = FromHere(pos)
<1>. PICK last \in Nat : last = Len(data) + 1
  BY Positions
<1>1. \A pos \in 1 .. last : e[pos] = TarStep(e, pos)
  BY Zenon DEF IsReader
<1>. DEFINE Wrong == {d \in 0 .. last - 1 : e[last - d] # FromHere(last - d)}
<1>2. SUFFICES ASSUME Wrong # {} PROVE FALSE
  <2>1. ASSUME NEW pos \in 1 .. last, e[pos] # FromHere(pos) PROVE Wrong # {}
    <3>1. last - pos \in 0 .. last - 1 /\ last - (last - pos) = pos
      OBVIOUS
    <3>. QED BY <2>1, <3>1
  <2>. QED BY <2>1
<1>3. PICK d \in Wrong : \A c \in Wrong : d <= c
  <2>1. Wrong \subseteq Nat
    OBVIOUS
  <2>. HIDE DEF Wrong
  <2>. QED BY <1>2, <2>1, LeastElement
<1>. PICK pos \in 1 .. last : pos = last - d
  OBVIOUS
<1>4. \A n \in pos + 1 .. last : e[n] = FromHere(n)
  <2>1. ASSUME NEW n \in pos + 1 .. last, e[n] # FromHere(n) PROVE FALSE
    <3>1. last - n \in 0 .. last - 1 /\ last - (last - n) = n /\ ~ (d <= last - n)
      OBVIOUS
    <3>2. last - n \in Wrong
      BY <2>1, <3>1
    <3>. QED BY <1>3, <3>1, <3>2
  <2>. QED BY <2>1
<1>5. e[pos] # FromHere(pos)
  OBVIOUS
<1>. HIDE DEF Wrong
<1>6. TarStep(e, pos) = FromHere(pos)
  BY <1>4, FromHereStep
<1>. QED BY <1>1, <1>5, <1>6

LEMMA TarReads ==
  ASSUME TypeOK, Layout
  PROVE  ReadTar = {Member(Owner(h)) : h \in Complete}
<1>. DEFINE reader == CHOOSE e : IsReader(e)
<1>1. IsReader(reader)
  BY ReaderExists, Zenon
<1>2. ReadTar = reader[1]
  BY ReadTarIsReader, Zenon
<1>. HIDE DEF reader
<1>3. 1 \in 1 .. Len(data) + 1
  BY Positions
<1>4. ReadTar = FromHere(1)
  BY <1>1, <1>2, <1>3, ReaderFinds
<1>5. \A h \in Complete : h \in Headers /\ h \in Nat /\ h >= 1
  BY Positions DEF Complete
<1>6. Found(1) = {Member(Owner(h)) : h \in Complete}
  <2>1. {g \in Complete : g >= 1} = Complete
    BY <1>5
  <2>. QED BY <2>1, Zenon DEF Found
<1>7. CASE data = <<>>
  <2>1. Complete = {}
    BY <1>7, Positions DEF Complete
  <2>2. FromHere(1) = {}
    BY <1>7 DEF FromHere
  <2>. QED BY <1>4, <2>1, <2>2
<1>8. CASE data # <<>>
  <2>1. 1 \in Headers
    BY <1>8 DEF Layout
  <2>2. data[1][2] = 0 /\ ~ (1 > Len(data))
    BY <2>1, Positions DEF Headers
  <2>. QED BY <1>4, <1>6, <2>2 DEF FromHere
<1>. QED BY <1>7, <1>8

\* whatever the format, a reader finds the members that are whole
Reads == ~disk_fails => ReadBack = {Member(p) : p \in Landed}

LEMMA InvariantReads == IInv => Reads
<1>. SUFFICES ASSUME IInv, ~disk_fails PROVE ReadBack = {Member(p) : p \in Landed}
  BY DEF Reads
<1>. USE DEF IInv
<1>1. CASE format = "sevenz"
  <2>1. Entries
    BY <1>1 DEF SevenZOK, Entries
  <2>. QED BY <1>1, <2>1, SevenZReads DEF ReadBack, Landed
<1>2. CASE format = "tar"
  <2>1. Layout
    BY <1>2 DEF TarOK, Layout, Follows
  <2>2. ReadTar = {Member(Owner(h)) : h \in Complete}
    BY <2>1, TarReads
  <2>3. {Member(p) : p \in {Owner(h) : h \in Complete}} = {Member(Owner(h)) : h \in Complete}
    OBVIOUS
  <2>. QED BY <1>2, <2>2, <2>3 DEF ReadBack, Landed
<1>3. CASE format = "dir"
  BY <1>3 DEF DirOK, ReadBack, Landed
<1>4. format \in {"sevenz", "tar", "dir"}
  BY MemberAssumption DEF TypeOK
<1>. QED BY <1>1, <1>2, <1>3, <1>4

-----------------------------------------------------------------------------
(* The theorems.                                                           *)

LEMMA NextParts ==
  TypeOK /\ MutexOK /\ CountOK /\ [Next]_vars => TypeOK' /\ MutexOK' /\ CountOK'
BY NextTypes, NextMutex, NextCount

(***************************************************************************)
(* The writers' state stays in its domains, for any producers and sizes.   *)
(***************************************************************************)
THEOREM WriterTypes == Spec => []TypeOK
<1>1. Init => TypeOK
  BY InitTypes
<1>2. TypeOK /\ [Next]_vars => TypeOK'
  BY NextTypes
<1>. QED BY <1>1, <1>2, PTL DEF Spec

(***************************************************************************)
(* After a push panicked with the mutex of SyncedOuterWriter, nothing is   *)
(* appended to the archive and finish() does not return Ok.                *)
(***************************************************************************)
THEOREM PoisonStaysFinal == Spec => PoisonIsFinal
<1>. DEFINE J == TypeOK /\ MutexOK /\ CountOK
            Final == poisoned => phase' # "finished" /\ data' = data /\ files' = files
                                  /\ tree' = tree /\ count' = count
<1>1. Init => J
  BY InitTypes, InitMutex
<1>2. J /\ [Next]_vars => J'
  BY NextParts
<1>3. J /\ [Next]_vars => [Final]_vars
  <2>. SUFFICES ASSUME J, [Next]_vars, poisoned PROVE UNCHANGED vars \/ Final
    OBVIOUS
  <2>1. \A p \in Producers : pc[p] \notin {"locked", "streaming"}
    BY Pushing
  <2>2. phase # "finished"
    BY DEF MutexOK
  <2>3. ASSUME NEW p \in Producers, Push(p) PROVE Final
    BY <2>1, <2>2, <2>3 DEF Push, Lock, LockPoisoned, PushRefused, PushPanic, StartStream,
         CopyBlock, CopyFails, EndStream, DirPlace, DirPlaceFails
  <2>4. CASE Finish
    BY <2>4 DEF Finish
  <2>. QED BY <2>3, <2>4 DEF Next, Terminated
<1>. HIDE DEF J
<1>4. Spec => [][Final]_vars
  BY <1>1, <1>2, <1>3, PTL DEF Spec
<1>. QED BY <1>4 DEF PoisonIsFinal

(***************************************************************************)
(* The invariant: a producer is in its push exactly while it holds the     *)
(* mutex, count is the number of members written, and in each format the   *)
(* bytes of a member stand where a reader looks for them.                  *)
(***************************************************************************)
THEOREM WriterInvariant ==
  ASSUME NamesApart
  PROVE  Spec => []IInv
<1>1. Init => IInv
  <2>. SUFFICES ASSUME Init PROVE IInv
    OBVIOUS
  <2>1. DirOK
    <3>1. Written = {} /\ tree = {}
      BY DEF Init, Written
    <3>. QED BY <3>1 DEF DirOK
  <2>. QED BY <2>1, InitTypes, InitMutex, InitSevenZ, InitTar DEF IInv
<1>2. IInv /\ [Next]_vars => IInv'
  BY NextParts, NextSevenZ, NextTar, NextDir DEF IInv
<1>. QED BY <1>1, <1>2, PTL DEF Spec

LEMMA MembersDiffer ==
  ASSUME NamesApart, NEW p \in Producers, NEW q \in Producers, Member(p) = Member(q)
  PROVE  p = q
BY DEF NamesApart, Member

\* when the archive is finished the members that are whole are those written
LEMMA FinishedIsWritten ==
  ASSUME IInv, phase = "finished", ~disk_fails
  PROVE  Landed = Written
<1>1. CASE format = "tar"
  <2>1. ASSUME NEW h \in Complete PROVE Owner(h) \in Written
    <3>1. h \in Headers /\ Owner(h) \in Producers
      BY Positions DEF IInv, Complete
    <3>2. pc[Owner(h)] \in {"streaming", "done", "panicked"}
      BY <1>1, <3>1 DEF IInv, TarOK
    <3>3. pc[Owner(h)] = "done"
      BY <3>1, <3>2 DEF IInv, MutexOK, ProducersDone
    <3>. QED BY <3>1, <3>3 DEF Written
  <2>2. \A p \in Written : \E h \in Complete : Owner(h) = p
    BY <1>1 DEF IInv, TarOK
  <2>3. {Owner(h) : h \in Complete} = Written
    BY <2>1, <2>2
  <2>. QED BY <1>1, <2>3 DEF Landed
<1>. QED BY <1>1 DEF Landed

(***************************************************************************)
(* A finished archive holds, each with its own name and bytes, the members *)
(* whose push returned Ok and nothing else, in whatever order the threads  *)
(* got the mutex, and len() is their number: for push_path_with_meta and   *)
(* finish() of the three writers.                                          *)
(***************************************************************************)
THEOREM FinishedArchiveReadsBack ==
  ASSUME NamesApart
  PROVE  Spec => []ReadsBack
<1>1. ASSUME IInv PROVE ReadsBack
  <2>. SUFFICES ASSUME phase = "finished", ~disk_fails
                PROVE  /\ ReadBack = {Member(p) : p \in Written}
                       /\ count = Cardinality(Written)
                       /\ count = Cardinality(ReadBack)
    BY DEF ReadsBack
  <2>1. ReadBack = {Member(p) : p \in Written}
    BY <1>1, InvariantReads, FinishedIsWritten DEF Reads
  <2>2. IsFiniteSet(Written) /\ count = Cardinality(Written) /\ Written \subseteq Producers
    BY <1>1 DEF IInv, CountOK, Written
  <2>3. Cardinality({Member(p) : p \in Written}) = Cardinality(Written)
    <3>. DEFINE T == {Member(p) : p \in Written}
               f == [p \in Written |-> Member(p)]
    <3>1. f \in [Written -> T]
      OBVIOUS
    <3>2. \A p, q \in Written : f[p] = f[q] => p = q
      BY <2>2, MembersDiffer
    <3>3. \A t \in T : \E p \in Written : f[p] = t
      OBVIOUS
    <3>. HIDE DEF f, T
    <3>4. ExistsBijection(Written, T)
      BY <3>1, <3>2, <3>3 DEF ExistsBijection, Bijection, Injection, Surjection, IsInjective
    <3>5. Cardinality(T) = Cardinality(Written)
      BY <2>2, <3>4, FS_Bijection
    <3>. QED BY <3>5 DEF T
  <2>. QED BY <2>1, <2>2, <2>3
<1>. QED BY <1>1, WriterInvariant, PTL

-----------------------------------------------------------------------------
(* The refinement.                                                         *)

\* a block more makes at most the member of its producer whole
LEMMA TarLands ==
  ASSUME TypeOK, MutexOK, TarParts, format = "tar", NEW p \in Producers,
         StartStream(p) \/ CopyBlock(p)
  PROVE  Landed' = Landed \/ Landed' = Landed \cup {p}
<1>1. /\ format' = "tar" /\ pc[p] \in {"locked", "streaming"}
      /\ \E k \in Nat : data' = Append(data, <<p, k>>)
  <2>1. CASE StartStream(p)
    BY <2>1 DEF StartStream, setting
  <2>2. CASE CopyBlock(p)
    <3>1. streamed[p] \in Nat /\ streamed[p] + 1 \in 1 .. Size[p] /\ streamed[p] + 1 \in Nat
      <4>1. streamed[p] \in Nat /\ Size[p] \in Nat /\ streamed[p] < Size[p]
        BY <2>2, Contents DEF CopyBlock, TypeOK
      <4>. QED BY <4>1
    <3>2. data' = Append(data, <<p, streamed[p] + 1>>)
      BY <2>2, <3>1, Contents DEF CopyBlock
    <3>. QED BY <2>2, <3>1, <3>2 DEF CopyBlock, setting
  <2>. QED BY <2>1, <2>2
<1>2. PICK k \in Nat : data' = Append(data, <<p, k>>)
  BY <1>1
<1>3. /\ Len(data) \in Nat /\ Len(data') = Len(data) + 1
      /\ \A i \in 1 .. Len(data) : data'[i] = data[i]
      /\ data'[Len(data) + 1] = <<p, k>>
  <2>1. <<p, k>> \in Producers \X Nat
    OBVIOUS
  <2>. QED BY <1>2, <2>1, Grown DEF TypeOK
<1>4. ASSUME NEW h \in Complete PROVE h \in Complete' /\ Owner(h)' = Owner(h)
  <2>1. h \in 1 .. Len(data) /\ h + Size[Owner(h)] <= Len(data) /\ Size[Owner(h)] \in Nat
        /\ data[h][2] = 0
    BY Positions DEF Complete, Headers
  <2>2. Owner(h)' = Owner(h) /\ h \in Headers'
    BY <1>3, <2>1 DEF Owner, Headers
  <2>. QED BY <1>3, <2>1, <2>2 DEF Complete
<1>5. ASSUME NEW h \in Complete' PROVE (h \in Complete /\ Owner(h)' = Owner(h)) \/ Owner(h)' = p
  <2>1. CASE h = Len(data) + 1
    BY <1>3, <2>1 DEF Owner
  <2>2. CASE h # Len(data) + 1
    <3>1. h \in Headers /\ Owner(h)' = Owner(h)
      BY <1>3, <2>2 DEF Complete, Headers, Owner
    <3>. QED BY <1>1, <3>1, OthersAreWhole
  <2>. QED BY <2>1, <2>2
<1>6. Landed = {Owner(h) : h \in Complete} /\ Landed' = {Owner(h)' : h \in Complete'}
  BY <1>1 DEF Landed
<1>7. \A q : q \in Landed => q \in Landed'
  BY <1>4, <1>6
<1>8. \A q : q \in Landed' => q \in Landed \/ q = p
  BY <1>5, <1>6
<1>. QED BY <1>7, <1>8

\* what a push does to the members that are whole
LEMMA PushLands ==
  ASSUME IInv, ~disk_fails, NEW p \in Producers, Push(p)
  PROVE  /\ Landed' = Landed \/ Landed' = Landed \cup {p}
         /\ ~disk_fails' /\ phase = "open" /\ phase' = "open"
<1>. USE DEF setting
<1>1. ~disk_fails' /\ phase = "open" /\ phase' = "open" /\ format' = format
  BY Pushing DEF IInv, Push, Lock, LockPoisoned, PushRefused, PushPanic, StartStream,
     CopyBlock, CopyFails, EndStream, DirPlace, DirPlaceFails
<1>2. CASE format # "tar"
  <2>1. Landed = Written /\ Landed' = Written'
    BY <1>1, <1>2 DEF Landed
  <2>2. Written' = Written \/ Written' = Written \cup {p}
    BY WrittenKept, WrittenGrows DEF IInv, Push
  <2>. QED BY <1>1, <2>1, <2>2
<1>3. CASE format = "tar" /\ (StartStream(p) \/ CopyBlock(p))
  <2>1. TarParts
    BY <1>3 DEF IInv, TarOK, TarParts, Layout, Follows, Owners, Whole, AtTheEnd
  <2>. QED BY <1>1, <1>3, <2>1, TarLands DEF IInv
<1>4. CASE format = "tar" /\ ~ (StartStream(p) \/ CopyBlock(p))
  <2>1. data' = data
    BY <1>4 DEF Push, Lock, LockPoisoned, PushRefused, PushPanic,
       CopyFails, EndStream, DirPlace, DirPlaceFails
  <2>2. Complete' = Complete /\ \A h : Owner(h)' = Owner(h)
    BY <2>1 DEF Complete, Headers, Owner
  <2>3. {Owner(h)' : h \in Complete'} = {Owner(h) : h \in Complete}
    BY <2>2
  <2>4. Landed' = Landed
    BY <1>1, <1>4, <2>3 DEF Landed
  <2>. QED BY <1>1, <2>4
<1>. QED BY <1>2, <1>3, <1>4

LEMMA StepRefines ==
  ASSUME IInv, Reads, Reads', Next
  PROVE  Abstract!Next \/ UNCHANGED Abstract!vars
<1>. DEFINE archive == IF disk_fails THEN {} ELSE ReadBack
            sealed  == ~disk_fails /\ phase = "finished"
<1>1. CASE disk_fails
  <2>1. disk_fails' = disk_fails
    BY <1>1 DEF Next, Push, Finish, Terminated, vars, setting, Lock, LockPoisoned,
       PushRefused, PushPanic, StartStream, CopyBlock, CopyFails, EndStream, DirPlace,
       DirPlaceFails
  <2>2. archive' = archive /\ sealed' = sealed
    BY <1>1, <2>1
  <2>. QED BY <2>2 DEF Abstract!vars
<1>2. ASSUME ~disk_fails, NEW p \in Producers, Push(p)
      PROVE  Abstract!Next \/ UNCHANGED Abstract!vars
  <2>1. /\ Landed' = Landed \/ Landed' = Landed \cup {p}
        /\ ~disk_fails' /\ phase = "open" /\ phase' = "open"
    BY <1>2, PushLands
  <2>2. archive = {Member(q) : q \in Landed} /\ archive' = {Member(q) : q \in Landed'}
    BY <1>2, <2>1 DEF Reads, Member, Content
  <2>3. ~ sealed /\ sealed' = sealed
    BY <2>1
  <2>4. CASE Landed' = Landed
    <3>1. archive' = archive
      BY <2>2, <2>4
    <3>. QED BY <2>3, <3>1 DEF Abstract!vars
  <2>5. CASE Landed' = Landed \cup {p}
    <3>1. {Member(q) : q \in Landed \cup {p}} = {Member(q) : q \in Landed} \cup {Member(p)}
      OBVIOUS
    <3>2. archive' = archive \cup {Member(p)}
      BY <2>2, <2>5, <3>1
    <3>. HIDE DEF archive, sealed
    <3>3. Member(p) \in {Member(q) : q \in Producers}
      OBVIOUS
    <3>. QED BY <2>3, <3>2, <3>3 DEF Abstract!Next, Abstract!Append, archive, sealed
  <2>. QED BY <2>1, <2>4, <2>5
<1>3. CASE ~disk_fails /\ Finish
  <2>1. /\ ~disk_fails' /\ phase = "open" /\ phase' \in {"finished", "failed"}
        /\ ReadBack' = ReadBack /\ (phase' = "finished" => count # 0)
    BY <1>3 DEF Finish, setting, ReadBack, ReadSevenZ, ReadTar, PackOffset
  <2>2. CASE phase' = "failed"
    BY <1>3, <2>1, <2>2 DEF Abstract!vars
  <2>3. CASE phase' = "finished"
    <3>1. Written # {}
      BY <2>1, <2>3, FS_EmptySet DEF IInv, CountOK
    <3>2. Landed # {}
      BY <1>3, <3>1 DEF Landed, IInv, TarOK
    <3>3. ReadBack # {}
      BY <1>3, <3>2 DEF Reads
    <3>. QED BY <1>3, <2>1, <2>3, <3>3 DEF Abstract!Next, Abstract!Seal
  <2>. QED BY <2>1, <2>2, <2>3
<1>4. CASE Terminated
  BY <1>4 DEF Terminated, vars, setting, Abstract!vars, ReadBack, ReadSevenZ, ReadTar, PackOffset
<1>. QED BY <1>1, <1>2, <1>3, <1>4 DEF Next

(***************************************************************************)
(* The writers implement the archive that members are appended to in one   *)
(* step each: at every moment the file, read as if it were finished, has   *)
(* gained at most one whole member, and never loses one.                   *)
(***************************************************************************)
THEOREM WriterRefines ==
  ASSUME NamesApart
  PROVE  Spec => AppendsAtomically
<1>1. Init => Abstract!Init
  <2>. SUFFICES ASSUME Init PROVE Abstract!Init
    OBVIOUS
  <2>1. IInv
    <3>1. DirOK
      BY DEF Init, Written, DirOK
    <3>. QED BY <3>1, InitTypes, InitMutex, InitSevenZ, InitTar DEF IInv
  <2>2. Landed = {}
    <3>1. Written = {} /\ Complete = {}
      BY DEF Init, Written, Complete, Headers
    <3>. QED BY <3>1 DEF Landed
  <2>3. ~disk_fails => ReadBack = {}
    BY <2>1, <2>2, InvariantReads DEF Reads
  <2>4. phase # "finished"
    BY DEF Init
  <2>. QED BY <2>3, <2>4 DEF Abstract!Init
<1>2. IInv /\ Reads /\ Reads' /\ [Next]_vars => [Abstract!Next]_(Abstract!vars)
  <2>1. CASE Next
    BY <2>1, StepRefines
  <2>2. CASE UNCHANGED vars
    BY <2>2 DEF vars, setting, Abstract!vars, ReadBack, ReadSevenZ, ReadTar, PackOffset
  <2>. QED BY <2>1, <2>2
<1>. QED BY <1>1, <1>2, InvariantReads, WriterInvariant, PTL
         DEF Spec, AppendsAtomically, Abstract!Spec

-----------------------------------------------------------------------------
(* Powers of two.                                                          *)

Bits2 == ByteBits * ByteBits

LEMMA WidthFacts ==
  /\ ByteBits \in Nat /\ ByteBits > 1 /\ Bits2 \in Nat
  /\ \A i \in 0 .. ByteBits : ByteBits * i \in 0 .. Bits2
<1>1. ByteBits \in Nat /\ ByteBits > 1
  BY HeaderAssumption
<1>2. Bits2 \in Nat
  BY <1>1 DEF Bits2
<1>3. ASSUME NEW i \in 0 .. ByteBits PROVE ByteBits * i \in 0 .. Bits2
  <2>1. i \in Nat /\ i <= ByteBits
    BY <1>1
  <2>2. ByteBits * i \in Nat /\ ByteBits * i <= ByteBits * ByteBits
    BY <1>1, <2>1
  <2>. QED BY <1>2, <2>2 DEF Bits2
<1>. QED BY <1>1, <1>2, <1>3

PowRow(g, n) == IF n = 0 THEN 1 ELSE 2 * g[n - 1]

LEMMA PowExists ==
  \E g \in [0 .. Bits2 -> Nat] : \A n \in 0 .. Bits2 : g[n] = PowRow(g, n)
<1>. DEFINE m == Bits2
            V == Nat
            R == [n \in 0 .. m |-> [g \in [0 .. m -> V] |-> PowRow(g, n)]]
<1>1. m \in Nat /\ V # {}
  BY WidthFacts
<1>2. R \in [0 .. m -> [[0 .. m -> V] -> V]]
  <2>1. ASSUME NEW n \in 0 .. m, NEW g \in [0 .. m -> V] PROVE PowRow(g, n) \in V
    <3>1. CASE n = 0
      BY <3>1 DEF PowRow
    <3>2. CASE n # 0
      <4>1. n - 1 \in 0 .. m
        BY <1>1, <3>2
      <4>2. g[n - 1] \in Nat
        BY <4>1
      <4>. QED BY <3>2, <4>2 DEF PowRow
    <3>. QED BY <3>1, <3>2
  <2>. QED BY <2>1
<1>3. ASSUME NEW i \in 0 .. m, NEW g \in [0 .. m -> V], NEW h \in [0 .. m -> V],
             \A j \in 0 .. m : j < i => g[j] = h[j]
      PROVE  R[i][g] = R[i][h]
  <2>1. i # 0 => g[i - 1] = h[i - 1]
    BY <1>1, <1>3
  <2>. QED BY <2>1 DEF PowRow
<1>4. \E g \in [0 .. m -> V] : \A i \in 0 .. m : g[i] = R[i][g]
  <2>. HIDE DEF m, V, R
  <2>1. FromBelow(R, m, V)
    BY <1>3 DEF FromBelow
  <2>2. SolvedFromBelow(R, m, V)
    BY <1>1, <1>2, <2>1, UpRecursion
  <2>. QED BY <2>2 DEF SolvedFromBelow
<1>. QED BY <1>4

LEMMA PowFacts ==
  /\ Pow2[0] = 1
  /\ \A n \in 0 .. Bits2 : n < Bits2 => Pow2[n + 1] = 2 * Pow2[n]
  /\ \A n \in 0 .. Bits2 : Pow2[n] \in Nat /\ Pow2[n] >= 1
<1>. DEFINE Row(f) == [n \in 0 .. Bits2 |-> IF n = 0 THEN 1 ELSE 2 * f[n - 1]]
<1>1. PICK g \in [0 .. Bits2 -> Nat] : \A n \in 0 .. Bits2 : g[n] = PowRow(g, n)
  BY PowExists
<1>2. g = Row(g)
  BY <1>1 DEF PowRow
<1>3. Pow2 = CHOOSE f : f = Row(f)
  BY DEF Pow2, Bits2
<1>4. Pow2 = Row(Pow2)
  <2>. HIDE DEF Row
  <2>. QED BY <1>2, <1>3
<1>5. \A n \in 0 .. Bits2 : Pow2[n] = IF n = 0 THEN 1 ELSE 2 * Pow2[n - 1]
  BY <1>4
<1>6. Bits2 \in Nat
  BY WidthFacts
<1>. HIDE DEF Row
<1>7. Pow2[0] = 1
  BY <1>5, <1>6
<1>8. ASSUME NEW n \in 0 .. Bits2, n < Bits2 PROVE Pow2[n + 1] = 2 * Pow2[n]
  <2>1. n + 1 \in 0 .. Bits2 /\ n + 1 # 0 /\ (n + 1) - 1 = n
    BY <1>6, <1>8
  <2>. QED BY <1>5, <2>1
<1>. DEFINE S == {n \in 0 .. Bits2 : Pow2[n] \in Nat /\ Pow2[n] >= 1}
<1>9. 0 \in S
  BY <1>6, <1>7
<1>10. ASSUME NEW n \in S, n < Bits2 PROVE n + 1 \in S
  <2>1. Pow2[n + 1] = 2 * Pow2[n] /\ Pow2[n] \in Nat /\ Pow2[n] >= 1 /\ n + 1 \in 0 .. Bits2
    BY <1>6, <1>8, <1>10
  <2>. QED BY <2>1
<1>11. \A n \in 0 .. Bits2 : n \in S
  <2>. HIDE DEF S
  <2>. QED BY <1>6, <1>9, <1>10, BoundedInduction
<1>. QED BY <1>7, <1>8, <1>11

\* powers multiply
LEMMA PowSum ==
  ASSUME NEW a \in Nat, NEW b \in Nat, a + b <= Bits2
  PROVE  Pow2[a + b] = Pow2[a] * Pow2[b]
<1>. DEFINE S == {n \in 0 .. b : Pow2[a + n] = Pow2[a] * Pow2[n]}
<1>1. a \in 0 .. Bits2 /\ b \in 0 .. Bits2 /\ Bits2 \in Nat
  BY WidthFacts
<1>2. Pow2[a] \in Nat
  BY <1>1, PowFacts
<1>3. 0 \in S
  BY <1>2, PowFacts
<1>4. ASSUME NEW n \in S, n < b PROVE n + 1 \in S
  <2>1. n \in 0 .. Bits2 /\ n < Bits2 /\ a + n \in 0 .. Bits2 /\ a + n < Bits2
    BY <1>1, <1>4
  <2>2. Pow2[n + 1] = 2 * Pow2[n] /\ Pow2[(a + n) + 1] = 2 * Pow2[a + n]
    BY <2>1, PowFacts
  <2>3. a + (n + 1) = (a + n) + 1
    BY <2>1
  <2>4. Pow2[n] \in Nat
    BY <2>1, PowFacts
  <2>5. PICK p, q \in Nat : p = Pow2[a] /\ q = Pow2[n]
    BY <1>2, <2>4
  <2>6. 2 * (p * q) = p * (2 * q)
    BY <2>5
  <2>. QED BY <1>4, <2>2, <2>3, <2>5, <2>6
<1>5. b \in S
  <2>. HIDE DEF S
  <2>1. \A n \in 0 .. b : n \in S
    BY <1>3, <1>4, BoundedInduction
  <2>. QED BY <2>1
<1>. QED BY <1>5

\* and grow
LEMMA PowGrows ==
  ASSUME NEW a \in 0 .. Bits2, NEW b \in 0 .. Bits2
  PROVE  /\ a <= b => Pow2[a] <= Pow2[b]
         /\ a < b => Pow2[a] < Pow2[b] /\ 2 * Pow2[a] <= Pow2[b]
<1>1. Bits2 \in Nat
  BY WidthFacts
<1>2. ASSUME NEW c \in 0 .. Bits2, c <= b PROVE Pow2[c] <= Pow2[b]
  <2>1. PICK d \in Nat : b = c + d
    <3>1. b - c \in Nat /\ b = c + (b - c)
      BY <1>1, <1>2
    <3>. QED BY <3>1
  <2>2. d \in 0 .. Bits2 /\ c \in Nat /\ c + d <= Bits2
    BY <1>1, <2>1
  <2>3. Pow2[b] = Pow2[c] * Pow2[d]
    BY <2>1, <2>2, PowSum
  <2>4. PICK p, q \in Nat : p = Pow2[c] /\ q = Pow2[d] /\ q >= 1
    BY <2>2, PowFacts
  <2>5. p <= p * q
    BY <2>4
  <2>. QED BY <2>3, <2>4, <2>5
<1>3. ASSUME a < b PROVE Pow2[a] < Pow2[b] /\ 2 * Pow2[a] <= Pow2[b]
  <2>1. a + 1 \in 0 .. Bits2 /\ a + 1 <= b /\ a < Bits2
    BY <1>1, <1>3
  <2>2. Pow2[a + 1] = 2 * Pow2[a] /\ Pow2[a + 1] <= Pow2[b]
    BY <1>2, <2>1, PowFacts
  <2>3. Pow2[a] \in Nat /\ Pow2[a] >= 1 /\ Pow2[b] \in Nat
    BY PowFacts
  <2>. QED BY <2>2, <2>3
<1>. QED BY <1>2, <1>3

-----------------------------------------------------------------------------
(* Quotients.                                                              *)

LEMMA DivFacts ==
  ASSUME NEW a \in Nat, NEW b \in Nat, b >= 1
  PROVE  a \div b \in Nat /\ a % b \in 0 .. b - 1 /\ a = (a \div b) * b + (a % b)
OBVIOUS

LEMMA DivUniquely ==
  ASSUME NEW b \in Nat, b >= 1, NEW q \in Nat, NEW r \in Nat, r < b
  PROVE  (q * b + r) \div b = q /\ (q * b + r) % b = r
OBVIOUS

LEMMA DivBelow ==
  ASSUME NEW a \in Nat, NEW b \in Nat, b >= 1, NEW c \in Nat, a < b * c
  PROVE  a \div b < c
<1>1. PICK q, r \in Nat : q = a \div b /\ r = a % b /\ a = q * b + r
  BY DivFacts
<1>2. ASSUME q >= c PROVE FALSE
  <2>1. PICK d \in Nat : q = c + d
    <3>1. q - c \in Nat /\ q = c + (q - c)
      BY <1>1, <1>2
    <3>. QED BY <3>1
  <2>2. q * b = c * b + d * b /\ c * b = b * c /\ d * b \in Nat /\ b * c \in Nat
    BY <2>1
  <2>. QED BY <1>1, <2>2
<1>. QED BY <1>1, <1>2

LEMMA DivTwice ==
  ASSUME NEW a \in Nat, NEW b \in Nat, b >= 1, NEW c \in Nat, c >= 1
  PROVE  (a \div b) \div c = a \div (b * c)
<1>1. PICK q, r \in Nat : q = a \div b /\ r < b /\ a = q * b + r
  BY DivFacts
<1>2. PICK p, s \in Nat : p = q \div c /\ s < c /\ q = p * c + s
  BY DivFacts
<1>3. a = p * (b * c) + (s * b + r)
  <2>1. q * b = p * (b * c) + s * b
    BY <1>2
  <2>. QED BY <1>1, <2>1
<1>4. s * b + r < b * c /\ s * b + r \in Nat /\ b * c \in Nat /\ b * c >= 1
  <2>1. PICK d \in Nat : c = s + 1 + d
    <3>1. c - s - 1 \in Nat /\ c = s + 1 + (c - s - 1)
      BY <1>2
    <3>. QED BY <3>1
  <2>2. b * c = s * b + b + b * d /\ b * d \in Nat /\ s * b \in Nat
    BY <2>1
  <2>. QED BY <1>1, <2>2
<1>5. PICK m, t \in Nat : m = b * c /\ t = s * b + r /\ t < m /\ m >= 1
  BY <1>4
<1>6. (p * m + t) \div m = p
  BY <1>5, DivUniquely
<1>7. a = p * m + t
  BY <1>3, <1>5
<1>. QED BY <1>1, <1>2, <1>5, <1>6, <1>7

-----------------------------------------------------------------------------
(* The bytes of a number.                                                  *)

LEMMA ByteFacts ==
  /\ Byte \in Nat /\ Byte >= 1
  /\ Word \in Nat /\ Word = Pow2[ByteBits * ByteBits]
  /\ \A i \in 0 .. ByteBits : Pow2[ByteBits * i] \in Nat /\ Pow2[ByteBits * i] >= 1
  /\ \A i \in 0 .. ByteBits : Pow2[i] \in Nat /\ Pow2[i] >= 1
<1>1. ByteBits \in 0 .. Bits2 /\ Bits2 \in 0 .. Bits2
  <2>1. ByteBits * 1 \in 0 .. Bits2 /\ Bits2 \in Nat
    BY WidthFacts
  <2>. QED BY <2>1, WidthFacts
<1>2. \A i \in 0 .. ByteBits : i \in 0 .. Bits2
  BY <1>1
<1>. QED BY <1>1, <1>2, WidthFacts, PowFacts DEF Byte, Word, Bits2

LEMMA ShiftFacts ==
  ASSUME NEW value \in Nat
  PROVE  /\ Shifted(value, 0) = value
         /\ \A i \in 0 .. ByteBits : Shifted(value, i) \in Nat
         /\ \A i \in 0 .. ByteBits : i < ByteBits =>
              /\ Shifted(value, i) = Shifted(value, i + 1) * Byte + (Shifted(value, i) % Byte)
              /\ Shifted(value, i) % Byte \in Nat
              /\ Pow2[ByteBits * (i + 1)] = Byte * Pow2[ByteBits * i]
<1>1. Shifted(value, 0) = value
  <2>1. ByteBits * 0 = 0 /\ Pow2[0] = 1 /\ value \div 1 = value
    BY WidthFacts, PowFacts
  <2>. QED BY <2>1 DEF Shifted
<1>2. ASSUME NEW i \in 0 .. ByteBits PROVE Shifted(value, i) \in Nat
  BY ByteFacts, DivFacts DEF Shifted
<1>3. ASSUME NEW i \in 0 .. ByteBits, i < ByteBits
      PROVE  /\ Shifted(value, i) = Shifted(value, i + 1) * Byte + (Shifted(value, i) % Byte)
             /\ Shifted(value, i) % Byte \in Nat
             /\ Pow2[ByteBits * (i + 1)] = Byte * Pow2[ByteBits * i]
  <2>1. ByteBits \in Nat /\ i + 1 \in 0 .. ByteBits /\ ByteBits * (i + 1) = ByteBits * i + ByteBits
    BY <1>3, WidthFacts
  <2>2. ByteBits * i \in Nat /\ ByteBits * i + ByteBits <= Bits2
    BY <2>1, WidthFacts
  <2>3. Pow2[ByteBits * i + ByteBits] = Pow2[ByteBits * i] * Pow2[ByteBits]
    BY <2>1, <2>2, PowSum
  <2>4. PICK p, b \in Nat : p = Pow2[ByteBits * i] /\ p >= 1 /\ b = Byte /\ b >= 1
    BY ByteFacts
  <2>5. Pow2[ByteBits * (i + 1)] = p * b /\ p * b = b * p
    BY <2>1, <2>3, <2>4 DEF Byte
  <2>6. (value \div p) \div b = value \div (p * b)
    BY <2>4, DivTwice
  <2>7. PICK s \in Nat : s = value \div p
    BY <2>4, DivFacts
  <2>8. s = (s \div b) * b + (s % b) /\ s % b \in Nat
    <3>1. b >= 1
      BY <2>4
    <3>2. s % b \in 0 .. b - 1 /\ s = (s \div b) * b + (s % b)
      BY <3>1, DivFacts
    <3>. QED BY <3>2
  <2>. QED BY <2>4, <2>5, <2>6, <2>7, <2>8 DEF Shifted
<1>. QED BY <1>1, <1>2, <1>3

LEMMA ExtraFacts ==
  ASSUME NEW value \in Nat
  PROVE  /\ ExtraBytes(value) \in 0 .. ByteBits
         /\ \/ ExtraBytes(value) = ByteBits
            \/ value < Pow2[(ByteBits - 1) * (ExtraBytes(value) + 1)]
<1>. DEFINE S == {i \in 0 .. ByteBits : i = ByteBits \/ value < Pow2[(ByteBits - 1) * (i + 1)]}
<1>1. ByteBits \in S /\ S \subseteq Nat
  BY WidthFacts
<1>2. Min(S) \in S
  <2>. HIDE DEF S
  <2>1. S # {}
    BY <1>1
  <2>. QED BY <1>1, <2>1, MinIsLeast
<1>. QED BY <1>2 DEF ExtraBytes

\* what stands in the first byte is below its leading ones
LEMMA TopFacts ==
  ASSUME NEW value \in Nat, value < Word, NEW i, i = ExtraBytes(value)
  PROVE  /\ i \in 0 .. ByteBits
         /\ FirstByte(value, i) = LeadingOnes(i) + Shifted(value, i)
         /\ i < ByteBits => Shifted(value, i) < Pow2[ByteBits - 1 - i]
         /\ i = ByteBits => Shifted(value, i) = 0
<1>1. i \in 0 .. ByteBits
  BY ExtraFacts
<1>2. ASSUME i = ByteBits PROVE Shifted(value, i) = 0
  <2>1. PICK w \in Nat : w = Pow2[ByteBits * ByteBits] /\ value < w /\ w >= 1
    BY ByteFacts
  <2>2. value = 0 * w + value
    OBVIOUS
  <2>3. (0 * w + value) \div w = 0
    BY <2>1, DivUniquely
  <2>. QED BY <1>2, <2>1, <2>2, <2>3 DEF Shifted
<1>3. ASSUME i < ByteBits PROVE Shifted(value, i) < Pow2[ByteBits - 1 - i]
  <2>1. PICK j \in Nat : j = ByteBits - 1 - i
    BY <1>1, <1>3, WidthFacts
  <2>2. ByteBits \in Nat /\ i \in Nat /\ i = ExtraBytes(value) /\ i # ByteBits
    BY <1>1, <1>3, WidthFacts
  <2>3. (ByteBits - 1) * (i + 1) = ByteBits * i + j
    BY <2>1, <2>2
  <2>4. value < Pow2[ByteBits * i + j]
    BY <2>2, <2>3, ExtraFacts
  <2>5. ByteBits * i \in Nat /\ ByteBits * i + j <= Bits2
    <3>1. i + 1 \in 0 .. ByteBits /\ ByteBits * (i + 1) = ByteBits * i + ByteBits
      BY <1>1, <1>3, <2>2
    <3>2. ByteBits * (i + 1) \in 0 .. Bits2 /\ ByteBits * i \in 0 .. Bits2
      BY <1>1, <3>1, WidthFacts
    <3>3. j < ByteBits
      BY <2>1, <2>2
    <3>. QED BY <2>2, <3>1, <3>2, <3>3, WidthFacts
  <2>6. Pow2[ByteBits * i + j] = Pow2[ByteBits * i] * Pow2[j]
    BY <2>1, <2>5, PowSum
  <2>7. PICK p, q \in Nat : p = Pow2[ByteBits * i] /\ p >= 1 /\ q = Pow2[j]
    <3>1. j \in 0 .. ByteBits
      BY <2>1, <2>2
    <3>. QED BY <1>1, <3>1, ByteFacts
  <2>8. value \div p < q
    BY <2>4, <2>6, <2>7, DivBelow
  <2>. QED BY <2>1, <2>7, <2>8 DEF Shifted
<1>. QED BY <1>1, <1>2, <1>3 DEF FirstByte

LEMMA OnesFacts ==
  \A j \in 0 .. ByteBits : /\ LeadingOnes(j) \in Nat /\ LeadingOnes(j) <= Byte
                           /\ LeadingOnes(j) = Byte - Pow2[ByteBits - j]
<1>. SUFFICES ASSUME NEW j \in 0 .. ByteBits
              PROVE  LeadingOnes(j) \in Nat /\ LeadingOnes(j) <= Byte
  BY DEF LeadingOnes
<1>1. ByteBits - j \in 0 .. ByteBits /\ ByteBits \in 0 .. ByteBits
  BY WidthFacts
<1>2. ByteBits - j \in 0 .. Bits2 /\ ByteBits \in 0 .. Bits2 /\ ByteBits - j <= ByteBits
  <2>1. ByteBits * 1 \in 0 .. Bits2 /\ Bits2 \in Nat
    BY WidthFacts
  <2>. QED BY <1>1, <2>1, WidthFacts
<1>3. Pow2[ByteBits - j] <= Byte
  BY <1>2, PowGrows DEF Byte
<1>4. Pow2[ByteBits - j] \in Nat /\ Byte \in Nat
  BY <1>1, ByteFacts
<1>. QED BY <1>3, <1>4 DEF LeadingOnes

\* the leading ones are read back
LEMMA FollowingFacts ==
  ASSUME NEW i \in 0 .. ByteBits, NEW t \in Nat,
         i < ByteBits => t < Pow2[ByteBits - 1 - i], i = ByteBits => t = 0
  PROVE  FollowingBytes(LeadingOnes(i) + t) = i
<1>. DEFINE first == LeadingOnes(i) + t
            S == {j \in 0 .. ByteBits : first >= LeadingOnes(j)}
<1>1. i \in S /\ S \subseteq Nat /\ \A j \in S : j <= ByteBits
  BY OnesFacts, WidthFacts
<1>2. ASSUME NEW j \in S PROVE j <= i
  <2>. SUFFICES ASSUME j > i PROVE FALSE
    BY <1>1
  <2>1. i < ByteBits /\ ByteBits - 1 - i \in 0 .. Bits2 /\ ByteBits - i \in 0 .. Bits2
        /\ ByteBits - j \in 0 .. Bits2 /\ ByteBits - j <= ByteBits - 1 - i
        /\ ByteBits - 1 - i < ByteBits - i
    <3>1. ByteBits * 1 \in 0 .. Bits2 /\ Bits2 \in Nat /\ ByteBits \in Nat
      BY WidthFacts
    <3>2. j \in 0 .. ByteBits
      OBVIOUS
    <3>. QED BY <3>1, <3>2
  <2>2. Pow2[ByteBits - j] <= Pow2[ByteBits - 1 - i] /\ 2 * Pow2[ByteBits - 1 - i] <= Pow2[ByteBits - i]
    BY <2>1, PowGrows
  <2>3. PICK p, q, r \in Nat : p = Pow2[ByteBits - j] /\ q = Pow2[ByteBits - 1 - i] /\ r = Pow2[ByteBits - i]
    BY <2>1, PowFacts
  <2>4. LeadingOnes(i) = Byte - r /\ LeadingOnes(j) = Byte - p /\ Byte \in Nat
    BY <2>3, OnesFacts, ByteFacts
  <2>5. Byte - r + t >= Byte - p
    BY <2>4
  <2>. QED BY <2>1, <2>2, <2>3, <2>4, <2>5
<1>3. Max(S) \in S /\ \A j \in S : Max(S) >= j
  <2>. HIDE DEF S
  <2>1. S # {} /\ ByteBits \in Nat
    BY <1>1, WidthFacts
  <2>. QED BY <1>1, <2>1, MaxIsGreatest
<1>4. Max(S) = i
  <2>1. Max(S) \in Nat /\ Max(S) <= i /\ Max(S) >= i /\ i \in Nat
    BY <1>1, <1>2, <1>3
  <2>. QED BY <2>1
<1>. QED BY <1>4 DEF FollowingBytes

-----------------------------------------------------------------------------
(* A number, written and read.                                             *)

LEMMA WriteFacts ==
  ASSUME NEW value \in Nat, value < Word, NEW i, i = ExtraBytes(value)
  PROVE  /\ i \in 0 .. ByteBits
         /\ write_u64(value) \in Seq(Nat)
         /\ Len(write_u64(value)) = 1 + i
         /\ write_u64(value)[1] = LeadingOnes(i) + Shifted(value, i)
         /\ \A k \in 1 .. i : write_u64(value)[k + 1] = Shifted(value, k - 1) % Byte
<1>1. i \in 0 .. ByteBits /\ i \in Nat /\ FirstByte(value, i) = LeadingOnes(i) + Shifted(value, i)
  BY TopFacts, WidthFacts
<1>2. FirstByte(value, i) \in Nat
  BY <1>1, OnesFacts, ShiftFacts
<1>3. PICK first \in Nat : first = FirstByte(value, i)
  BY <1>2
<1>4. PICK low : low = [k \in 1 .. i |-> Shifted(value, k - 1) % Byte]
  OBVIOUS
<1>5. low \in Seq(Nat) /\ Len(low) = i /\ \A k \in 1 .. i : low[k] = Shifted(value, k - 1) % Byte
  <2>1. ASSUME NEW k \in 1 .. i PROVE Shifted(value, k - 1) % Byte \in Nat
    <3>1. k - 1 \in 0 .. ByteBits /\ k - 1 < ByteBits
      BY <1>1, WidthFacts
    <3>. QED BY <3>1, ShiftFacts
  <2>. QED BY <1>1, <1>4, <2>1
<1>6. write_u64(value) = <<first>> \o low
  BY <1>3, <1>4 DEF write_u64
<1>7. /\ <<first>> \o low \in Seq(Nat) /\ Len(<<first>> \o low) = 1 + i
      /\ (<<first>> \o low)[1] = first
      /\ \A k \in 1 .. i : (<<first>> \o low)[k + 1] = low[k]
  <2>1. low \in Seq(Nat) /\ Len(low) = i
    BY <1>5
  <2>. QED BY <1>1, <2>1
<1>. QED BY <1>1, <1>3, <1>5, <1>6, <1>7

\* a number is read as it was written, wherever the bytes go on
LEMMA NumberReadsBack ==
  ASSUME NEW value \in Nat, value < Word, NEW i, i = ExtraBytes(value), NEW bytes,
         bytes[1] = LeadingOnes(i) + Shifted(value, i),
         \A k \in 1 .. i : bytes[k + 1] = Shifted(value, k - 1) % Byte
  PROVE  FollowingBytes(bytes[1]) = i /\ ReadU64(bytes) = value
<1>1. i \in 0 .. ByteBits /\ i \in Nat
  BY TopFacts, WidthFacts
<1>2. Shifted(value, i) \in Nat
  BY <1>1, ShiftFacts
<1>3. FollowingBytes(bytes[1]) = i
  BY <1>1, <1>2, TopFacts, FollowingFacts
<1>. DEFINE P(k) == Pow2[ByteBits * k]
            Row(f) == [k \in 0 .. i |-> IF k = 0 THEN 0 ELSE f[k - 1] + bytes[k + 1] * P(k - 1)]
            c == CHOOSE f : f = Row(f)
<1>4. ReadU64(bytes) = (bytes[1] - LeadingOnes(i)) * P(i) + c[i]
  BY <1>3, Zenon DEF ReadU64
<1>5. PICK g : g = [k \in 0 .. i |-> value - Shifted(value, k) * P(k)]
  OBVIOUS
<1>6. ASSUME NEW k \in 1 .. i PROVE g[k] = g[k - 1] + bytes[k + 1] * P(k - 1)
  <2>1. PICK j \in 0 .. i : j = k - 1 /\ j < ByteBits /\ j \in 0 .. ByteBits /\ k \in 0 .. i /\ j + 1 = k
    BY <1>1, WidthFacts
  <2>2. PICK s \in Nat : s = Shifted(value, k)
    <3>1. k \in 0 .. ByteBits
      BY <1>1, WidthFacts
    <3>2. Shifted(value, k) \in Nat
      BY <3>1, ShiftFacts
    <3>. QED BY <3>2
  <2>3. PICK r \in Nat : r = Shifted(value, j) % Byte
    BY <2>1, ShiftFacts
  <2>4. PICK b \in Nat : b = Byte
    BY ByteFacts
  <2>5. PICK p \in Nat : p = P(j)
    BY <2>1, ByteFacts
  <2>6. Shifted(value, j) = s * b + r /\ P(k) = b * p
    BY <2>1, <2>2, <2>3, <2>4, <2>5, ShiftFacts
  <2>7. g[k] = value - s * (b * p) /\ g[j] = value - (s * b + r) * p
    BY <1>5, <2>1, <2>2, <2>5, <2>6
  <2>8. bytes[k + 1] = r
    BY <2>1, <2>3
  <2>9. value - s * (b * p) = (value - (s * b + r) * p) + r * p
    OBVIOUS
  <2>. QED BY <2>1, <2>5, <2>7, <2>8, <2>9
<1>7. g[0] = 0
  <2>1. Shifted(value, 0) = value /\ P(0) = 1
    <3>1. ByteBits * 0 = 0
      BY WidthFacts
    <3>. QED BY <3>1, ShiftFacts, PowFacts
  <2>2. 0 \in 0 .. i
    BY <1>1
  <2>3. g[0] = value - Shifted(value, 0) * P(0)
    BY <1>5, <2>2
  <2>. QED BY <2>1, <2>3
<1>. HIDE DEF P
<1>8. g = Row(g)
  <2>1. \A k \in 0 .. i : g[k] = IF k = 0 THEN 0 ELSE g[k - 1] + bytes[k + 1] * P(k - 1)
    <3>. SUFFICES ASSUME NEW k \in 0 .. i, k # 0 PROVE g[k] = g[k - 1] + bytes[k + 1] * P(k - 1)
      BY <1>7
    <3>1. k \in 1 .. i
      BY <1>1
    <3>. QED BY <1>6, <3>1
  <2>. QED BY <1>5, <2>1
<1>9. c = Row(c)
  <2>. HIDE DEF Row
  <2>. QED BY <1>8
<1>. HIDE DEF c
<1>10. \A k \in 0 .. i : c[k] = IF k = 0 THEN 0 ELSE c[k - 1] + bytes[k + 1] * P(k - 1)
  BY <1>9
<1>11. EqualFromBelow(c, g, i)
  <2>. SUFFICES ASSUME NEW k \in 0 .. i, \A j \in 0 .. i : j < k => c[j] = g[j] PROVE c[k] = g[k]
    BY DEF EqualFromBelow
  <2>1. CASE k = 0
    BY <1>7, <1>10, <2>1
  <2>2. CASE k # 0
    <3>1. k \in 1 .. i /\ k - 1 \in 0 .. i /\ k - 1 < k
      BY <1>1, <2>2
    <3>2. c[k - 1] = g[k - 1]
      BY <3>1
    <3>. QED BY <1>6, <1>10, <2>2, <3>1, <3>2
  <2>. QED BY <2>1, <2>2
<1>12. c[i] = g[i]
  <2>1. \A k \in 0 .. i : c[k] = g[k]
    BY <1>1, <1>11, UpUnique
  <2>. QED BY <1>1, <2>1
<1>13. c[i] = value - Shifted(value, i) * P(i)
  <2>1. i \in 0 .. i
    BY <1>1
  <2>. QED BY <1>5, <1>12, <2>1 DEF P
<1>14. ReadU64(bytes) = value
  <2>1. PICK s \in Nat : s = Shifted(value, i)
    BY <1>2
  <2>2. PICK p \in Nat : p = P(i)
    BY <1>1, ByteFacts DEF P
  <2>3. PICK o \in Nat : o = LeadingOnes(i)
    BY <1>1, OnesFacts
  <2>4. bytes[1] = o + s
    BY <2>1, <2>3
  <2>5. (o + s - o) * p + (value - s * p) = value
    OBVIOUS
  <2>. QED BY <1>4, <1>13, <2>1, <2>2, <2>3, <2>4, <2>5
<1>. QED BY <1>3, <1>14

LEMMA WordReadsBack ==
  ASSUME NEW value \in Nat, value < Word
  PROVE  ReadU64(write_u64(value)) = value
BY WriteFacts, NumberReadsBack

-----------------------------------------------------------------------------
(* Bit sets.                                                               *)

Bit(k, i, E) == IF (k - 1) * ByteBits + i \in E THEN Pow2[ByteBits - i] ELSE 0
BitsRow(g, i, k, E) == IF i = 0 THEN 0 ELSE g[i - 1] + Bit(k, i, E)

LEMMA BitType ==
  ASSUME NEW k, NEW E, NEW i \in 0 .. ByteBits
  PROVE  Bit(k, i, E) \in Nat /\ Bit(k, i, E) <= Pow2[ByteBits - i]
<1>1. ByteBits - i \in 0 .. ByteBits
  BY WidthFacts
<1>2. Pow2[ByteBits - i] \in Nat
  BY <1>1, ByteFacts
<1>. QED BY <1>2 DEF Bit

IsBits(g, k, E) ==
  /\ g \in [0 .. ByteBits -> Nat]
  /\ g[0] = 0
  /\ \A i \in 1 .. ByteBits : g[i] = g[i - 1] + Bit(k, i, E)
  /\ ByteOf(k, E) = g[ByteBits]

LEMMA BitsExist ==
  ASSUME NEW k, NEW E
  PROVE  \E g : IsBits(g, k, E)
<1>. DEFINE m == ByteBits
            V == Nat
            R == [i \in 0 .. m |-> [g \in [0 .. m -> V] |-> BitsRow(g, i, k, E)]]
            Row(f) == [i \in 0 .. m |->
                         IF i = 0 THEN 0
                         ELSE f[i - 1] + (IF (k - 1) * ByteBits + i \in E
                                          THEN Pow2[ByteBits - i] ELSE 0)]
            c == CHOOSE f : f = Row(f)
<1>1. m \in Nat /\ V # {}
  BY WidthFacts
<1>2. R \in [0 .. m -> [[0 .. m -> V] -> V]]
  <2>1. ASSUME NEW i \in 0 .. m, NEW g \in [0 .. m -> V] PROVE BitsRow(g, i, k, E) \in V
    <3>1. CASE i = 0
      BY <3>1 DEF BitsRow
    <3>2. CASE i # 0
      <4>1. i - 1 \in 0 .. m
        BY <1>1, <3>2
      <4>2. g[i - 1] \in Nat /\ Bit(k, i, E) \in Nat
        BY <4>1, BitType
      <4>. QED BY <3>2, <4>2 DEF BitsRow
    <3>. QED BY <3>1, <3>2
  <2>. QED BY <2>1
<1>3. ASSUME NEW i \in 0 .. m, NEW g \in [0 .. m -> V], NEW h \in [0 .. m -> V],
             \A j \in 0 .. m : j < i => g[j] = h[j]
      PROVE  R[i][g] = R[i][h]
  <2>1. i # 0 => g[i - 1] = h[i - 1]
    BY <1>1, <1>3
  <2>. QED BY <2>1 DEF BitsRow
<1>4. \E g \in [0 .. m -> V] : \A i \in 0 .. m : g[i] = R[i][g]
  <2>. HIDE DEF m, V, R
  <2>1. FromBelow(R, m, V)
    BY <1>3 DEF FromBelow
  <2>2. SolvedFromBelow(R, m, V)
    BY <1>1, <1>2, <2>1, UpRecursion
  <2>. QED BY <2>2 DEF SolvedFromBelow
<1>5. PICK g \in [0 .. m -> V] : \A i \in 0 .. m : g[i] = BitsRow(g, i, k, E)
  BY <1>4
<1>6. g = Row(g)
  BY <1>5 DEF BitsRow, Bit
<1>7. ByteOf(k, E) = c[ByteBits]
  BY Zenon DEF ByteOf
<1>8. c = Row(c)
  <2>. HIDE DEF Row
  <2>. QED BY <1>6
<1>. HIDE DEF c
<1>9. \A i \in 0 .. m : c[i] = IF i = 0 THEN 0 ELSE c[i - 1] + Bit(k, i, E)
  BY <1>8 DEF Bit
<1>10. EqualFromBelow(c, g, m)
  <2>. SUFFICES ASSUME NEW i \in 0 .. m, \A j \in 0 .. m : j < i => c[j] = g[j] PROVE c[i] = g[i]
    BY DEF EqualFromBelow
  <2>1. CASE i = 0
    BY <1>5, <1>9, <2>1 DEF BitsRow
  <2>2. CASE i # 0
    <3>1. i - 1 \in 0 .. m /\ i - 1 < i
      BY <1>1, <2>2
    <3>2. c[i - 1] = g[i - 1]
      BY <3>1
    <3>. QED BY <1>5, <1>9, <2>2, <3>2 DEF BitsRow
  <2>. QED BY <2>1, <2>2
<1>11. ByteBits \in 0 .. m
  BY <1>1
<1>12. c[ByteBits] = g[ByteBits]
  <2>1. \A i \in 0 .. m : c[i] = g[i]
    BY <1>1, <1>10, UpUnique
  <2>. QED BY <1>11, <2>1
<1>13. g[0] = 0
  <2>1. 0 \in 0 .. m
    BY <1>1
  <2>. QED BY <1>5, <2>1 DEF BitsRow
<1>14. \A i \in 1 .. ByteBits : g[i] = g[i - 1] + Bit(k, i, E)
  <2>1. \A i \in 1 .. ByteBits : i \in 0 .. m /\ i # 0
    BY <1>1
  <2>. QED BY <1>5, <2>1 DEF BitsRow
<1>. QED BY <1>5, <1>7, <1>12, <1>13, <1>14 DEF IsBits

\* the bits up to the i-th are a multiple of its value
LEMMA BitsAbove ==
  ASSUME NEW k, NEW E, NEW g, IsBits(g, k, E), NEW j \in 0 .. ByteBits
  PROVE  \E h \in Nat : g[j] = h * Pow2[ByteBits - j]
<1>. DEFINE S == {i \in 0 .. j : \E h \in Nat : g[i] = h * Pow2[ByteBits - i]}
<1>1. ByteBits \in Nat /\ j \in Nat
  BY WidthFacts
<1>2. 0 \in S
  <2>1. Pow2[ByteBits - 0] \in Nat
    <3>1. ByteBits - 0 \in 0 .. ByteBits
      BY <1>1
    <3>. QED BY <3>1, ByteFacts
  <2>2. g[0] = 0 * Pow2[ByteBits - 0]
    BY <2>1 DEF IsBits
  <2>. QED BY <1>1, <2>2
<1>3. ASSUME NEW i \in S, i < j PROVE i + 1 \in S
  <2>1. PICK h \in Nat : g[i] = h * Pow2[ByteBits - i]
    OBVIOUS
  <2>2. i + 1 \in 1 .. ByteBits /\ (i + 1) - 1 = i /\ i + 1 \in 0 .. j
    BY <1>1, <1>3
  <2>3. g[i + 1] = g[i] + Bit(k, i + 1, E)
    BY <2>2 DEF IsBits
  <2>4. PICK p \in Nat : p = Pow2[ByteBits - (i + 1)]
    <3>1. ByteBits - (i + 1) \in 0 .. ByteBits
      BY <1>1, <2>2
    <3>. QED BY <3>1, ByteFacts
  <2>5. Pow2[ByteBits - i] = 2 * p
    <3>1. ByteBits - (i + 1) \in 0 .. Bits2 /\ ByteBits - (i + 1) < Bits2
          /\ (ByteBits - (i + 1)) + 1 = ByteBits - i
      <4>1. ByteBits * 1 \in 0 .. Bits2 /\ Bits2 \in Nat
        BY WidthFacts
      <4>. QED BY <1>1, <2>2, <4>1
    <3>. QED BY <2>4, <3>1, PowFacts
  <2>6. PICK b \in {0, 1} : Bit(k, i + 1, E) = b * p
    BY <2>4 DEF Bit
  <2>7. h * (2 * p) + b * p = (2 * h + b) * p
    OBVIOUS
  <2>8. g[i + 1] = (2 * h + b) * p /\ 2 * h + b \in Nat
    BY <2>1, <2>3, <2>5, <2>6, <2>7
  <2>. QED BY <2>2, <2>4, <2>8
<1>4. j \in S
  <2>. HIDE DEF S
  <2>1. \A i \in 0 .. j : i \in S
    BY <1>1, <1>2, <1>3, BoundedInduction
  <2>. QED BY <1>1, <2>1
<1>. QED BY <1>4

\* and those after it stay below it
LEMMA BitsBelow ==
  ASSUME NEW k, NEW E, NEW g, IsBits(g, k, E), NEW j \in 0 .. ByteBits
  PROVE  \E r \in Nat : g[ByteBits] = g[j] + r /\ r < Pow2[ByteBits - j]
<1>1. ByteBits \in Nat /\ j \in Nat /\ j <= ByteBits
  BY WidthFacts
<1>2. PICK d \in Nat : d = ByteBits - j
  BY <1>1
<1>. DEFINE S == {n \in 0 .. d : \E r \in Nat :
                    g[j + n] = g[j] + r /\ r + Pow2[d - n] <= Pow2[d]}
<1>3. g[j] \in Nat
  BY DEF IsBits
<1>4. \A n \in 0 .. d : d - n \in 0 .. ByteBits /\ Pow2[d - n] \in Nat /\ Pow2[d - n] >= 1
  <2>1. \A n \in 0 .. d : d - n \in 0 .. ByteBits
    BY <1>1, <1>2
  <2>. QED BY <2>1, ByteFacts
<1>5. 0 \in S
  <2>1. j + 0 = j /\ d - 0 = d /\ 0 \in 0 .. d
    BY <1>1
  <2>2. Pow2[d] \in Nat
    BY <1>4, <2>1
  <2>3. g[j] = g[j] + 0 /\ 0 + Pow2[d] <= Pow2[d]
    BY <1>3, <2>2
  <2>. QED BY <2>1, <2>3
<1>6. ASSUME NEW n \in S, n < d PROVE n + 1 \in S
  <2>1. PICK r \in Nat : g[j + n] = g[j] + r /\ r + Pow2[d - n] <= Pow2[d]
    OBVIOUS
  <2>2. n + 1 \in 0 .. d /\ d - (n + 1) \in Nat /\ (d - (n + 1)) + 1 = d - n
        /\ j + (n + 1) \in 1 .. ByteBits /\ (j + (n + 1)) - 1 = j + n
        /\ ByteBits - (j + (n + 1)) = d - (n + 1)
    BY <1>1, <1>2, <1>6
  <2>3. PICK p, q \in Nat : p = Pow2[d - (n + 1)] /\ q = Pow2[d]
    <3>1. Pow2[d] \in Nat
      <4>1. 0 \in 0 .. d /\ d - 0 = d
        OBVIOUS
      <4>. QED BY <1>4, <4>1
    <3>. QED BY <1>4, <2>2, <3>1
  <2>4. Pow2[d - n] = 2 * p
    <3>1. d - (n + 1) \in 0 .. Bits2 /\ d - (n + 1) < Bits2
      <4>1. ByteBits * 1 \in 0 .. Bits2 /\ Bits2 \in Nat
        BY WidthFacts
      <4>. QED BY <1>1, <1>2, <2>2, <4>1
    <3>. QED BY <2>2, <2>3, <3>1, PowFacts
  <2>5. g[j + (n + 1)] = g[j + n] + Bit(k, j + (n + 1), E)
    BY <2>2 DEF IsBits
  <2>6. PICK b \in Nat : b = Bit(k, j + (n + 1), E) /\ b <= p
    <3>1. j + (n + 1) \in 0 .. ByteBits
      BY <2>2
    <3>. QED BY <2>2, <2>3, <3>1, BitType
  <2>7. g[j + (n + 1)] = g[j] + (r + b)
    BY <1>3, <2>1, <2>5, <2>6
  <2>8. (r + b) + p <= q /\ r + b \in Nat
    BY <2>1, <2>3, <2>4, <2>6
  <2>. QED BY <2>2, <2>3, <2>7, <2>8
<1>7. d \in S
  <2>. HIDE DEF S
  <2>1. \A n \in 0 .. d : n \in S
    BY <1>5, <1>6, BoundedInduction
  <2>. QED BY <2>1
<1>8. PICK r \in Nat : g[j + d] = g[j] + r /\ r + Pow2[d - d] <= Pow2[d]
  BY <1>7
<1>9. j + d = ByteBits /\ d - d = 0
  BY <1>1, <1>2
<1>10. r < Pow2[d]
  <2>1. Pow2[0] = 1 /\ Pow2[d] \in Nat
    <3>1. d \in 0 .. ByteBits
      BY <1>1, <1>2
    <3>. QED BY <3>1, PowFacts, ByteFacts
  <2>. QED BY <1>8, <1>9, <2>1
<1>. QED BY <1>2, <1>8, <1>9, <1>10

LEMMA BitReadsBack ==
  ASSUME NEW k, NEW E, NEW i \in 1 .. ByteBits
  PROVE  (ByteOf(k, E) \div Pow2[ByteBits - i]) % 2 = 1 <=> (k - 1) * ByteBits + i \in E
<1>1. PICK g : IsBits(g, k, E)
  BY BitsExist
<1>2. ByteBits \in Nat /\ i \in 0 .. ByteBits /\ i - 1 \in 0 .. ByteBits
  BY WidthFacts
<1>3. PICK p \in Nat : p = Pow2[ByteBits - i] /\ p >= 1
  <2>1. ByteBits - i \in 0 .. ByteBits
    BY <1>2
  <2>. QED BY <2>1, ByteFacts
<1>4. Pow2[ByteBits - (i - 1)] = 2 * p
  <2>1. ByteBits - i \in 0 .. Bits2 /\ ByteBits - i < Bits2 /\ (ByteBits - i) + 1 = ByteBits - (i - 1)
    <3>1. ByteBits * 1 \in 0 .. Bits2 /\ Bits2 \in Nat
      BY WidthFacts
    <3>. QED BY <1>2, <3>1
  <2>. QED BY <1>3, <2>1, PowFacts
<1>5. PICK h \in Nat : g[i - 1] = h * (2 * p)
  BY <1>1, <1>2, <1>4, BitsAbove
<1>6. PICK r \in Nat : g[ByteBits] = g[i] + r /\ r < p
  BY <1>1, <1>2, <1>3, BitsBelow
<1>7. PICK b \in {0, 1} : Bit(k, i, E) = b * p /\ (b = 1 <=> (k - 1) * ByteBits + i \in E)
  BY <1>3 DEF Bit
<1>8. g[i] = g[i - 1] + Bit(k, i, E)
  BY <1>1 DEF IsBits
<1>9. ByteOf(k, E) = g[ByteBits]
  BY <1>1 DEF IsBits
<1>10. PICK q \in Nat : q = 2 * h + b
  OBVIOUS
<1>11. h * (2 * p) + b * p = q * p
  BY <1>10
<1>12. ByteOf(k, E) = q * p + r
  BY <1>5, <1>6, <1>7, <1>8, <1>9, <1>11
<1>13. (q * p + r) \div p = q
  BY <1>3, <1>6, DivUniquely
<1>14. q % 2 = b
  BY <1>10
<1>. QED BY <1>3, <1>7, <1>12, <1>13, <1>14

LEMMA SetReadsBack ==
  ASSUME NEW n \in Nat, NEW E, NEW k \in 1 .. n
  PROVE  HasBit(bitset_bytes(n, E), k) <=> k \in E
<1>1. PICK w \in Nat : w = ByteBits /\ w >= 1
  BY WidthFacts
<1>2. PICK q, r \in Nat : q = (k - 1) \div w /\ r = (k - 1) % w /\ r < w /\ k - 1 = q * w + r
  <2>1. k - 1 \in Nat
    OBVIOUS
  <2>. QED BY <1>1, <2>1, DivFacts
<1>3. 1 + q \in 1 .. (n + w - 1) \div w
  <2>1. PICK d \in Nat : n = k + d
    <3>1. n - k \in Nat /\ n = k + (n - k)
      OBVIOUS
    <3>. QED BY <3>1
  <2>2. n + w - 1 = (q + 1) * w + (r + d) /\ r + d \in Nat
    BY <1>2, <2>1
  <2>3. PICK a \in Nat : a = n + w - 1
    BY <1>1
  <2>4. PICK s, t \in Nat : s = a \div w /\ t < w /\ a = s * w + t
    BY <1>1, <2>3, DivFacts
  <2>5. s >= q + 1
    <3>. SUFFICES ASSUME s < q + 1 PROVE FALSE
      OBVIOUS
    <3>1. PICK e \in Nat : q = s + e
      <4>1. q - s \in Nat /\ q = s + (q - s)
        OBVIOUS
      <4>. QED BY <4>1
    <3>2. (q + 1) * w = s * w + e * w + w /\ e * w \in Nat /\ s * w \in Nat
      BY <3>1
    <3>. QED BY <2>2, <2>3, <2>4, <3>2
  <2>. QED BY <2>3, <2>4, <2>5
<1>4. bitset_bytes(n, E)[1 + q] = ByteOf(1 + q, E)
  BY <1>1, <1>3 DEF bitset_bytes
<1>5. PICK i \in 1 .. ByteBits : i = r + 1
  BY <1>1, <1>2
<1>6. ByteBits - 1 - ((k - 1) % ByteBits) = ByteBits - i /\ 1 + ((k - 1) \div ByteBits) = 1 + q
  BY <1>1, <1>2, <1>5
<1>7. ((1 + q) - 1) * ByteBits + i = k
  BY <1>1, <1>2, <1>5
<1>8. HasBit(bitset_bytes(n, E), k) <=> (ByteOf(1 + q, E) \div Pow2[ByteBits - i]) % 2 = 1
  BY <1>4, <1>6 DEF HasBit
<1>9. (ByteOf(1 + q, E) \div Pow2[ByteBits - i]) % 2 = 1 <=> ((1 + q) - 1) * ByteBits + i \in E
  BY BitReadsBack
<1>. QED BY <1>7, <1>8, <1>9

-----------------------------------------------------------------------------
(* Numbers one after the other, and lists with gaps.                       *)

\* where a piece stands in what is put together
Placed(g, ss, k) ==
  /\ Len(g[k - 1]) \in Nat
  /\ Len(g[k]) = Len(g[k - 1]) + Len(ss[k])
  /\ Len(g[k]) <= Len(FlattenSeq(ss))
  /\ \A x \in 1 .. Len(ss[k]) : FlattenSeq(ss)[Len(g[k - 1]) + x] = ss[k][x]

LEMMA FlatPlaces ==
  ASSUME NEW S, NEW ss \in Seq(Seq(S)), NEW g, IsFlat(g, ss, S), NEW k \in 1 .. Len(ss)
  PROVE  Placed(g, ss, k)
<1>1. PICK n \in Nat : n = Len(ss)
  OBVIOUS
<1>2. /\ \A i \in 0 .. n : g[i] \in Seq(S)
      /\ \A i \in 1 .. n : g[i] = g[i - 1] \o ss[i] /\ ss[i] \in Seq(S)
      /\ FlattenSeq(ss) = g[n]
  <2>1. \A i \in 1 .. n : ss[i] \in Seq(S)
    BY <1>1
  <2>2. /\ g \in [0 .. n -> Seq(S)] /\ FlattenSeq(ss) = g[n]
        /\ \A i \in 1 .. n : g[i] = g[i - 1] \o ss[i]
    BY <1>1 DEF IsFlat
  <2>. QED BY <2>1, <2>2
<1>3. k \in 1 .. n /\ k - 1 \in 0 .. n /\ k \in 0 .. n
  BY <1>1
<1>4. PICK a \in Seq(S) : a = g[k - 1]
  BY <1>2, <1>3
<1>5. PICK b \in Seq(S) : b = ss[k]
  BY <1>2, <1>3
<1>6. g[k] = a \o b
  BY <1>2, <1>3, <1>4, <1>5
<1>7. Len(a \o b) = Len(a) + Len(b) /\ \A x \in 1 .. Len(b) : (a \o b)[Len(a) + x] = b[x]
  OBVIOUS
<1>. DEFINE T == {i \in 0 .. n : k <= i =>
                    /\ Len(g[k]) <= Len(g[i])
                    /\ \A x \in 1 .. Len(g[k]) : g[i][x] = g[k][x]}
<1>8. 0 \in T
  BY <1>3
<1>9. ASSUME NEW i \in T, i < n PROVE i + 1 \in T
  <2>1. i + 1 \in 1 .. n /\ (i + 1) - 1 = i /\ i + 1 \in 0 .. n /\ i \in 0 .. n
    BY <1>9
  <2>2. PICK c, d \in Seq(S) : c = g[i] /\ d = ss[i + 1] /\ g[i + 1] = c \o d
    BY <1>2, <2>1
  <2>3. PICK e \in Seq(S) : e = g[k]
    BY <1>2, <1>3
  <2>4. CASE k <= i
    <3>1. Len(e) <= Len(c) /\ \A x \in 1 .. Len(e) : c[x] = e[x]
      BY <2>2, <2>3, <2>4
    <3>2. Len(c) <= Len(c \o d) /\ \A x \in 1 .. Len(c) : (c \o d)[x] = c[x]
      OBVIOUS
    <3>3. Len(e) <= Len(c \o d) /\ \A x \in 1 .. Len(e) : (c \o d)[x] = e[x]
      BY <3>1, <3>2
    <3>. QED BY <2>1, <2>2, <2>3, <3>3
  <2>5. CASE k = i + 1
    <3>1. Len(e) <= Len(e)
      OBVIOUS
    <3>. QED BY <2>1, <2>3, <2>5, <3>1
  <2>6. CASE ~(k <= i + 1)
    BY <2>1, <2>6
  <2>. QED BY <1>3, <2>1, <2>4, <2>5, <2>6
<1>10. n \in T
  <2>. HIDE DEF T
  <2>1. \A i \in 0 .. n : i \in T
    BY <1>8, <1>9, BoundedInduction
  <2>. QED BY <2>1
<1>11. PICK f \in Seq(S) : f = g[n]
  BY <1>2
<1>12. Len(a \o b) <= Len(f) /\ \A x \in 1 .. Len(a \o b) : f[x] = (a \o b)[x]
  BY <1>3, <1>6, <1>10, <1>11
<1>13. \A x \in 1 .. Len(b) : f[Len(a) + x] = b[x]
  <2>. SUFFICES ASSUME NEW x \in 1 .. Len(b) PROVE f[Len(a) + x] = b[x]
    OBVIOUS
  <2>1. Len(a) + x \in 1 .. Len(a \o b)
    BY <1>7
  <2>. QED BY <1>7, <1>12, <2>1
<1>14. Len(a) \in Nat
  OBVIOUS
<1>15. FlattenSeq(ss) = f
  BY <1>2, <1>11
<1>16. Len(g[k - 1]) \in Nat /\ Len(g[k]) = Len(g[k - 1]) + Len(ss[k])
  BY <1>4, <1>5, <1>6, <1>7, <1>14
<1>17. Len(g[k]) <= Len(FlattenSeq(ss))
  BY <1>6, <1>12, <1>15
<1>18. \A x \in 1 .. Len(ss[k]) : FlattenSeq(ss)[Len(g[k - 1]) + x] = ss[k][x]
  BY <1>4, <1>5, <1>13, <1>15
<1>. QED BY <1>16, <1>17, <1>18 DEF Placed

UpTo(i, E) == {j \in E : j <= i}

LEMMA RankNone ==
  ASSUME NEW E, E \subseteq Nat \ {0}
  PROVE  IsFiniteSet(UpTo(0, E)) /\ Rank(0, E) = 0
<1>1. UpTo(0, E) = {}
  <2>1. \A j \in E : j \in Nat /\ j # 0
    OBVIOUS
  <2>2. \A j \in E : ~(j <= 0)
    BY <2>1
  <2>. QED BY <2>2 DEF UpTo
<1>. QED BY <1>1, FS_EmptySet DEF Rank, UpTo

LEMMA RankNext ==
  ASSUME NEW E, E \subseteq Nat \ {0}, NEW i \in Nat, IsFiniteSet(UpTo(i, E))
  PROVE  /\ IsFiniteSet(UpTo(i + 1, E))
         /\ Rank(i + 1, E) = Rank(i, E) + (IF i + 1 \in E THEN 1 ELSE 0)
<1>. \A j \in E : j \in Nat
  OBVIOUS
<1>1. Rank(i, E) = Cardinality(UpTo(i, E)) /\ Rank(i + 1, E) = Cardinality(UpTo(i + 1, E))
  BY DEF Rank, UpTo
<1>2. Cardinality(UpTo(i, E)) \in Nat
  BY FS_CardinalityType
<1>3. CASE i + 1 \in E
  <2>1. UpTo(i + 1, E) = UpTo(i, E) \cup {i + 1} /\ i + 1 \notin UpTo(i, E)
    <3>1. \A j \in E : (j <= i + 1) <=> (j <= i \/ j = i + 1)
      OBVIOUS
    <3>2. ~(i + 1 <= i)
      OBVIOUS
    <3>. QED BY <1>3, <3>1, <3>2 DEF UpTo
  <2>2. IsFiniteSet(UpTo(i, E) \cup {i + 1})
        /\ Cardinality(UpTo(i, E) \cup {i + 1}) = Cardinality(UpTo(i, E)) + 1
    BY <2>1, FS_AddElement
  <2>. QED BY <1>1, <1>3, <2>1, <2>2
<1>4. CASE i + 1 \notin E
  <2>1. UpTo(i + 1, E) = UpTo(i, E)
    <3>1. \A j \in E : (j <= i + 1) <=> (j <= i)
      <4>1. \A j \in E : j # i + 1
        BY <1>4
      <4>. QED BY <4>1
    <3>. QED BY <3>1 DEF UpTo
  <2>. QED BY <1>1, <1>2, <1>4, <2>1
<1>. QED BY <1>3, <1>4

Takes(s, values, places) == \A k \in places : s[Rank(k, places)] = values[k]

LEMMA TakenFacts ==
  ASSUME NEW S, NEW values \in Seq(S), NEW places, places \subseteq 1 .. Len(values)
  PROVE  /\ Taken(values, places) \in Seq(S)
         /\ Len(Taken(values, places)) <= Len(values)
         /\ Takes(Taken(values, places), values, places)
<1>1. PICK n \in Nat : n = Len(values) /\ DOMAIN values = 1 .. n
  OBVIOUS
<1>2. PICK ss : ss = [k \in DOMAIN values |-> IF k \in places THEN <<values[k]>> ELSE <<>>]
  OBVIOUS
<1>3. /\ ss \in Seq(Seq(S)) /\ Len(ss) = n
      /\ \A k \in 1 .. n : ss[k] = IF k \in places THEN <<values[k]>> ELSE <<>>
  <2>1. \A k \in 1 .. n : (IF k \in places THEN <<values[k]>> ELSE <<>>) \in Seq(S)
    BY <1>1
  <2>. QED BY <1>1, <1>2, <2>1
<1>4. PICK g : IsFlat(g, ss, S)
  BY <1>3, FlatFacts
<1>5. Taken(values, places) = FlattenSeq(ss)
  BY <1>2 DEF Taken
<1>6. /\ \A i \in 0 .. n : g[i] \in Seq(S)
      /\ g[0] = <<>> /\ FlattenSeq(ss) = g[n]
  BY <1>3, <1>4 DEF IsFlat
<1>7. \A i \in 1 .. n : Len(g[i]) = Len(g[i - 1]) + (IF i \in places THEN 1 ELSE 0)
  <2>. SUFFICES ASSUME NEW i \in 1 .. n PROVE Len(g[i]) = Len(g[i - 1]) + (IF i \in places THEN 1 ELSE 0)
    OBVIOUS
  <2>1. Len(g[i]) = Len(g[i - 1]) + Len(ss[i]) /\ Len(g[i - 1]) \in Nat
    <3>1. i \in 1 .. Len(ss)
      BY <1>3
    <3>2. ss \in Seq(Seq(S))
      BY <1>3
    <3>3. Placed(g, ss, i)
      BY <1>4, <3>1, <3>2, FlatPlaces
    <3>. QED BY <3>3 DEF Placed
  <2>2. Len(ss[i]) = IF i \in places THEN 1 ELSE 0
    BY <1>3
  <2>. QED BY <2>1, <2>2
<1>. DEFINE T == {i \in 0 .. n : /\ IsFiniteSet(UpTo(i, places)) /\ Len(g[i]) = Rank(i, places)
                                 /\ Len(g[i]) <= i}
<1>8. places \subseteq Nat \ {0}
  OBVIOUS
<1>9. 0 \in T
  <2>1. Len(g[0]) = 0
    BY <1>6
  <2>2. IsFiniteSet(UpTo(0, places)) /\ Rank(0, places) = 0
    BY <1>8, RankNone
  <2>. QED BY <2>1, <2>2
<1>10. ASSUME NEW i \in T, i < n PROVE i + 1 \in T
  <2>1. i \in Nat /\ i + 1 \in 1 .. n /\ (i + 1) - 1 = i /\ i + 1 \in 0 .. n /\ i \in 0 .. n
    BY <1>10
  <2>2. IsFiniteSet(UpTo(i, places)) /\ Len(g[i]) = Rank(i, places) /\ Len(g[i]) <= i
    OBVIOUS
  <2>3. /\ IsFiniteSet(UpTo(i + 1, places))
        /\ Rank(i + 1, places) = Rank(i, places) + (IF i + 1 \in places THEN 1 ELSE 0)
    BY <1>8, <2>1, <2>2, RankNext
  <2>4. PICK b \in {0, 1} : b = IF i + 1 \in places THEN 1 ELSE 0
    OBVIOUS
  <2>5. Len(g[i + 1]) = Len(g[i]) + b
    BY <1>7, <2>1, <2>4
  <2>6. PICK l \in Nat : l = Len(g[i])
    BY <1>6, <2>1
  <2>7. Len(g[i + 1]) = Rank(i + 1, places) /\ Len(g[i + 1]) <= i + 1
    BY <2>1, <2>2, <2>3, <2>4, <2>5, <2>6
  <2>. QED BY <2>1, <2>3, <2>7
<1>11. \A i \in 0 .. n : i \in T
  <2>. HIDE DEF T
  <2>. QED BY <1>9, <1>10, BoundedInduction
<1>12. \A i \in 0 .. n : Len(g[i]) = Rank(i, places) /\ Len(g[i]) <= i
  BY <1>11
<1>. HIDE DEF T
<1>13. ASSUME NEW k \in places PROVE FlattenSeq(ss)[Rank(k, places)] = values[k]
  <2>1. k \in 1 .. n /\ k \in 0 .. n /\ k \in 1 .. Len(ss)
    BY <1>1, <1>3
  <2>2. ss[k] = <<values[k]>> /\ Len(ss[k]) = 1 /\ ss[k][1] = values[k]
    BY <1>3, <2>1
  <2>3. FlattenSeq(ss)[Len(g[k - 1]) + 1] = values[k]
    <3>1. \A x \in 1 .. Len(ss[k]) : FlattenSeq(ss)[Len(g[k - 1]) + x] = ss[k][x]
      <4>1. k \in 1 .. Len(ss)
        BY <1>3, <2>1
      <4>2. ss \in Seq(Seq(S))
        BY <1>3
      <4>3. Placed(g, ss, k)
        BY <1>4, <4>1, <4>2, FlatPlaces
      <4>. QED BY <4>3 DEF Placed
    <3>2. 1 \in 1 .. Len(ss[k])
      BY <2>2
    <3>. QED BY <2>2, <3>1, <3>2
  <2>4. Len(g[k]) = Len(g[k - 1]) + 1
    BY <1>7, <2>1
  <2>5. Len(g[k]) = Rank(k, places)
    BY <1>12, <2>1
  <2>. QED BY <2>3, <2>4, <2>5
<1>14. FlattenSeq(ss) \in Seq(S) /\ Len(FlattenSeq(ss)) <= n
  <2>1. n \in 0 .. n /\ FlattenSeq(ss) = g[n]
    BY <1>6
  <2>. QED BY <1>6, <1>12, <2>1
<1>15. Takes(FlattenSeq(ss), values, places)
  BY <1>13 DEF Takes
<1>. QED BY <1>1, <1>5, <1>14, <1>15

\* where the number after these pieces begins
StartOf(g, k) == 1 + Len(g[k - 1])

LEMMA NumbersReadBack ==
  ASSUME NEW values \in Seq(Nat), \A k \in 1 .. Len(values) : values[k] < Word
  PROVE  ReadNumbers(Len(values), Numbers(values)) = values
<1>1. PICK m \in Nat : m = Len(values) /\ DOMAIN values = 1 .. m
  OBVIOUS
<1>2. PICK ss : ss = [k \in DOMAIN values |-> write_u64(values[k])]
  OBVIOUS
<1>3. \A k \in 1 .. m : values[k] \in Nat /\ values[k] < Word
  BY <1>1
<1>4. ss \in Seq(Seq(Nat)) /\ Len(ss) = m /\ \A k \in 1 .. m : ss[k] = write_u64(values[k])
  <2>1. \A k \in 1 .. m : write_u64(values[k]) \in Seq(Nat)
    BY <1>3, WriteFacts
  <2>. QED BY <1>1, <1>2, <2>1
<1>5. PICK g : IsFlat(g, ss, Nat)
  BY <1>4, FlatFacts
<1>6. PICK bytes \in Seq(Nat) : bytes = Numbers(values) /\ bytes = FlattenSeq(ss)
  <2>1. FlattenSeq(ss) \in Seq(Nat)
    BY <1>4, FlatType
  <2>. QED BY <1>2, <2>1 DEF Numbers
<1>7. ASSUME NEW k \in 1 .. m
      PROVE  /\ StartOf(g, k) \in Nat
             /\ StartOf(g, k + 1) = StartOf(g, k) + 1 + FollowingBytes(bytes[StartOf(g, k)])
             /\ ReadU64(SubSeq(bytes, StartOf(g, k), Len(bytes))) = values[k]
  <2>1. k \in 1 .. Len(ss)
    BY <1>4
  <2>2. ss \in Seq(Seq(Nat))
    BY <1>4
  <2>3. Placed(g, ss, k)
    BY <1>5, <2>1, <2>2, FlatPlaces
  <2>4. PICK v \in Nat : v = values[k] /\ v < Word
    BY <1>3
  <2>5. PICK i : i = ExtraBytes(v)
    OBVIOUS
  <2>6. /\ i \in 0 .. ByteBits
        /\ ss[k] = write_u64(v)
        /\ Len(write_u64(v)) = 1 + i
        /\ write_u64(v)[1] = LeadingOnes(i) + Shifted(v, i)
        /\ \A x \in 1 .. i : write_u64(v)[x + 1] = Shifted(v, x - 1) % Byte
    BY <1>4, <2>4, <2>5, WriteFacts
  <2>7. i \in Nat
    BY <2>6, WidthFacts
  <2>8. PICK a \in Nat : a = Len(g[k - 1])
    BY <2>3 DEF Placed
  <2>9. /\ Len(g[k]) = a + 1 + i
        /\ Len(g[k]) <= Len(bytes)
        /\ \A x \in 1 .. 1 + i : bytes[a + x] = write_u64(v)[x]
    <3>1. /\ Len(g[k]) = a + Len(ss[k]) /\ Len(g[k]) <= Len(FlattenSeq(ss))
          /\ \A x \in 1 .. Len(ss[k]) : FlattenSeq(ss)[a + x] = ss[k][x]
      BY <2>3, <2>8 DEF Placed
    <3>2. Len(ss[k]) = 1 + i
      BY <2>6
    <3>3. a + (1 + i) = a + 1 + i
      BY <2>7
    <3>4. Len(g[k]) = a + 1 + i
      BY <3>1, <3>2, <3>3
    <3>5. Len(g[k]) <= Len(bytes)
      BY <1>6, <3>1
    <3>6. \A x \in 1 .. 1 + i : bytes[a + x] = write_u64(v)[x]
      BY <1>6, <2>6, <3>1, <3>2
    <3>. QED BY <3>4, <3>5, <3>6
  <2>10. PICK from : from = SubSeq(bytes, a + 1, Len(bytes))
    OBVIOUS
  <2>11. \A x \in 1 .. 1 + i : from[x] = bytes[a + x]
    BY <2>7, <2>9, <2>10
  <2>12. 1 \in 1 .. 1 + i /\ \A x \in 1 .. i : x + 1 \in 1 .. 1 + i
    BY <2>7
  <2>13. from[1] = LeadingOnes(i) + Shifted(v, i)
    BY <2>6, <2>9, <2>11, <2>12
  <2>14. \A x \in 1 .. i : from[x + 1] = Shifted(v, x - 1) % Byte
    BY <2>6, <2>9, <2>11, <2>12
  <2>15. FollowingBytes(from[1]) = i /\ ReadU64(from) = v
    BY <2>4, <2>5, <2>13, <2>14, NumberReadsBack
  <2>16. StartOf(g, k) = a + 1 /\ StartOf(g, k + 1) = a + 2 + i
    <3>1. (k + 1) - 1 = k
      OBVIOUS
    <3>2. StartOf(g, k) = 1 + a
      BY <2>8 DEF StartOf
    <3>3. StartOf(g, k + 1) = 1 + (a + 1 + i)
      BY <2>9, <3>1 DEF StartOf
    <3>4. 1 + a = a + 1 /\ 1 + (a + 1 + i) = a + 2 + i
      BY <2>7
    <3>. QED BY <3>2, <3>3, <3>4
  <2>17. bytes[StartOf(g, k)] = from[1]
    BY <2>11, <2>12, <2>16
  <2>18. FollowingBytes(bytes[StartOf(g, k)]) = i
    BY <2>15, <2>17
  <2>19. ReadU64(SubSeq(bytes, StartOf(g, k), Len(bytes))) = values[k]
    BY <2>4, <2>10, <2>15, <2>16
  <2>20. StartOf(g, k) \in Nat /\ StartOf(g, k + 1) = StartOf(g, k) + 1 + i
    BY <2>7, <2>16
  <2>. QED BY <2>18, <2>19, <2>20
<1>. DEFINE Row(f) == [k \in 1 .. m |-> IF k = 1 THEN 1
                                        ELSE f[k - 1] + 1 + FollowingBytes(bytes[f[k - 1]])]
            start == CHOOSE f : f = Row(f)
<1>8. m > 0 => StartOf(g, 1) = 1
  <2>1. g[0] = <<>> /\ 1 - 1 = 0 /\ Len(<<>>) = 0
    BY <1>5 DEF IsFlat
  <2>. QED BY <2>1 DEF StartOf
<1>9. \E f : f = Row(f)
  <2>1. PICK f : f = [k \in 1 .. m |-> StartOf(g, k)]
    OBVIOUS
  <2>2. ASSUME NEW k \in 1 .. m
        PROVE  f[k] = IF k = 1 THEN 1 ELSE f[k - 1] + 1 + FollowingBytes(bytes[f[k - 1]])
    <3>1. CASE k = 1
      BY <1>8, <2>1, <3>1
    <3>2. CASE k # 1
      <4>1. k - 1 \in 1 .. m /\ (k - 1) + 1 = k
        BY <3>2
      <4>2. StartOf(g, (k - 1) + 1) = StartOf(g, k - 1) + 1 + FollowingBytes(bytes[StartOf(g, k - 1)])
        BY <1>7, <4>1
      <4>3. StartOf(g, k) = StartOf(g, k - 1) + 1 + FollowingBytes(bytes[StartOf(g, k - 1)])
        BY <4>1, <4>2
      <4>4. f[k] = StartOf(g, k) /\ f[k - 1] = StartOf(g, k - 1)
        BY <2>1, <4>1
      <4>. QED BY <3>2, <4>3, <4>4
    <3>. QED BY <3>1, <3>2
  <2>3. f = Row(f)
    BY <2>1, <2>2
  <2>. QED BY <2>3
<1>10. start = Row(start)
  <2>. HIDE DEF Row
  <2>. QED BY <1>9
<1>. HIDE DEF start
<1>11. \A k \in 1 .. m : start[k] = IF k = 1 THEN 1
                          ELSE start[k - 1] + 1 + FollowingBytes(bytes[start[k - 1]])
  BY <1>10
<1>12. \A k \in 1 .. m : start[k] = StartOf(g, k)
  <2>. DEFINE T == {k \in 0 .. m : k > 0 => start[k] = StartOf(g, k)}
  <2>1. 0 \in T
    OBVIOUS
  <2>2. ASSUME NEW k \in T, k < m PROVE k + 1 \in T
    <3>1. k + 1 \in 1 .. m /\ (k + 1) - 1 = k /\ k + 1 \in 0 .. m
      BY <2>2
    <3>2. CASE k = 0
      <4>1. start[1] = 1
        BY <1>11, <3>1, <3>2
      <4>. QED BY <1>8, <3>1, <3>2, <4>1
    <3>3. CASE k # 0
      <4>1. k \in 1 .. m /\ start[k] = StartOf(g, k)
        BY <3>3
      <4>2. start[k + 1] = start[k] + 1 + FollowingBytes(bytes[start[k]])
        <5>1. start[k + 1] = start[(k + 1) - 1] + 1 + FollowingBytes(bytes[start[(k + 1) - 1]])
          BY <1>11, <3>1, <3>3
        <5>. QED BY <3>1, <5>1
      <4>3. start[k + 1] = StartOf(g, k + 1)
        BY <1>7, <4>1, <4>2
      <4>. QED BY <3>1, <4>3
    <3>. QED BY <3>2, <3>3
  <2>3. \A k \in 0 .. m : k \in T
    <3>. HIDE DEF T
    <3>. QED BY <2>1, <2>2, BoundedInduction
  <2>. QED BY <2>3
<1>13. ReadNumbers(m, bytes) = [k \in 1 .. m |-> ReadU64(SubSeq(bytes, start[k], Len(bytes)))]
  BY DEF ReadNumbers, start
<1>14. \A k \in 1 .. m : ReadU64(SubSeq(bytes, start[k], Len(bytes))) = values[k]
  BY <1>7, <1>12
<1>15. ReadNumbers(m, bytes) = [k \in 1 .. m |-> values[k]]
  BY <1>13, <1>14
<1>16. values = [k \in 1 .. m |-> values[k]]
  BY <1>1
<1>. QED BY <1>1, <1>6, <1>15, <1>16

-----------------------------------------------------------------------------
(* The header.                                                             *)

\* whatever entries it is given, if a word holds their sizes and their number
LEMMA HeaderReads ==
  ASSUME NEW A, NEW C, NEW fs \in Seq([name : A, size : Nat, ctime : C]),
         Len(fs) < Word, \A k \in 1 .. Len(fs) : fs[k].size < Word
  PROVE  read_header(write_raw_header(fs)) = fs
<1>1. PICK m \in Nat : m = Len(fs) /\ DOMAIN fs = 1 .. m
  OBVIOUS
<1>2. \A k \in 1 .. m : /\ fs[k] \in [name : A, size : Nat, ctime : C]
                        /\ fs[k].size \in Nat /\ fs[k].size < Word /\ fs[k].ctime \in C
  <2>1. PICK R : R = [name : A, size : Nat, ctime : C]
    OBVIOUS
  <2>2. fs \in Seq(R)
    BY <2>1
  <2>3. \A k \in 1 .. m : fs[k] \in R
    BY <1>1, <2>2
  <2>. QED BY <1>1, <2>1, <2>3
<1>. DEFINE S == {v \in Nat : v < Word}
            P == DOMAIN fs \ Empty(fs)
            D == Defined(fs)
            lengths == [k \in DOMAIN fs |-> fs[k].size]
            times   == [k \in DOMAIN fs |-> fs[k].ctime]
            sizes   == Taken(lengths, P)
            header  == write_raw_header(fs)
<1>3. lengths \in Seq(S) /\ Len(lengths) = m /\ \A k \in 1 .. m : lengths[k] = fs[k].size
  BY <1>1, <1>2
<1>4. times \in Seq(C) /\ Len(times) = m /\ \A k \in 1 .. m : times[k] = fs[k].ctime
  BY <1>1, <1>2
<1>5. P \subseteq 1 .. m /\ D \subseteq 1 .. m
  BY <1>1 DEF Defined
<1>6. /\ sizes \in Seq(S) /\ Len(sizes) <= m
      /\ \A k \in P : sizes[Rank(k, P)] = fs[k].size
  <2>. HIDE DEF S, P, lengths
  <2>1. P \subseteq 1 .. Len(lengths)
    BY <1>3, <1>5
  <2>2. lengths \in Seq(S)
    BY <1>3
  <2>3. sizes \in Seq(S)
    BY <2>1, <2>2, TakenFacts
  <2>4. Len(sizes) <= Len(lengths)
    BY <2>1, <2>2, TakenFacts
  <2>5. Takes(sizes, lengths, P)
    BY <2>1, <2>2, TakenFacts
  <2>. QED BY <1>3, <1>5, <2>3, <2>4, <2>5 DEF Takes
<1>7. \A k \in D : Taken(times, D)[Rank(k, D)] = fs[k].ctime
  <2>. HIDE DEF D, times
  <2>1. D \subseteq 1 .. Len(times)
    BY <1>4, <1>5
  <2>2. times \in Seq(C)
    BY <1>4
  <2>3. Takes(Taken(times, D), times, D)
    BY <2>1, <2>2, TakenFacts
  <2>. QED BY <1>4, <1>5, <2>3 DEF Takes
<1>. HIDE DEF sizes
<1>8. PICK l \in Nat : l = Len(sizes) /\ l < Word
  <2>1. Len(sizes) \in Nat /\ m < Word /\ Word \in Nat
    BY <1>1, <1>6, ByteFacts
  <2>. QED BY <1>6, <2>1
<1>9. ReadU64(write_u64(m)) = m /\ ReadU64(write_u64(l)) = l
  BY <1>1, <1>8, WordReadsBack
<1>10. ReadNumbers(l, Numbers(sizes)) = sizes
  <2>1. sizes \in Seq(Nat) /\ \A k \in 1 .. Len(sizes) : sizes[k] < Word
    BY <1>6
  <2>2. ReadNumbers(Len(sizes), Numbers(sizes)) = sizes
    BY <2>1, NumbersReadBack
  <2>. QED BY <1>8, <2>2
<1>11. /\ header.count = write_u64(m)
       /\ header.pack = [count |-> write_u64(l), sizes |-> Numbers(sizes)]
       /\ header.empty_stream = bitset_bytes(m, Empty(fs))
       /\ header.names = [k \in DOMAIN fs |-> fs[k].name]
       /\ header.ctime.all_defined <=> D = DOMAIN fs
       /\ header.ctime.bits = bitset_bytes(m, D)
       /\ header.ctime.values = Taken(times, D)
  BY <1>1, <1>8 DEF write_raw_header, write_pack_info, write_optional_u64_prop, sizes
<1>. HIDE DEF header
<1>12. ReadU64(header.count) = m /\ ReadNumbers(ReadU64(header.pack.count), header.pack.sizes) = sizes
  BY <1>9, <1>10, <1>11
<1>13. {k \in 1 .. m : ~HasBit(header.empty_stream, k)} = P
  <2>1. \A k \in 1 .. m : HasBit(bitset_bytes(m, Empty(fs)), k) <=> k \in Empty(fs)
    BY SetReadsBack
  <2>. QED BY <1>1, <1>11, <2>1
<1>14. {k \in 1 .. m : header.ctime.all_defined \/ HasBit(header.ctime.bits, k)} = D
  <2>1. \A k \in 1 .. m : HasBit(bitset_bytes(m, D), k) <=> k \in D
    BY SetReadsBack
  <2>2. \A k \in 1 .. m : (header.ctime.all_defined \/ HasBit(header.ctime.bits, k)) <=> k \in D
    BY <1>1, <1>11, <2>1
  <2>. QED BY <1>5, <2>2
<1>15. read_header(header) =
         [k \in 1 .. m |->
            [name  |-> header.names[k],
             size  |-> IF k \in P THEN sizes[Rank(k, P)] ELSE 0,
             ctime |-> IF k \in D THEN header.ctime.values[Rank(k, D)] ELSE NoTime]]
  <2>. HIDE DEF P, D
  <2>. QED BY <1>12, <1>13, <1>14, Zenon DEF read_header
<1>16. \A k \in 1 .. m : /\ header.names[k] = fs[k].name
                         /\ (IF k \in P THEN sizes[Rank(k, P)] ELSE 0) = fs[k].size
                         /\ (IF k \in D THEN header.ctime.values[Rank(k, D)] ELSE NoTime) = fs[k].ctime
  <2>. SUFFICES ASSUME NEW k \in 1 .. m
                PROVE  /\ header.names[k] = fs[k].name
                       /\ (IF k \in P THEN sizes[Rank(k, P)] ELSE 0) = fs[k].size
                       /\ (IF k \in D THEN header.ctime.values[Rank(k, D)] ELSE NoTime) = fs[k].ctime
    OBVIOUS
  <2>1. header.names[k] = fs[k].name
    BY <1>1, <1>11
  <2>2. k \notin P => fs[k].size = 0
    BY <1>1 DEF Empty
  <2>3. k \notin D => fs[k].ctime = NoTime
    BY <1>1 DEF Defined
  <2>. HIDE DEF P, D
  <2>4. k \in P => sizes[Rank(k, P)] = fs[k].size
    BY <1>6
  <2>5. k \in D => header.ctime.values[Rank(k, D)] = fs[k].ctime
    BY <1>7, <1>11
  <2>. QED BY <2>1, <2>2, <2>3, <2>4, <2>5
<1>17. \A k \in 1 .. m : fs[k] = [name |-> fs[k].name, size |-> fs[k].size, ctime |-> fs[k].ctime]
  BY <1>2
<1>18. read_header(header) =
         [k \in 1 .. m |-> [name |-> fs[k].name, size |-> fs[k].size, ctime |-> fs[k].ctime]]
  <2>. HIDE DEF P, D
  <2>. QED BY <1>15, <1>16
<1>19. read_header(header) = [k \in 1 .. m |-> fs[k]]
  BY <1>17, <1>18
<1>20. fs = [k \in 1 .. m |-> fs[k]]
  BY <1>1
<1>. QED BY <1>19, <1>20 DEF header

\* a word holds the size of every header entry, and there is one for each member
EntriesOK == Len(files) <= count /\ \A n \in 1 .. Len(files) : files[n].size < Word

LEMMA InitEntries == Init => EntriesOK
BY DEF Init, EntriesOK

LEMMA NextEntries == TypeOK /\ EntriesOK /\ [Next]_vars => EntriesOK'
<1>. SUFFICES ASSUME TypeOK, EntriesOK, [Next]_vars PROVE EntriesOK'
  OBVIOUS
<1>. DEFINE R == [name : Names, size : Nat, ctime : Times]
<1>1. files \in Seq(R) /\ count \in Nat
  BY DEF TypeOK, Names, Times
<1>2. ASSUME files' = files, count' \in {count, count + 1} PROVE EntriesOK'
  <2>1. Len(files) \in Nat
    BY <1>1
  <2>2. Len(files) <= count'
    BY <1>1, <1>2, <2>1 DEF EntriesOK
  <2>. QED BY <1>2, <2>2 DEF EntriesOK
<1>3. ASSUME NEW p \in Producers, EndStream(p) PROVE EntriesOK'
  <2>1. CASE format # "sevenz"
    BY <1>2, <1>3, <2>1 DEF EndStream
  <2>2. CASE format = "sevenz"
    <3>1. PICK e : e = HeaderFile(p)
      OBVIOUS
    <3>2. HeaderFile(p) \in [name : Names, size : Nat, ctime : Times]
      BY Contents DEF HeaderFile, TypeOK, Names, Times
    <3>3. e \in R /\ e.size < Word
      <4>1. HeaderFile(p).size = Size[p]
        BY <1>3 DEF EndStream, HeaderFile
      <4>2. Size[p] < Word
        BY WordAssumption
      <4>. QED BY <3>1, <3>2, <4>1, <4>2
    <3>4. files' = Append(files, e) /\ count' = count + 1
      BY <1>3, <2>2, <3>1 DEF EndStream
    <3>. HIDE DEF R
    <3>5. PICK l \in Nat : l = Len(files)
      BY <1>1
    <3>6. /\ Len(Append(files, e)) = l + 1 /\ Append(files, e)[l + 1] = e
          /\ \A n \in 1 .. l : Append(files, e)[n] = files[n]
      BY <1>1, <3>3, <3>5
    <3>7. \A n \in 1 .. l : files[n].size < Word
      BY <3>5 DEF EntriesOK
    <3>8. \A n \in 1 .. l + 1 : Append(files, e)[n].size < Word
      <4>1. \A n \in 1 .. l + 1 : n \in 1 .. l \/ n = l + 1
        BY <3>5
      <4>. QED BY <3>3, <3>6, <3>7, <4>1
    <3>9. l + 1 <= count + 1
      BY <1>1, <3>5 DEF EntriesOK
    <3>. QED BY <3>4, <3>6, <3>8, <3>9 DEF EntriesOK
  <2>. QED BY <2>1, <2>2
<1>4. ASSUME NEW p \in Producers, Push(p) PROVE EntriesOK'
  <2>1. ~EndStream(p) => files' = files /\ count' \in {count, count + 1}
    BY <1>4 DEF Push, Lock, LockPoisoned, PushRefused, PushPanic, StartStream,
         CopyBlock, CopyFails, DirPlace, DirPlaceFails
  <2>. QED BY <1>2, <1>3, <2>1
<1>5. CASE Finish
  BY <1>2, <1>5 DEF Finish
<1>6. CASE UNCHANGED vars
  BY <1>2, <1>6 DEF vars
<1>. QED BY <1>4, <1>5, <1>6 DEF Next, Terminated

(***************************************************************************)
(* At every moment, the end header of write_raw_header gives a reader back *)
(* every entry recorded so far, with its own name, size and time: for any  *)
(* width of a byte, any members a word can count and measure, with and     *)
(* without content and times, in whatever order they were pushed.          *)
(***************************************************************************)
THEOREM HeadersReadBack == Spec => []HeaderReadsBack
<1>. DEFINE J == TypeOK /\ MutexOK /\ CountOK /\ EntriesOK
<1>1. Init => J
  BY InitTypes, InitMutex, InitEntries
<1>2. J /\ [Next]_vars => J'
  BY NextParts, NextEntries
<1>3. J => HeaderReadsBack
  <2>. SUFFICES ASSUME J PROVE read_header(write_raw_header(files)) = files
    BY DEF HeaderReadsBack
  <2>1. files \in Seq([name : Names, size : Nat, ctime : Times])
    BY DEF TypeOK, Names, Times
  <2>2. \A n \in 1 .. Len(files) : files[n].size < Word
    BY DEF EntriesOK
  <2>3. Len(files) < Word
    <3>1. IsFiniteSet(Producers) /\ Cardinality(Producers) < Word /\ Written \subseteq Producers
      BY WordAssumption DEF Written
    <3>2. PICK c \in Nat : c = Cardinality(Producers)
      BY <3>1, FS_CardinalityType
    <3>3. Cardinality(Written) <= c
      BY <3>1, <3>2, FS_Subset
    <3>4. Len(files) <= count /\ count <= c /\ c < Word
      BY <3>1, <3>2, <3>3 DEF CountOK, EntriesOK
    <3>5. Len(files) \in Nat /\ count \in Nat /\ Word \in Nat
      BY <2>1, ByteFacts DEF TypeOK
    <3>. QED BY <3>4, <3>5
  <2>. QED BY <2>1, <2>2, <2>3, HeaderReads
<1>. HIDE DEF J
<1>. QED BY <1>1, <1>2, <1>3, PTL DEF Spec

=============================================================================
