----------------------- MODULE ConvertPipelineProofs -----------------------
(***************************************************************************)
(* Proofs about ConvertPipeline, for any number of members, any choice of  *)
(* nested ones, any names, faults and number of kills: IInv is inductive,  *)
(* and with it the statistics are true, every entry has the bytes of its   *)
(* own member, a job whose members fail is not given up before the last,   *)
(* and the output is touched only when the new archive is complete and as  *)
(* far as --verify looks at it can be read.                                *)
(***************************************************************************)
EXTENDS ConvertPipeline, FiniteSetTheorems, TLAPS

-----------------------------------------------------------------------------
(***************************************************************************)
(* The inductive invariant of the proofs.  A killed job keeps its files    *)
(* but is run again from an empty directory, so that only the types and    *)
(* what it appended say anything about it.                                 *)
(***************************************************************************)

\* the passthrough members the first loop has been over
Tried ==
  {m \in Members \ Nested : pc # "extracting" /\ (pc = "passthrough" => m < cursor)}

Settled(n) == nest[n] = "counted"
Converted  == {n \in Nested : Settled(n) /\ n \in Appended}
Skipped    == {n \in Nested : Settled(n) /\ n \notin Appended}

CountsOK ==
  /\ Appended \ Nested \subseteq Tried
  /\ passthrough_written = Cardinality(Appended \ Nested)
  /\ passthrough_written + passthrough_skipped = Cardinality(Tried)
  /\ nested_converted = Cardinality(Converted)
  /\ nested_skipped = Cardinality(Skipped)

\* how far the job of a nested member can be, and whether it is in the archive
NestOK(n) ==
  /\ nest[n] = "converted" => n \in Appended
  /\ nest[n] \in {"none", "staged", "failed"} => n \notin Appended
  /\ pc \in {"extracting", "passthrough"} => nest[n] = "none"
  /\ pc = "staging" => IF n < cursor THEN nest[n] \in {"staged", "counted"} ELSE nest[n] = "none"
  /\ pc = "converting" => nest[n] # "none"
  /\ pc \notin {"extracting", "passthrough", "staging", "converting"} => Settled(n)

\* only a push that failed, or a collision in a directory, costs an entry its bytes
SoundOK ==
  /\ ~MayNotPush => ~remains /\ ~damaged
  /\ damaged => format = "dir" \/ remains

\* what each step at the end of the job has made sure of
ArchiveOK ==
  /\ \A entry, other \in archive : entry[1] = other[1] => entry = other
  /\ pc = "extracting" => archive = {} /\ cursor = 1
  /\ SoundOK
  /\ pc \in {"verifying", "persisting", "moving", "copying", "done"} => archive # {}
  /\ pc \in {"persisting", "moving", "copying"}
       => (verify /\ damaged => format # "sevenz" /\ remains)
  /\ pc = "failed" /\ faults \subseteq {"bulk", "omit", "extract", "convert"} => archive = {}

\* no file is taken from the shared directory before its member's turn has come
BytesOK ==
  "omit" \notin faults =>
    /\ \A entry \in archive : entry[1] = entry[2]
    /\ \A n \in Nested : nest[n] = "staged" => job[n] = n
    /\ bulk /\ pc = "passthrough" => {m \in Members : m >= cursor} \cup Nested \subseteq extracted
    /\ bulk /\ pc = "staging" => Nested \subseteq extracted

IInv ==
  /\ TypeOK
  /\ pc # "killed" => CountsOK /\ \A n \in Nested : NestOK(n)
  /\ ArchiveOK
  /\ BytesOK

-----------------------------------------------------------------------------
(* Members, and how many there are.                                        *)

LEMMA MemberRange ==
  /\ MemberCount \in Nat
  /\ Nested \subseteq Members
  /\ \A m \in Members : m \in Int /\ m >= 1 /\ m <= MemberCount
  /\ \A m \in Int : m >= 1 /\ m <= MemberCount => m \in Members
BY PipelineAssumption DEF Members

LEMMA MembersFinite == IsFiniteSet(Members) /\ Cardinality(Members) = MemberCount
<1>1. 0 \in Int /\ 1 \in Int /\ MemberCount \in Int
  BY MemberRange
<1>2. /\ IsFiniteSet(1 .. MemberCount)
      /\ Cardinality(1 .. MemberCount) = IF 1 > MemberCount THEN 0 ELSE MemberCount - 1 + 1
  BY <1>1, FS_Interval
<1>3. (IF 1 > MemberCount THEN 0 ELSE MemberCount - 1 + 1) = MemberCount
  BY MemberRange
<1>. QED BY <1>2, <1>3 DEF Members

LEMMA SomeMembers ==
  ASSUME NEW S, S \subseteq Members
  PROVE  IsFiniteSet(S) /\ Cardinality(S) \in Nat /\ Cardinality(S) <= MemberCount
BY MembersFinite, FS_Subset, FS_CardinalityType

LEMMA DisjointUnion ==
  ASSUME NEW S, NEW T, IsFiniteSet(S), IsFiniteSet(T), S \cap T = {}
  PROVE  Cardinality(S \cup T) = Cardinality(S) + Cardinality(T)
<1>1. Cardinality(S \cup T) = Cardinality(S) + Cardinality(T) - Cardinality(S \cap T)
  BY FS_Union
<1>2. Cardinality(S) \in Nat /\ Cardinality(T) \in Nat /\ Cardinality(S \cap T) = 0
  BY FS_CardinalityType, FS_EmptySet
<1>. QED BY <1>1, <1>2

\* members are passthrough or nested
LEMMA TwoKinds ==
  /\ IsFiniteSet(Nested) /\ Cardinality(Nested) \in Nat
  /\ IsFiniteSet(Members \ Nested) /\ Cardinality(Members \ Nested) \in Nat
  /\ Cardinality(Members \ Nested) + Cardinality(Nested) = MemberCount
<1>1. Nested \cup (Members \ Nested) = Members /\ Nested \cap (Members \ Nested) = {}
  BY MemberRange
<1>2. IsFiniteSet(Nested) /\ IsFiniteSet(Members \ Nested)
  BY MemberRange, SomeMembers
<1>3. Cardinality(Nested \cup (Members \ Nested))
        = Cardinality(Nested) + Cardinality(Members \ Nested)
  BY <1>1, <1>2, DisjointUnion
<1>. QED BY <1>1, <1>2, <1>3, MembersFinite, FS_CardinalityType, SomeMembers, SMTT(30)

-----------------------------------------------------------------------------
(* The counts and the archive.                                             *)

LEMMA AppendedAreMembers ==
  ASSUME TypeOK
  PROVE  /\ Appended \subseteq Members
         /\ IsFiniteSet(Appended)
BY SomeMembers DEF TypeOK, Appended

\* no member is appended twice, so that the entries are as many as the members
LEMMA EntriesAreAppended ==
  ASSUME TypeOK, \A entry, other \in archive : entry[1] = other[1] => entry = other
  PROVE  Cardinality(archive) = Cardinality(Appended)
<1>. DEFINE f == [entry \in archive |-> entry[1]]
<1>1. f \in Surjection(archive, Appended)
  BY DEF Surjection, Appended
<1>2. f \in Injection(archive, Appended)
  BY <1>1 DEF Injection, Surjection, IsInjective
<1>3. IsFiniteSet(archive)
  BY <1>2, AppendedAreMembers, FS_Injection
<1>. QED BY <1>1, <1>2, <1>3, FS_Surjection

LEMMA TriedRange ==
  /\ Tried \subseteq Members \ Nested
  /\ IsFiniteSet(Tried) /\ Cardinality(Tried) \in Nat /\ Cardinality(Tried) <= MemberCount
<1>1. Tried \subseteq Members \ Nested /\ Tried \subseteq Members
  BY DEF Tried
<1>. QED BY <1>1, SomeMembers

\* behind the last job the number of entries is the one that is verified
LEMMA EntryCount ==
  ASSUME IInv, pc # "killed", \A n \in Nested : Settled(n)
  PROVE  Cardinality(archive) = Expected
<1>. DEFINE P == Appended \ Nested
            Q == Converted
<1>1. Cardinality(archive) = Cardinality(Appended)
  BY EntriesAreAppended DEF IInv, ArchiveOK
<1>2. P \cup Q = Appended /\ P \cap Q = {} /\ P \subseteq Members /\ Q \subseteq Members
  BY AppendedAreMembers, MemberRange DEF IInv, Converted
<1>3. IsFiniteSet(P) /\ IsFiniteSet(Q) /\ Cardinality(P) \in Nat /\ Cardinality(Q) \in Nat
  BY <1>2, SomeMembers
<1>4. Cardinality(P \cup Q) = Cardinality(P) + Cardinality(Q)
  BY <1>2, <1>3, DisjointUnion
<1>5. passthrough_written = Cardinality(P) /\ nested_converted = Cardinality(Q)
  BY DEF IInv, CountsOK
<1>. HIDE DEF P, Q
<1>. QED BY <1>1, <1>2, <1>4, <1>5 DEF Expected

-----------------------------------------------------------------------------
(* What the steps leave alone.                                             *)

\* a step that appends and counts nothing keeps the counts
LEMMA CountsKept ==
  ASSUME CountsOK, UNCHANGED <<archive, nest, counts>>, Tried' = Tried
  PROVE  CountsOK'
BY DEF CountsOK, counts, Appended, Settled, Converted, Skipped

\* the passthrough loop goes one entry further
LEMMA TriedGrows ==
  ASSUME TypeOK, AtPassthrough, pc' = pc, cursor' = cursor + 1
  PROVE  /\ Tried' = Tried \cup {cursor}
         /\ cursor \in Members \ Nested /\ cursor \notin Tried
         /\ Cardinality(Tried') = Cardinality(Tried) + 1
         /\ Cardinality(Tried') \in Nat /\ Cardinality(Tried') <= MemberCount
         /\ cursor' \in 1 .. MemberCount + 1
<1>1. cursor \in Members \ Nested /\ cursor' \in 1 .. MemberCount + 1 /\ cursor \in Int
  BY MemberRange DEF TypeOK, AtPassthrough
<1>2. \A m \in Members \ Nested : m < cursor' <=> m < cursor \/ m = cursor
  BY <1>1, MemberRange
<1>3. Tried' = Tried \cup {cursor} /\ cursor \notin Tried
  <2>1. Tried = {m \in Members \ Nested : m < cursor}
    BY DEF Tried, AtPassthrough
  <2>2. Tried' = {m \in Members \ Nested : m < cursor'}
    BY DEF Tried, AtPassthrough
  <2>. QED BY <1>1, <1>2, <2>1, <2>2, ~ (cursor < cursor)
<1>4. Tried' \subseteq Members
  BY <1>1, <1>3, TriedRange
<1>5. Cardinality(Tried') = Cardinality(Tried) + 1
  BY <1>3, TriedRange, FS_AddElement
<1>. QED BY <1>1, <1>3, <1>4, <1>5, SomeMembers

\* what has been tried does not change with a nested entry
LEMMA TriedOverNested ==
  ASSUME TypeOK, pc = "passthrough", pc' = pc, cursor \in Nested, cursor' = cursor + 1
  PROVE  Tried' = Tried /\ cursor' \in 1 .. MemberCount + 1
<1>1. cursor \in Members /\ cursor \in Int /\ cursor' \in 1 .. MemberCount + 1
  BY MemberRange DEF TypeOK
<1>2. \A m \in Members \ Nested : m < cursor' <=> m < cursor
  BY <1>1, MemberRange
<1>. QED BY <1>1, <1>2 DEF Tried

LEMMA OutcomesAreMembers ==
  /\ IsFiniteSet(Converted) /\ Cardinality(Converted) \in 0 .. MemberCount
  /\ IsFiniteSet(Skipped) /\ Cardinality(Skipped) \in 0 .. MemberCount
<1>1. Converted \subseteq Members /\ Skipped \subseteq Members
  BY MemberRange DEF Converted, Skipped
<1>. QED BY <1>1, SomeMembers, MemberRange

\* one more nested member is settled, and is in the tally of its outcome
LEMMA NestedCounted ==
  ASSUME TypeOK, NEW n \in Nested, ~ Settled(n),
         nest' = [nest EXCEPT ![n] = "counted"], UNCHANGED archive
  PROVE  /\ n \in Appended => /\ Cardinality(Converted') = Cardinality(Converted) + 1
                              /\ Cardinality(Skipped') = Cardinality(Skipped)
         /\ n \notin Appended => /\ Cardinality(Converted') = Cardinality(Converted)
                                 /\ Cardinality(Skipped') = Cardinality(Skipped) + 1
         /\ Cardinality(Converted') \in 0 .. MemberCount
         /\ Cardinality(Skipped') \in 0 .. MemberCount
<1>1. Appended' = Appended
  BY DEF Appended
<1>2. \A k \in Nested : Settled(k)' <=> Settled(k) \/ k = n
  BY DEF Settled, TypeOK
<1>3. n \in Appended => Converted' = Converted \cup {n} /\ Skipped' = Skipped
  BY <1>1, <1>2 DEF Converted, Skipped
<1>4. n \notin Appended => Converted' = Converted /\ Skipped' = Skipped \cup {n}
  BY <1>1, <1>2 DEF Converted, Skipped
<1>5. n \notin Converted /\ n \notin Skipped
  BY DEF Converted, Skipped
<1>6. Converted' \subseteq Members /\ Skipped' \subseteq Members
  BY MemberRange DEF Converted, Skipped
<1>7. Cardinality(Converted') \in 0 .. MemberCount /\ Cardinality(Skipped') \in 0 .. MemberCount
  BY <1>6, SomeMembers, MemberRange
<1>8. /\ Cardinality(Converted \cup {n}) = Cardinality(Converted) + 1
      /\ Cardinality(Skipped \cup {n}) = Cardinality(Skipped) + 1
  BY <1>5, OutcomesAreMembers, FS_AddElement
<1>. QED BY <1>3, <1>4, <1>7, <1>8

-----------------------------------------------------------------------------
(* Pushes to the outer archive.                                            *)

LEMMA ReplaceFacts ==
  ASSUME TypeOK, Replaces, Replace, UNCHANGED <<format, faults>>
  PROVE  remains' \in BOOLEAN /\ damaged' \in BOOLEAN /\ SoundOK'
<1>1. remains \in BOOLEAN /\ damaged \in BOOLEAN
  BY DEF TypeOK
<1>2. remains' \in BOOLEAN
  BY <1>1 DEF Replace
<1>3. damaged' \in BOOLEAN
  BY <1>1, Zenon DEF Replace
<1>4. SoundOK'
  BY DEF Replaces, MayNotPush, SoundOK
<1>. QED BY <1>2, <1>3, <1>4

LEMMA PushedFacts ==
  ASSUME TypeOK, SoundOK, NEW dest, NEW from, Pushed(dest, from),
         UNCHANGED <<format, faults>>
  PROVE  /\ archive' = archive \cup {<<dest, from>>}
         /\ remains' \in BOOLEAN /\ damaged' \in BOOLEAN
         /\ SoundOK'
<1>1. remains \in BOOLEAN /\ damaged \in BOOLEAN /\ archive' = archive \cup {<<dest, from>>}
  BY DEF Pushed, TypeOK
<1>2. CASE UNCHANGED <<remains, damaged>>
  <2>1. SoundOK'
    BY <1>2 DEF Replaces, MayNotPush, SoundOK
  <2>. QED BY <1>1, <1>2, <2>1
<1>3. CASE Replaces /\ Replace
  BY <1>1, <1>3, ReplaceFacts
<1>4. CASE format # "dir" /\ remains /\ damaged' = TRUE /\ UNCHANGED remains
  <2>1. SoundOK'
    BY <1>4 DEF Replaces, MayNotPush, SoundOK
  <2>. QED BY <1>1, <1>4, <2>1
<1>. QED BY <1>2, <1>3, <1>4 DEF Pushed

LEMMA NotPushedFacts ==
  ASSUME TypeOK, SoundOK, NotPushed, UNCHANGED <<format, faults>>
  PROVE  /\ archive' = archive
         /\ remains' \in BOOLEAN /\ damaged' \in BOOLEAN
         /\ SoundOK'
<1>1. archive' = archive /\ MayNotPush
  BY DEF NotPushed
<1>2. remains \in BOOLEAN /\ damaged \in BOOLEAN
  BY DEF TypeOK
<1>3. CASE remains' \in {remains, TRUE} /\ damaged' = damaged
  <2>1. MayNotPush' /\ remains' \in BOOLEAN
    BY <1>1, <1>2, <1>3 DEF MayNotPush, Replaces
  <2>2. SoundOK'
    BY <1>2, <1>3, <2>1 DEF SoundOK
  <2>. QED BY <1>1, <1>2, <1>3, <2>1, <2>2
<1>4. CASE Replaces /\ Replace
  BY <1>1, <1>4, ReplaceFacts
<1>. QED BY <1>3, <1>4 DEF NotPushed

-----------------------------------------------------------------------------
(* Each step preserves the invariant.                                      *)

LEMMA InitIInv == Init => IInv
<1>. SUFFICES ASSUME Init PROVE IInv
  OBVIOUS
<1>1. TypeOK
  <2>1. 1 \in 1 .. MemberCount + 1 /\ 0 \in 0 .. MemberCount /\ 0 \in 0 .. MaxKills
    BY PipelineAssumption
  <2>2. job \in [Nested -> Members \cup {None}]
    BY DEF Init
  <2>. QED BY <2>1, <2>2 DEF Init, TypeOK
<1>2. Appended = {} /\ Tried = {} /\ Converted = {} /\ Skipped = {}
  BY DEF Init, Appended, Tried, Converted, Skipped, Settled
<1>3. CountsOK
  BY <1>2, FS_EmptySet DEF Init, CountsOK
<1>4. \A n \in Nested : NestOK(n)
  BY <1>2 DEF Init, NestOK
<1>5. ArchiveOK /\ BytesOK
  BY DEF Init, ArchiveOK, SoundOK, BytesOK
<1>. QED BY <1>1, <1>3, <1>4, <1>5 DEF IInv

LEMMA StepExtract ==
  ASSUME IInv, Extract
  PROVE  IInv'
<1>. USE DEF options, files, outer, counts
<1>0. pc = "extracting" /\ pc' = "passthrough" /\ cursor = 1
  BY DEF Extract, BulkExtract, BulkExtractFails, NoBulkExtract, IInv, ArchiveOK
<1>1. TypeOK'
  BY DEF IInv, TypeOK, Extract, BulkExtract, BulkExtractFails, NoBulkExtract
<1>. UNCHANGED <<options, job, cursor, nest, outer, counts, output>>
  BY DEF Extract, BulkExtract, BulkExtractFails, NoBulkExtract
<1>2. Tried = {} /\ Tried' = {}
  BY <1>0, MemberRange DEF Tried
<1>3. CountsOK'
  BY <1>0, <1>2, CountsKept DEF IInv
<1>4. \A n \in Nested : NestOK(n)'
  BY <1>0 DEF IInv, NestOK, Appended
<1>5. ArchiveOK'
  BY <1>0 DEF IInv, ArchiveOK, SoundOK, MayNotPush, Replaces
<1>6. BytesOK'
  BY <1>0, MemberRange DEF IInv, BytesOK, ArchiveOK, Extract, BulkExtract, BulkExtractFails, NoBulkExtract
<1>. QED BY <1>1, <1>3, <1>4, <1>5, <1>6 DEF IInv

LEMMA StepPassthroughWritten ==
  ASSUME IInv, PassthroughWritten
  PROVE  IInv'
<1>. USE DEF options, files, outer, counts
<1>0. /\ pc = "passthrough" /\ pc' = pc /\ AtPassthrough /\ TypeOK /\ CountsOK
      /\ cursor' = cursor + 1 /\ UNCHANGED <<nest, job, bulk>>
  BY DEF PassthroughWritten, AtPassthrough, IInv
<1>a. PICK from \in Sources(cursor) : Pushed(cursor, from) /\ extracted' = extracted \ {from}
  BY DEF PassthroughWritten
<1>b. SoundOK /\ UNCHANGED <<format, faults>>
  BY DEF PassthroughWritten, IInv, ArchiveOK
<1>1. /\ archive' = archive \cup {<<cursor, from>>} /\ extracted' = extracted \ {from}
      /\ remains' \in BOOLEAN /\ damaged' \in BOOLEAN /\ SoundOK'
  BY <1>0, <1>a, <1>b, PushedFacts
<1>2. from \in Members
  BY <1>0, TriedGrows DEF Sources, FindExtracted, SameName, TypeOK
<1>3. Appended' = Appended \cup {cursor} /\ cursor \notin Appended
  <2>1. Appended' = {entry[1] : entry \in archive \cup {<<cursor, from>>}}
    BY <1>1 DEF Appended
  <2>2. Appended' = Appended \cup {<<cursor, from>>[1]}
    BY ONLY <2>1 DEF Appended
  <2>3. cursor \notin Appended
    BY <1>0, TriedGrows DEF CountsOK
  <2>. QED BY <2>2, <2>3
<1>4. Converted' = Converted /\ Skipped' = Skipped
  BY <1>0, <1>3, TriedGrows DEF Converted, Skipped, Settled
<1>5. CountsOK'
  <2>1. Cardinality(Appended' \ Nested) = Cardinality(Appended \ Nested) + 1
    <3>1. Appended' \ Nested = (Appended \ Nested) \cup {cursor} /\ cursor \notin Appended \ Nested
      BY <1>0, <1>3, TriedGrows
    <3>2. IsFiniteSet(Appended \ Nested)
      BY <1>0, TriedRange, FS_Subset DEF CountsOK
    <3>. QED BY <3>1, <3>2, FS_AddElement
  <2>2. Appended' \ Nested \subseteq Tried'
    BY <1>0, <1>3, TriedGrows DEF CountsOK
  <2>3. Cardinality(Tried') = Cardinality(Tried) + 1
    BY <1>0, TriedGrows
  <2>. QED BY <1>0, <1>4, <2>1, <2>2, <2>3 DEF PassthroughWritten, CountsOK, TypeOK
<1>6. TypeOK'
  <2>1. passthrough_written' \in 0 .. MemberCount
    BY <1>0, <1>5, TriedGrows, MemberRange DEF CountsOK, TypeOK, PassthroughWritten
  <2>2. archive' \subseteq Members \X Members
    BY <1>0, <1>1, <1>2, TriedGrows DEF TypeOK
  <2>3. cursor' \in 1 .. MemberCount + 1
    BY <1>0, TriedGrows
  <2>. QED BY <1>0, <1>1, <2>1, <2>2, <2>3 DEF PassthroughWritten, TypeOK
<1>7. \A n \in Nested : NestOK(n)'
  BY <1>0, <1>3, TriedGrows DEF IInv, NestOK
<1>8. ArchiveOK'
  BY <1>0, <1>1, <1>3 DEF IInv, ArchiveOK, SoundOK, MayNotPush, Replaces, PassthroughWritten, Appended
<1>9. BytesOK'
  <2>. SUFFICES ASSUME "omit" \notin faults PROVE BytesOK'
    BY DEF BytesOK, PassthroughWritten
  <2>1. from = cursor
    BY <1>0, TriedGrows, MemberRange DEF IInv, BytesOK, Sources, FindExtracted
  <2>2. \A m \in Members : m >= cursor' => m >= cursor /\ m # cursor
    BY <1>0, TriedGrows, MemberRange
  <2>. QED BY <1>0, <1>1, <2>1, <2>2, TriedGrows DEF IInv, BytesOK
<1>. QED BY <1>5, <1>6, <1>7, <1>8, <1>9 DEF IInv

LEMMA StepPassthroughSkipped ==
  ASSUME IInv, PassthroughNotStaged \/ PassthroughNotPushed
  PROVE  IInv'
<1>. USE DEF options, files, outer, counts
<1>0. /\ pc = "passthrough" /\ pc' = pc /\ AtPassthrough /\ TypeOK /\ CountsOK
      /\ cursor' = cursor + 1 /\ passthrough_skipped' = passthrough_skipped + 1
      /\ UNCHANGED <<verify, format, faults, kills, bulk, nest, job, archive, output,
                     passthrough_written, nested_converted, nested_skipped>>
  BY DEF PassthroughNotStaged, PassthroughNotPushed, NotPushed, AtPassthrough, IInv
<1>1. /\ extracted' \subseteq extracted
      /\ \A m \in extracted : m \in extracted' \/ m \in Sources(cursor)
      /\ remains' \in BOOLEAN /\ damaged' \in BOOLEAN /\ SoundOK'
  <2>1. SoundOK
    BY DEF IInv, ArchiveOK
  <2>2. CASE PassthroughNotStaged
    BY <1>0, <2>1, <2>2 DEF PassthroughNotStaged, TypeOK, SoundOK, MayNotPush, Replaces
  <2>3. CASE PassthroughNotPushed
    BY <1>0, <2>1, <2>3, NotPushedFacts DEF PassthroughNotPushed
  <2>. QED BY <2>2, <2>3
<1>2. Appended' = Appended /\ Converted' = Converted /\ Skipped' = Skipped
  BY <1>0 DEF Appended, Converted, Skipped, Settled
<1>3. CountsOK'
  BY <1>0, <1>2, TriedGrows, TriedRange DEF CountsOK, TypeOK
<1>4. TypeOK'
  <2>1. passthrough_skipped' \in 0 .. MemberCount
    BY <1>0, <1>3, TriedGrows, MemberRange DEF CountsOK, TypeOK
  <2>. QED BY <1>0, <1>1, <2>1, TriedGrows DEF TypeOK
<1>5. \A n \in Nested : NestOK(n)'
  BY <1>0, <1>2 DEF IInv, NestOK
<1>6. ArchiveOK'
  BY <1>0, <1>1 DEF IInv, ArchiveOK, SoundOK, MayNotPush, Replaces
<1>7. BytesOK'
  <2>. SUFFICES ASSUME "omit" \notin faults PROVE BytesOK'
    BY <1>0 DEF BytesOK
  <2>1. Sources(cursor) = {cursor}
    BY <1>0, TriedGrows, MemberRange DEF IInv, BytesOK, Sources, FindExtracted
  <2>2. \A m \in Members : m >= cursor' => m >= cursor /\ m # cursor
    BY <1>0, TriedGrows, MemberRange
  <2>. QED BY <1>0, <1>1, <2>1, <2>2, TriedGrows DEF IInv, BytesOK
<1>. QED BY <1>3, <1>4, <1>5, <1>6, <1>7 DEF IInv

LEMMA StepPassthroughNext ==
  ASSUME IInv, PassthroughNext
  PROVE  IInv'
<1>. USE DEF PassthroughNext, options, files, outer, counts
<1>1. Tried' = Tried /\ cursor' \in 1 .. MemberCount + 1
  BY TriedOverNested DEF IInv
<1>2. TypeOK'
  BY <1>1 DEF IInv, TypeOK
<1>3. CountsOK'
  BY <1>1, CountsKept DEF IInv
<1>4. \A n \in Nested : NestOK(n)'
  BY DEF IInv, NestOK, Appended
<1>5. ArchiveOK'
  BY DEF IInv, ArchiveOK, SoundOK, MayNotPush, Replaces
<1>6. BytesOK'
  <2>1. \A m \in Members : m >= cursor' => m >= cursor
    BY MemberRange DEF IInv, TypeOK
  <2>. QED BY <2>1 DEF IInv, BytesOK
<1>. QED BY <1>2, <1>3, <1>4, <1>5, <1>6 DEF IInv

LEMMA StepPassthroughDone ==
  ASSUME IInv, PassthroughDone
  PROVE  IInv'
<1>. USE DEF PassthroughDone, options, files, outer, counts
<1>1. \A m \in Members : m < cursor /\ ~ (m < cursor')
  BY MemberRange DEF IInv, TypeOK
<1>2. Tried' = Tried
  BY <1>1 DEF Tried
<1>3. TypeOK'
  BY MemberRange DEF IInv, TypeOK
<1>4. CountsOK'
  BY <1>2, CountsKept DEF IInv
<1>5. \A n \in Nested : NestOK(n)'
  BY <1>1, MemberRange DEF IInv, NestOK, Appended
<1>6. ArchiveOK'
  BY DEF IInv, ArchiveOK, SoundOK, MayNotPush, Replaces
<1>7. BytesOK'
  BY DEF IInv, BytesOK
<1>. QED BY <1>3, <1>4, <1>5, <1>6, <1>7 DEF IInv

\* the staging loop goes one entry further
LEMMA StageCursor ==
  ASSUME TypeOK, cursor \in Members, cursor' = cursor + 1
  PROVE  /\ cursor' \in 1 .. MemberCount + 1
         /\ \A n \in Nested : n < cursor' <=> n < cursor \/ n = cursor
         /\ ~ (cursor < cursor)
BY MemberRange DEF TypeOK

LEMMA StepStageNested ==
  ASSUME IInv, StageNested
  PROVE  IInv'
<1>. USE DEF options, outer, counts
<1>0. /\ pc = "staging" /\ pc' = pc /\ TypeOK /\ cursor \in Nested /\ cursor \in Members
      /\ cursor' = cursor + 1 /\ nest' = [nest EXCEPT ![cursor] = "staged"]
      /\ UNCHANGED <<options, bulk, outer, counts, output>>
  BY MemberRange DEF StageNested, IInv
<1>1. PICK from \in Sources(cursor) : /\ job' = [job EXCEPT ![cursor] = from]
                                     /\ extracted' = extracted \cup {from}
  BY DEF StageNested
<1>2. from \in Members
  BY <1>0 DEF Sources, FindExtracted, SameName, TypeOK
<1>3. nest[cursor] = "none" /\ cursor \notin Appended
  BY <1>0, StageCursor DEF IInv, NestOK
<1>4. Tried' = Tried /\ Appended' = Appended
  BY <1>0 DEF Tried, Appended
<1>5. \A n \in Nested : Settled(n)' <=> Settled(n)
  BY <1>0, <1>3 DEF Settled, TypeOK
<1>6. CountsOK'
  BY <1>0, <1>4, <1>5 DEF IInv, CountsOK, Converted, Skipped
<1>7. TypeOK'
  BY <1>0, <1>1, <1>2, StageCursor DEF TypeOK
<1>8. \A n \in Nested : NestOK(n)'
  BY <1>0, <1>3, <1>4, StageCursor DEF IInv, NestOK, TypeOK
<1>9. ArchiveOK'
  BY <1>0 DEF IInv, ArchiveOK, SoundOK, MayNotPush, Replaces
<1>10. BytesOK'
  <2>. SUFFICES ASSUME "omit" \notin faults PROVE BytesOK'
    BY <1>0 DEF BytesOK
  <2>1. from = cursor
    BY <1>0 DEF IInv, BytesOK, Sources, FindExtracted
  <2>. QED BY <1>0, <1>1, <2>1 DEF IInv, BytesOK, TypeOK
<1>. QED BY <1>0, <1>6, <1>7, <1>8, <1>9, <1>10 DEF IInv

LEMMA StepStageNestedSkip ==
  ASSUME IInv, StageNestedSkip
  PROVE  IInv'
<1>. USE DEF options, files, outer
<1>0. /\ pc = "staging" /\ pc' = pc /\ TypeOK /\ CountsOK /\ cursor \in Nested /\ cursor \in Members
      /\ cursor' = cursor + 1 /\ nest' = [nest EXCEPT ![cursor] = "counted"]
      /\ nested_skipped' = nested_skipped + 1
      /\ UNCHANGED <<options, bulk, files, outer, passthrough_written,
                     passthrough_skipped, nested_converted, output>>
  BY MemberRange DEF StageNestedSkip, IInv
<1>1. nest[cursor] = "none" /\ cursor \notin Appended /\ ~ Settled(cursor)
  BY <1>0, StageCursor DEF IInv, NestOK, Settled
<1>2. Tried' = Tried /\ Appended' = Appended
  BY <1>0 DEF Tried, Appended
<1>3. CountsOK'
  BY <1>0, <1>1, <1>2, NestedCounted DEF CountsOK
<1>4. TypeOK'
  BY <1>0, <1>1, <1>3, NestedCounted, StageCursor DEF TypeOK, CountsOK
<1>5. \A n \in Nested : NestOK(n)'
  BY <1>0, <1>1, <1>2, StageCursor DEF IInv, NestOK, TypeOK
<1>6. ArchiveOK'
  BY <1>0 DEF IInv, ArchiveOK, SoundOK, MayNotPush, Replaces
<1>7. BytesOK'
  BY <1>0 DEF IInv, BytesOK, TypeOK
<1>. QED BY <1>0, <1>3, <1>4, <1>5, <1>6, <1>7 DEF IInv

LEMMA StepStagePassthrough ==
  ASSUME IInv, StagePassthrough
  PROVE  IInv'
<1>. USE DEF StagePassthrough, options, files, outer, counts
<1>0. TypeOK /\ cursor \in Members /\ cursor' = cursor + 1
  BY MemberRange DEF IInv, TypeOK
<1>1. Tried' = Tried
  BY DEF Tried
<1>2. TypeOK'
  BY <1>0, StageCursor DEF TypeOK
<1>3. CountsOK'
  BY <1>1, CountsKept DEF IInv
<1>4. \A n \in Nested : NestOK(n)'
  BY <1>0, StageCursor DEF IInv, NestOK, Appended
<1>5. ArchiveOK' /\ BytesOK'
  BY DEF IInv, ArchiveOK, SoundOK, MayNotPush, Replaces, BytesOK
<1>. QED BY <1>2, <1>3, <1>4, <1>5 DEF IInv

LEMMA StepStagingDone ==
  ASSUME IInv, StagingDone
  PROVE  IInv'
<1>. USE DEF StagingDone, options, files, outer, counts
<1>1. Tried' = Tried
  BY DEF Tried
<1>2. TypeOK'
  BY DEF IInv, TypeOK
<1>3. CountsOK'
  BY <1>1, CountsKept DEF IInv
<1>4. \A n \in Nested : NestOK(n)'
  <2>1. \A n \in Nested : n < cursor
    BY MemberRange DEF IInv, TypeOK
  <2>. QED BY <2>1 DEF IInv, NestOK, Appended
<1>5. ArchiveOK' /\ BytesOK'
  BY DEF IInv, ArchiveOK, SoundOK, MayNotPush, Replaces, BytesOK
<1>. QED BY <1>2, <1>3, <1>4, <1>5 DEF IInv

LEMMA StepConvertNested ==
  ASSUME IInv, NEW n \in Nested, ConvertNested(n)
  PROVE  IInv'
<1>. USE DEF options, files, counts
<1>0. /\ pc = "converting" /\ pc' = pc /\ TypeOK /\ n \in Members /\ nest[n] = "staged"
      /\ job[n] \in extracted /\ archive' = archive \cup {<<n, job[n]>>}
      /\ remains' \in BOOLEAN /\ damaged' \in BOOLEAN /\ SoundOK'
      /\ nest' = [nest EXCEPT ![n] = "converted"]
      /\ UNCHANGED <<options, bulk, files, cursor, counts, output>>
  <2>1. SoundOK /\ TypeOK /\ UNCHANGED <<format, faults>> /\ Pushed(n, job[n])
    BY DEF ConvertNested, IInv, ArchiveOK
  <2>. QED BY <2>1, PushedFacts, MemberRange DEF ConvertNested
<1>1. Appended' = Appended \cup {n} /\ n \notin Appended
  <2>1. Appended' = {entry[1] : entry \in archive \cup {<<n, job[n]>>}}
    BY <1>0 DEF Appended
  <2>2. Appended' = Appended \cup {<<n, job[n]>>[1]}
    BY ONLY <2>1 DEF Appended
  <2>3. n \notin Appended
    BY <1>0 DEF IInv, NestOK
  <2>. QED BY <2>2, <2>3
<1>2. Tried' = Tried
  BY <1>0 DEF Tried
<1>3. \A k \in Nested : (Settled(k)' <=> Settled(k)) /\ (Settled(k) => k # n)
  BY <1>0 DEF Settled, TypeOK
<1>4. Converted' = Converted /\ Skipped' = Skipped /\ Appended' \ Nested = Appended \ Nested
  BY <1>1, <1>3 DEF Converted, Skipped
<1>5. CountsOK'
  BY <1>0, <1>2, <1>4 DEF IInv, CountsOK
<1>6. TypeOK'
  <2>1. archive' \subseteq Members \X Members
    BY <1>0 DEF TypeOK
  <2>. QED BY <1>0, <2>1 DEF TypeOK
<1>7. \A k \in Nested : NestOK(k)'
  BY <1>0, <1>1 DEF IInv, NestOK, TypeOK
<1>8. ArchiveOK'
  BY <1>0, <1>1 DEF IInv, ArchiveOK, SoundOK, MayNotPush, Replaces, Appended
<1>9. BytesOK'
  BY <1>0 DEF IInv, BytesOK, TypeOK
<1>. QED BY <1>0, <1>5, <1>6, <1>7, <1>8, <1>9 DEF IInv

LEMMA StepConvertNestedFails ==
  ASSUME IInv, NEW n \in Nested, ConvertNestedFails(n)
  PROVE  IInv'
<1>. USE DEF options, files, counts
<1>0. /\ pc = "converting" /\ pc' = pc /\ TypeOK /\ nest[n] = "staged"
      /\ nest' = [nest EXCEPT ![n] = "failed"]
      /\ remains' \in BOOLEAN /\ damaged' \in BOOLEAN /\ SoundOK'
      /\ UNCHANGED <<options, bulk, files, cursor, archive, counts, output>>
  <2>1. SoundOK /\ TypeOK /\ UNCHANGED <<format, faults>>
    BY DEF ConvertNestedFails, IInv, ArchiveOK
  <2>2. CASE NotPushed
    BY <2>1, <2>2, NotPushedFacts DEF ConvertNestedFails
  <2>3. CASE UNCHANGED outer
    BY <2>1, <2>3 DEF ConvertNestedFails, outer, TypeOK, SoundOK, MayNotPush, Replaces
  <2>. QED BY <2>2, <2>3 DEF ConvertNestedFails
<1>1. Appended' = Appended /\ Tried' = Tried
  BY <1>0 DEF Appended, Tried
<1>2. \A k \in Nested : Settled(k)' <=> Settled(k)
  BY <1>0 DEF Settled, TypeOK
<1>3. CountsOK'
  BY <1>0, <1>1, <1>2 DEF IInv, CountsOK, Converted, Skipped
<1>4. TypeOK'
  BY <1>0 DEF TypeOK
<1>5. \A k \in Nested : NestOK(k)'
  BY <1>0, <1>1 DEF IInv, NestOK, TypeOK
<1>6. ArchiveOK'
  BY <1>0 DEF IInv, ArchiveOK, SoundOK, MayNotPush, Replaces
<1>7. BytesOK'
  BY <1>0 DEF IInv, BytesOK, TypeOK
<1>. QED BY <1>0, <1>3, <1>4, <1>5, <1>6, <1>7 DEF IInv

LEMMA StepCountNested ==
  ASSUME IInv, NEW n \in Nested, CountNested(n)
  PROVE  IInv'
<1>. USE DEF options, outer
<1>0. /\ pc = "converting" /\ pc' = pc /\ TypeOK /\ CountsOK /\ nest[n] \in {"converted", "failed"}
      /\ extracted' = extracted \ {job[n]}
      /\ nest' = [nest EXCEPT ![n] = "counted"]
      /\ UNCHANGED <<options, bulk, job, cursor, outer, passthrough_written,
                     passthrough_skipped, output>>
  BY DEF CountNested, IInv
<1>1. /\ nest[n] = "converted" <=> n \in Appended
      /\ ~ Settled(n)
  BY <1>0 DEF IInv, NestOK, Settled
<1>2. /\ nest[n] = "converted" => nested_converted' = nested_converted + 1 /\ nested_skipped' = nested_skipped
      /\ nest[n] = "failed" => nested_converted' = nested_converted /\ nested_skipped' = nested_skipped + 1
  BY <1>0 DEF CountNested, TypeOK
<1>3. Tried' = Tried /\ Appended' = Appended
  BY <1>0 DEF Tried, Appended
<1>4. CountsOK'
  BY <1>0, <1>1, <1>2, <1>3, NestedCounted DEF CountsOK
<1>5. TypeOK'
  <2>1. nested_converted' \in 0 .. MemberCount /\ nested_skipped' \in 0 .. MemberCount
    BY <1>0, <1>1, <1>4, NestedCounted DEF CountsOK
  <2>. QED BY <1>0, <2>1 DEF TypeOK
<1>6. \A k \in Nested : NestOK(k)'
  BY <1>0, <1>1, <1>3 DEF IInv, NestOK, TypeOK
<1>7. ArchiveOK'
  BY <1>0 DEF IInv, ArchiveOK, SoundOK, MayNotPush, Replaces
<1>8. BytesOK'
  BY <1>0 DEF IInv, BytesOK, TypeOK
<1>. QED BY <1>0, <1>4, <1>5, <1>6, <1>7, <1>8 DEF IInv

LEMMA StepConvertingDone ==
  ASSUME IInv, ConvertingDone
  PROVE  IInv'
<1>. USE DEF ConvertingDone, options, files, outer, counts
<1>1. Tried' = Tried
  BY DEF Tried
<1>2. TypeOK'
  BY DEF IInv, TypeOK
<1>3. CountsOK'
  BY <1>1, CountsKept DEF IInv
<1>4. \A n \in Nested : NestOK(n)'
  BY DEF IInv, NestOK, Appended, Settled
<1>5. ArchiveOK' /\ BytesOK'
  BY DEF IInv, ArchiveOK, SoundOK, MayNotPush, Replaces, BytesOK
<1>. QED BY <1>2, <1>3, <1>4, <1>5 DEF IInv

LEMMA StepFinalize ==
  ASSUME IInv, Finalize
  PROVE  IInv'
<1>. USE DEF options, files, outer, counts
<1>0. /\ pc \in {"closing", "verifying", "persisting", "moving", "copying"} /\ TypeOK
      /\ pc' \in {"verifying", "persisting", "moving", "copying", "done", "failed"}
      /\ output' \in {"old", "absent", "partial", "new"}
      /\ UNCHANGED <<options, bulk, files, cursor, nest, outer, counts>>
  BY DEF Finalize, Close, Verify, RemoveOutput, MoveOutput, CopyOutput, IInv, TypeOK
<1>1. TypeOK'
  BY <1>0 DEF TypeOK, Ended
<1>2. Tried' = Tried
  BY <1>0 DEF Tried
<1>3. CountsOK'
  BY <1>0, <1>2, CountsKept DEF IInv
<1>4. \A n \in Nested : NestOK(n)'
  BY <1>0 DEF IInv, NestOK, Appended, Settled
<1>5. ArchiveOK'
  <2>1. Cardinality(archive) = Expected
    BY <1>0, EntryCount DEF IInv, NestOK
  <2>2. CASE Close
    BY <1>0, <2>2 DEF Close, IInv, ArchiveOK, SoundOK, MayNotPush, Replaces
  <2>3. CASE Verify
    <3>1. UNCHANGED <<archive, cursor, remains, damaged, format, faults, verify>> /\ ArchiveOK
          /\ pc = "verifying" /\ pc' \in {"persisting", "failed"}
      BY <1>0, <2>3 DEF Verify, IInv
    <3>2. ASSUME pc' = "persisting", damaged PROVE format # "sevenz" /\ remains
      <4>1. CountMayMatch /\ ~TestFails
        BY <2>3, <3>2 DEF Verify
      <4>. QED BY <3>1, <3>2, <4>1 DEF CountMayMatch, TestFails, ArchiveOK, SoundOK
    <3>3. ASSUME faults \subseteq {"bulk", "omit", "extract", "convert"} PROVE pc' # "failed"
      <4>1. ~MayNotPush /\ "test" \notin faults
        BY <3>3 DEF MayNotPush, Replaces
      <4>2. ~remains /\ ~damaged
        BY <3>1, <4>1 DEF ArchiveOK, SoundOK
      <4>. QED BY <2>1, <2>3, <4>1, <4>2 DEF Verify, CountMayDiffer, TestFails
    <3>. QED BY <3>1, <3>2, <3>3 DEF ArchiveOK, SoundOK, MayNotPush, Replaces
  <2>4. CASE RemoveOutput
    BY <1>0, <2>4 DEF RemoveOutput, IInv, ArchiveOK, SoundOK, MayNotPush, Replaces
  <2>5. CASE MoveOutput \/ CopyOutput
    BY <1>0, <2>5 DEF MoveOutput, CopyOutput, IInv, ArchiveOK, SoundOK, MayNotPush, Replaces
  <2>. QED BY <2>2, <2>3, <2>4, <2>5 DEF Finalize
<1>6. BytesOK'
  BY <1>0 DEF IInv, BytesOK
<1>. QED BY <1>0, <1>1, <1>3, <1>4, <1>5, <1>6 DEF IInv

LEMMA StepKill ==
  ASSUME IInv, Kill
  PROVE  IInv'
<1>. USE DEF Kill, files, outer, counts
<1>1. TypeOK'
  BY PipelineAssumption DEF IInv, TypeOK
<1>2. ArchiveOK' /\ BytesOK'
  BY DEF IInv, ArchiveOK, SoundOK, MayNotPush, Replaces, BytesOK
<1>. QED BY <1>1, <1>2 DEF IInv

LEMMA StepRerun ==
  ASSUME IInv, Rerun
  PROVE  IInv'
<1>. USE DEF Rerun, options
<1>1. TypeOK'
  <2>1. 1 \in 1 .. MemberCount + 1 /\ 0 \in 0 .. MemberCount
    BY PipelineAssumption
  <2>2. job' \in [Nested -> Members \cup {None}]
    OBVIOUS
  <2>. QED BY <2>1, <2>2 DEF IInv, TypeOK
<1>2. Appended' = {} /\ Tried' = {} /\ Converted' = {} /\ Skipped' = {}
  BY DEF Appended, Tried, Converted, Skipped, Settled
<1>3. CountsOK'
  BY <1>2, FS_EmptySet DEF CountsOK
<1>4. \A n \in Nested : NestOK(n)'
  BY <1>2 DEF NestOK
<1>5. ArchiveOK' /\ BytesOK'
  BY DEF ArchiveOK, SoundOK, MayNotPush, Replaces, BytesOK
<1>. QED BY <1>1, <1>3, <1>4, <1>5 DEF IInv

LEMMA StepIInv == IInv /\ [Next]_vars => IInv'
<1>. SUFFICES ASSUME IInv, [Next]_vars PROVE IInv'
  OBVIOUS
<1>1. CASE Extract
  BY <1>1, StepExtract
<1>2. CASE Passthrough
  BY <1>2, StepPassthroughWritten, StepPassthroughSkipped, StepPassthroughNext,
     StepPassthroughDone DEF Passthrough
<1>3. CASE Stage
  BY <1>3, StepStageNested, StepStageNestedSkip, StepStagePassthrough, StepStagingDone DEF Stage
<1>4. CASE ConvertAll
  BY <1>4, StepConvertNested, StepConvertNestedFails, StepCountNested, StepConvertingDone
     DEF ConvertAll
<1>5. CASE Finalize
  BY <1>5, StepFinalize
<1>6. CASE Kill \/ Rerun
  BY <1>6, StepKill, StepRerun
<1>7. CASE UNCHANGED vars
  BY <1>7 DEF vars, options, files, outer, counts, IInv, TypeOK, CountsOK, NestOK, ArchiveOK,
     SoundOK, MayNotPush, Replaces,
     BytesOK, Tried, Settled, Converted, Skipped, Appended
<1>. QED BY <1>1, <1>2, <1>3, <1>4, <1>5, <1>6, <1>7 DEF Next, Execute, Terminated

-----------------------------------------------------------------------------
(* The theorems.                                                           *)

(***************************************************************************)
(* execute() keeps its counts and its archive in step with each other and  *)
(* with the jobs of the nested members, through any faults and kills.      *)
(***************************************************************************)
THEOREM PipelineInvariant == Spec => []IInv
BY InitIInv, StepIInv, PTL DEF Spec

(***************************************************************************)
(* No cursor or statistic of a job passes the length of the plan.          *)
(***************************************************************************)
THEOREM PipelineTypes == Spec => []TypeOK
<1>1. IInv => TypeOK
  BY DEF IInv
<1>. QED BY <1>1, PipelineInvariant, PTL

(***************************************************************************)
(* The statistics that execute() prints are those of the archive: every    *)
(* member of the plan is appended or counted as skipped, and once.         *)
(***************************************************************************)
THEOREM TheStatisticsAreTrue == Spec => []StatsAreTrue
<1>1. IInv => StatsAreTrue
  <2>. SUFFICES ASSUME IInv, pc = "done" PROVE StatsAreTrue
    BY DEF StatsAreTrue
  <2>1. \A n \in Nested : Settled(n)
    BY DEF IInv, NestOK
  <2>2. Tried = Members \ Nested /\ Converted = Appended \cap Nested
    BY <2>1 DEF Tried, Converted
  <2>3. CountsOK
    BY DEF IInv
  <2>4. Converted \cup Skipped = Nested /\ Converted \cap Skipped = {}
    BY <2>1 DEF Converted, Skipped
  <2>5. Cardinality(Nested) = Cardinality(Converted) + Cardinality(Skipped)
    BY <2>4, OutcomesAreMembers, DisjointUnion
  <2>. QED BY <2>2, <2>3, <2>5 DEF StatsAreTrue, CountsOK
<1>. QED BY <1>1, PipelineInvariant, PTL

(***************************************************************************)
(* Whatever the way the members were extracted, and the order in which the *)
(* shared directory was emptied, an entry has the bytes of its own member. *)
(***************************************************************************)
THEOREM EntriesHaveTheirBytes == Spec => []BytesMatchNames
<1>1. IInv => BytesMatchNames
  BY DEF IInv, BytesOK, BytesMatchNames
<1>. QED BY <1>1, PipelineInvariant, PTL

(***************************************************************************)
(* When only members may fail, a job gives up only when each of them was   *)
(* tried, skipped and counted: never in verification, whose expected count *)
(* is that of the archive.                                                 *)
(***************************************************************************)
THEOREM NothingUsableIsGivenUp == Spec => []FailsOnlyWhenEmpty
<1>1. IInv => FailsOnlyWhenEmpty
  <2>. SUFFICES ASSUME IInv, pc = "failed", faults \subseteq {"bulk", "omit", "extract", "convert"}
                PROVE  archive = {} /\ passthrough_skipped + nested_skipped = MemberCount
    BY DEF FailsOnlyWhenEmpty
  <2>1. archive = {} /\ Appended = {}
    BY DEF IInv, ArchiveOK, Appended
  <2>2. Tried = Members \ Nested
    BY DEF Tried
  <2>3. Skipped = Nested
    BY <2>1 DEF IInv, NestOK, Skipped
  <2>4. passthrough_written = 0 /\ CountsOK /\ TypeOK
    BY <2>1, FS_EmptySet DEF IInv, CountsOK
  <2>5. passthrough_skipped = Cardinality(Members \ Nested) /\ nested_skipped = Cardinality(Nested)
    BY <2>2, <2>3, <2>4 DEF CountsOK, TypeOK
  <2>. QED BY <2>1, <2>5, TwoKinds
<1>. QED BY <1>1, PipelineInvariant, PTL

(***************************************************************************)
(* persist_file and persist_dir are reached only with every member tried   *)
(* and a non-empty archive: until then a kill or an error leaves the old   *)
(* output in place.  Under --verify a 7z archive that cannot be read back  *)
(* is never reached with, and a damaged tar or directory only when what a  *)
(* failed push left in it was counted for what was lost.                   *)
(***************************************************************************)
THEOREM OldOutputStaysUntilTheEnd == Spec => OutputReplacedLast
<1>1. IInv /\ [Next]_vars =>
        [output' # output => /\ \A n \in Nested : nest[n] = "counted"
                             /\ archive # {}
                             /\ verify /\ damaged => format # "sevenz" /\ remains]_vars
  <2>. SUFFICES ASSUME IInv, Next, output' # output
                PROVE  /\ \A n \in Nested : nest[n] = "counted"
                       /\ archive # {}
                       /\ verify /\ damaged => format # "sevenz" /\ remains
    BY DEF vars, options, files, outer, counts
  <2>1. pc \in {"persisting", "moving", "copying"}
    BY DEF Next, Execute, Extract, BulkExtract, BulkExtractFails, NoBulkExtract, Passthrough,
       PassthroughWritten, PassthroughNotStaged, PassthroughNotPushed, PassthroughNext,
       PassthroughDone, Stage, StageNested, StageNestedSkip, StagePassthrough, StagingDone,
       ConvertAll, ConvertNested, ConvertNestedFails, CountNested, ConvertingDone, Finalize,
       Close, Verify, RemoveOutput, MoveOutput, CopyOutput, Kill, Rerun, Terminated, vars
  <2>. QED BY <2>1 DEF IInv, NestOK, Settled, ArchiveOK
<1>. QED BY <1>1, PipelineInvariant, PTL DEF Spec, OutputReplacedLast

=============================================================================
