------------------------- MODULE NestConvertProofs -------------------------
(***************************************************************************)
(* Proofs about NestConvert, for any archive, any set of filters, either   *)
(* backend and any damage: IInv is inductive, and with it an archive that  *)
(* convert() returns is filtered and a damaged member is seen.             *)
(***************************************************************************)
EXTENDS NestConvert, DataInduction, SequenceTheorems, TLAPS

-----------------------------------------------------------------------------
(***************************************************************************)
(* The invariant of the proofs: what each way to the output has made sure  *)
(* of so far.                                                              *)
(***************************************************************************)

\* the globs of the filter take away what the filter does not keep (MappedSafely is
\* violated by filters whose globs do not)
GlobsAreExact ==
  UseGlobs /\ Native => \A path \in Files : GlobExcluded(filter.rules, path) <=> ~Keep(path)

Passed   == {Members[k] : k \in 1 .. cursor - 1}
Archived == ToSet(out)

\* out holds members that were passed, each once
OutOK ==
  /\ out \in Seq(Files) /\ Len(out) <= Len(Members)
  /\ pc \in {"stream", "packing"} => Len(out) < cursor /\ Archived \subseteq Passed
  /\ pc \in {"stream", "packing", "verify"} \/ result = "ok" => IsInjective(out)
  /\ pc = "verify" \/ result = "ok" => sealed

\* each step is of its way, and result is set at the end
WayOK ==
  /\ damaged \in Files \cup {None}
  /\ pc = "start" => cursor = 1
  /\ pc \notin {"start", "verify", "end"} => ~CopyThrough
  /\ pc = "stream" => Native
  /\ pc = "filter" => NeedPostFilter /\ tree = Files
  /\ result = "none" <=> pc # "end"

\* the member that does not decode has stopped whatever had to decode it
DamageOK ==
  /\ pc = "stream" => damaged \notin Passed
  /\ pc \in {"filter", "pack", "packing"} =>
       damaged = None \/ (FilteredByCli /\ damaged \notin tree)
  /\ pc = "packing" => Archived \subseteq tree
  /\ pc = "verify" \/ result = "ok" =>
       IF CopyThrough THEN out = Members
       ELSE damaged = None \/ (FilteredByCli /\ damaged \notin Archived)
  /\ result = "ok" /\ options.verify => damaged \notin Archived

\* what is in the tree, and then in the archive, is what the filter keeps
KeptOK ==
  GlobsAreExact /\ ~FilteredByCli =>
    /\ pc = "stream" => Archived = Passed \cap KeptFiles
    /\ pc \in {"pack", "packing"} => KeptFiles \subseteq tree /\ tree \subseteq KeptFiles \cup Left
    /\ pc = "packing" => (Passed \cap tree) \ Archived \subseteq Omitted
    /\ pc = "verify" \/ result = "ok" =>
         Archived \subseteq KeptFiles \cup Left /\ KeptFiles \ Archived \subseteq Omitted

IInv == TypeOK /\ OutOK /\ WayOK /\ DamageOK /\ KeptOK

-----------------------------------------------------------------------------
(* Members and sequences of them.                                          *)

LEMMA MemberFacts ==
  /\ Len(Members) \in Nat /\ DOMAIN Members = 1 .. Len(Members)
  /\ Members \in Seq(Files)
  /\ Files = {Members[k] : k \in 1 .. Len(Members)}
  /\ \A j, k \in 1 .. Len(Members) : Members[j] = Members[k] => j = k
<1>1. Members \in Seq(Files)
  BY MembersAreDistinct DEF Files
<1>2. Len(Members) \in Nat /\ DOMAIN Members = 1 .. Len(Members)
  BY <1>1
<1>. QED BY <1>1, <1>2, MembersAreDistinct DEF Files, ToSet, IsInjective

LEMMA EmptyFacts ==
  /\ <<>> \in Seq(Files) /\ Len(<<>>) = 0
  /\ ToSet(<<>>) = {} /\ IsInjective(<<>>)
BY DEF ToSet, IsInjective

LEMMA AppendFacts ==
  ASSUME NEW s \in Seq(Files), NEW m \in Files
  PROVE  /\ Append(s, m) \in Seq(Files) /\ Len(Append(s, m)) = Len(s) + 1
         /\ ToSet(Append(s, m)) = ToSet(s) \cup {m}
         /\ m \notin ToSet(s) /\ IsInjective(s) => IsInjective(Append(s, m))
<1>1. Append(s, m) \in Seq(Files) /\ Len(Append(s, m)) = Len(s) + 1
  OBVIOUS
<1>2. /\ DOMAIN Append(s, m) = (1 .. Len(s)) \cup {Len(s) + 1} /\ DOMAIN s = 1 .. Len(s)
      /\ \A k \in 1 .. Len(s) : Append(s, m)[k] = s[k]
      /\ Append(s, m)[Len(s) + 1] = m
  OBVIOUS
<1>3. ToSet(Append(s, m)) = ToSet(s) \cup {m}
  BY <1>2 DEF ToSet
<1>4. m \notin ToSet(s) /\ IsInjective(s) => IsInjective(Append(s, m))
  BY <1>2 DEF ToSet, IsInjective
<1>. QED BY <1>1, <1>3, <1>4

LEMMA PassedFacts ==
  ASSUME cursor \in 1 .. Len(Members) + 1
  PROVE  /\ Passed \subseteq Files
         /\ cursor = 1 => Passed = {}
         /\ cursor > Len(Members) => Passed = Files
<1>1. \A k \in 1 .. cursor - 1 : k \in 1 .. Len(Members)
  BY MemberFacts
<1>2. cursor > Len(Members) => 1 .. cursor - 1 = 1 .. Len(Members)
  BY MemberFacts
<1>3. cursor = 1 => \A k \in 1 .. cursor - 1 : FALSE
  OBVIOUS
<1>. QED BY <1>1, <1>2, <1>3, MemberFacts DEF Passed

\* the next member has not been passed, and is after the step
LEMMA NextPassed ==
  ASSUME cursor \in 1 .. Len(Members) + 1, cursor <= Len(Members), cursor' = cursor + 1
  PROVE  /\ Members[cursor] \in Files /\ Members[cursor] \notin Passed
         /\ Passed' = Passed \cup {Members[cursor]}
         /\ cursor' \in 1 .. Len(Members) + 1
<1>1. cursor \in 1 .. Len(Members) /\ cursor' \in 1 .. Len(Members) + 1
  BY MemberFacts
<1>2. 1 .. cursor' - 1 = (1 .. cursor - 1) \cup {cursor}
  BY <1>1, MemberFacts
<1>3. \A k \in 1 .. cursor - 1 : k \in 1 .. Len(Members) /\ k # cursor
  BY <1>1, MemberFacts
<1>4. Passed' = Passed \cup {Members[cursor]}
  BY <1>2 DEF Passed
<1>. QED BY <1>1, <1>3, <1>4, MemberFacts DEF Passed

LEMMA NoRulesKeepAll ==
  ASSUME filter.rules = <<>>
  PROVE  /\ \A path \in Files : Keep(path)
         /\ KeptFiles = Files /\ ~UseGlobs /\ ~NeedPostFilter
<1>1. \A path \in Files : Keep(path)
  BY DEF Keep, ShouldKeep, Kept, FileHits, DirHits
<1>. QED BY <1>1 DEF KeptFiles, UseGlobs, NeedPostFilter, MapsToGlobs

\* the filter, the options and the faults are those of the job
LEMMA WorldKept ==
  ASSUME UNCHANGED world
  PROVE  /\ KeptFiles' = KeptFiles /\ Left' = Left /\ Omitted' = Omitted
         /\ CopyThrough' <=> CopyThrough
         /\ Native' <=> Native
         /\ NeedPostFilter' <=> NeedPostFilter
         /\ FilteredByCli' <=> FilteredByCli
         /\ GlobsAreExact' <=> GlobsAreExact
         /\ filter' = filter /\ options' = options /\ damaged' = damaged
BY DEF world, KeptFiles, Keep, Left, Omitted, MayOmit, CopyThrough, Native, NeedPostFilter,
       UseGlobs, FilteredByCli, GlobsAreExact, Files

-----------------------------------------------------------------------------
(* The filter as a walk.                                                   *)

Names == UNION {ToSet(path) : path \in Files}

\* the walk gets to a directory when it goes on at each one on the way
Reaches(dir) == \A k \in 1 .. Len(dir) : TakesOn(SubSeq(dir, 1, k), TRUE)

LEMMA MembersAreNames == \A path \in Files : path \in Seq(Names) /\ path # <<>>
<1>. SUFFICES ASSUME NEW path \in Files PROVE path \in Seq(Names) /\ path # <<>>
  OBVIOUS
<1>1. path \in Seq(ToSet(path)) /\ path # <<>>
  BY MembersAreDistinct DEF Files
<1>2. \A k \in 1 .. Len(path) : path[k] \in Names
  BY <1>1 DEF Names, ToSet
<1>. QED BY <1>1, <1>2

LEMMA FrontFacts ==
  ASSUME NEW dir \in Seq(Names), dir # <<>>
  PROVE  /\ Front(dir) \in Seq(Names) /\ Len(Front(dir)) = Len(dir) - 1 /\ Len(dir) \in Nat \ {0}
         /\ \A k \in 1 .. Len(dir) - 1 : SubSeq(Front(dir), 1, k) = SubSeq(dir, 1, k)
         /\ SubSeq(dir, 1, Len(dir)) = dir
<1>1. Len(dir) \in Nat \ {0}
  OBVIOUS
<1>2. Front(dir) \in Seq(Names) /\ Len(Front(dir)) = Len(dir) - 1
  BY <1>1 DEF Front
<1>3. ASSUME NEW k \in 1 .. Len(dir) - 1
      PROVE  SubSeq(Front(dir), 1, k) = SubSeq(dir, 1, k)
  BY <1>1, <1>2 DEF Front
<1>4. SubSeq(dir, 1, Len(dir)) = dir
  BY <1>1
<1>. QED BY <1>1, <1>2, <1>3, <1>4

LEMMA ReachesNext ==
  ASSUME NEW dir \in Seq(Names), dir # <<>>
  PROVE  Reaches(dir) <=> Reaches(Front(dir)) /\ TakesOn(dir, TRUE)
<1>1. 1 .. Len(dir) = (1 .. Len(dir) - 1) \cup {Len(dir)}
  BY FrontFacts
<1>. QED BY <1>1, FrontFacts DEF Reaches

\* the recursive definition is that of the directories the walk gets to
LEMMA EnteredIsReached == \A dir \in Seq(Names) : Entered[dir] <=> Reaches(dir)
<1>. DEFINE Def(f) == [dir \in Seq(Names) |-> dir # <<>> => f[Front(dir)] /\ TakesOn(dir, TRUE)]
            E == [dir \in Seq(Names) |-> Reaches(dir)]
<1>1. E = Def(E)
  <2>1. ASSUME NEW dir \in Seq(Names)
        PROVE  Reaches(dir) <=> (dir # <<>> => E[Front(dir)] /\ TakesOn(dir, TRUE))
    <3>1. CASE dir = <<>>
      BY <3>1 DEF Reaches
    <3>2. CASE dir # <<>>
      BY <3>2, FrontFacts, ReachesNext
    <3>. QED BY <3>1, <3>2
  <2>2. ASSUME NEW dir \in Seq(Names)
        PROVE  E[dir] = Def(E)[dir]
    <3>1. E[dir] \in BOOLEAN /\ (E[dir] <=> Reaches(dir))
      BY DEF Reaches
    <3>2. /\ Def(E)[dir] \in BOOLEAN
          /\ Def(E)[dir] <=> (dir # <<>> => E[Front(dir)] /\ TakesOn(dir, TRUE))
      <4>. HIDE DEF E
      <4>. QED OBVIOUS
    <3>. HIDE DEF E, Def
    <3>3. E[dir] <=> Def(E)[dir]
      BY <2>1, <3>1, <3>2
    <3>. QED BY <3>1, <3>2, <3>3
  <2>3. E = [dir \in Seq(Names) |-> E[dir]] /\ Def(E) = [dir \in Seq(Names) |-> Def(E)[dir]]
    BY Zenon
  <2>. HIDE DEF E, Def
  <2>. QED BY <2>2, <2>3, Zenon
<1>2. Entered = CHOOSE f : f = Def(f)
  BY DEF Entered, Names
<1>3. Entered = Def(Entered)
  BY <1>1, <1>2
<1>. DEFINE Wrong == {n \in Nat : \E dir \in Seq(Names) : Len(dir) = n /\ ~ (Entered[dir] <=> Reaches(dir))}
<1>4. Wrong = {}
  <2>. SUFFICES ASSUME Wrong # {} PROVE FALSE
    OBVIOUS
  <2>1. PICK n \in Wrong : \A k \in Wrong : n <= k
    BY LeastElement
  <2>2. PICK dir \in Seq(Names) : Len(dir) = n /\ ~ (Entered[dir] <=> Reaches(dir))
    OBVIOUS
  <2>3. Entered[dir] <=> (dir # <<>> => Entered[Front(dir)] /\ TakesOn(dir, TRUE))
    BY <1>3, Zenon
  <2>4. CASE dir = <<>>
    <3>1. Reaches(dir)
      BY <2>4 DEF Reaches
    <3>. QED BY <2>2, <2>3, <2>4, <3>1
  <2>5. CASE dir # <<>>
    <3>1. Front(dir) \in Seq(Names) /\ Len(Front(dir)) \in Nat /\ ~ (n <= Len(Front(dir)))
      BY <2>2, <2>5, FrontFacts
    <3>2. Entered[Front(dir)] <=> Reaches(Front(dir))
      BY <2>1, <3>1
    <3>3. Entered[dir] <=> Reaches(Front(dir)) /\ TakesOn(dir, TRUE)
      BY <2>3, <2>5, <3>2
    <3>4. Reaches(dir) <=> Reaches(Front(dir)) /\ TakesOn(dir, TRUE)
      BY <2>5, ReachesNext
    <3>. QED BY <2>2, <3>3, <3>4
  <2>. QED BY <2>4, <2>5
<1>. QED BY <1>4

\* with rsync rules only, a file is kept when the walk gets to its directory and takes it
LEMMA KeepIsReached ==
  ASSUME \A k \in DOMAIN filter.rules : filter.rules[k].syntax = "rsync", NEW path \in Files
  PROVE  Keep(path) <=> Reaches(Front(path)) /\ TakesOn(path, FALSE)
<1>1. path \in Seq(Names) /\ path # <<>>
  BY MembersAreNames
<1>2. \A dir : DirHits(filter.rules, dir) = {k \in DOMAIN filter.rules : RsyncMatches(filter.rules[k], dir, TRUE)}
  BY DEF DirHits
<1>3. FileHits(filter.rules, path, filter.basename_match)
        = {k \in DOMAIN filter.rules : RsyncMatches(filter.rules[k], path, FALSE)}
  BY DEF FileHits, Matches
<1>4. \A dir : Kept(filter.rules, DirHits(filter.rules, dir)) <=> TakesOn(dir, TRUE)
  BY <1>2 DEF TakesOn
<1>5. Kept(filter.rules, FileHits(filter.rules, path, filter.basename_match)) <=> TakesOn(path, FALSE)
  BY <1>3 DEF TakesOn
<1>6. (\A dir \in Directories(path) : TakesOn(dir, TRUE)) <=> Reaches(Front(path))
  <2>1. 1 .. Len(Front(path)) = 1 .. Len(path) - 1
    BY <1>1, FrontFacts
  <2>2. Reaches(Front(path)) <=> \A k \in 1 .. Len(path) - 1 : TakesOn(SubSeq(path, 1, k), TRUE)
    BY <1>1, <2>1, FrontFacts DEF Reaches
  <2>. QED BY <2>2 DEF Directories
<1>. QED BY <1>4, <1>5, <1>6 DEF Keep, ShouldKeep

\* the first of a set of rules is one of them
LEMMA FirstRule ==
  ASSUME NEW rules, NEW hits, hits \subseteq DOMAIN rules, DOMAIN rules \subseteq Nat,
         \A k \in DOMAIN rules : ~rules[k].include
  PROVE  Kept(rules, hits) <=> hits = {}
<1>1. hits # {} => Min(hits) \in hits
  BY MinIsLeast
<1>. QED BY <1>1 DEF Kept

-----------------------------------------------------------------------------
(* Each step preserves the invariant.                                      *)

LEMMA InitIInv == Init => IInv
<1>. SUFFICES ASSUME Init PROVE IInv
  OBVIOUS
<1>0. /\ ToSet(out) \subseteq Files /\ Len(out) = 0 /\ Len(out) <= Len(Members)
      /\ cursor \in 1 .. Len(Members) + 1
  BY MemberFacts, EmptyFacts DEF Init
<1>1. TypeOK
  BY <1>0 DEF Init, TypeOK, States
<1>2. OutOK /\ WayOK /\ DamageOK /\ KeptOK
  BY MemberFacts, EmptyFacts DEF Init, OutOK, WayOK, DamageOK, KeptOK
<1>. QED BY <1>1, <1>2 DEF IInv

LEMMA StepPassthrough ==
  ASSUME IInv, Passthrough
  PROVE  IInv'
<1>1. UNCHANGED world
  BY DEF Passthrough
<1>2. ToSet(Members) = Files
  BY DEF Files
<1>3. TypeOK'
  BY <1>2, MemberFacts DEF IInv, TypeOK, Passthrough, States
<1>4. OutOK'
  BY MemberFacts, MembersAreDistinct DEF IInv, OutOK, Passthrough, WayOK
<1>5. WayOK'
  BY <1>1, WorldKept DEF IInv, WayOK, Passthrough
<1>6. DamageOK'
  BY <1>1, WorldKept DEF IInv, WayOK, DamageOK, Passthrough
<1>7. KeptOK'
  <2>1. KeptFiles = Files /\ ~NeedPostFilter /\ Left = {}
    BY NoRulesKeepAll DEF Passthrough, CopyThrough, Left
  <2>2. Archived' = Files
    BY <1>2 DEF Archived, Passthrough
  <2>. QED BY <1>1, <2>1, <2>2, WorldKept DEF IInv, KeptOK, WayOK, Passthrough
<1>. QED BY <1>3, <1>4, <1>5, <1>6, <1>7 DEF IInv

LEMMA StepFails ==
  ASSUME IInv, Fails
  PROVE  IInv'
<1>1. UNCHANGED world /\ UNCHANGED <<cursor, tree, out, sealed>> /\ pc' = "end" /\ result' = "err"
  BY DEF Fails, Fail
<1>2. TypeOK' /\ OutOK' /\ WayOK' /\ DamageOK' /\ KeptOK'
  BY <1>1, WorldKept DEF IInv, TypeOK, OutOK, WayOK, DamageOK, KeptOK, States
<1>. QED BY <1>2 DEF IInv

LEMMA StepStartStream ==
  ASSUME IInv, StartStream
  PROVE  IInv'
<1>1. UNCHANGED world /\ out' = <<>> /\ Archived' = {} /\ cursor = 1 /\ cursor' = 1
  BY EmptyFacts DEF StartStream, IInv, WayOK, Archived
<1>2. Passed = {} /\ Passed' = {}
  BY <1>1, PassedFacts DEF IInv, TypeOK, Passed
<1>3. TypeOK'
  <2>1. ToSet(out') \subseteq Files /\ Len(out') = 0 /\ Len(out') <= Len(Members)
    BY <1>1, EmptyFacts, MemberFacts
  <2>. QED BY <1>1, <2>1 DEF IInv, TypeOK, StartStream, States
<1>4. OutOK'
  BY <1>1, <1>2, EmptyFacts, MemberFacts DEF IInv, OutOK, StartStream, WayOK
<1>5. WayOK' /\ DamageOK' /\ KeptOK'
  BY <1>1, <1>2, WorldKept DEF IInv, WayOK, DamageOK, KeptOK, StartStream
<1>. QED BY <1>3, <1>4, <1>5 DEF IInv

LEMMA StepStreamMember ==
  ASSUME IInv, StreamMember
  PROVE  IInv'
<1>0. /\ UNCHANGED world /\ TypeOK /\ OutOK /\ pc = "stream" /\ pc' = pc /\ result' = result
      /\ cursor \in 1 .. Len(Members) + 1 /\ cursor <= Len(Members) /\ cursor' = cursor + 1
      /\ Members[cursor] # damaged /\ UNCHANGED <<tree, sealed>>
      /\ out' = IF Keep(Members[cursor]) THEN Append(out, Members[cursor]) ELSE out
  BY DEF StreamMember, IInv, TypeOK
<1>1. out \in Seq(Files) /\ Members[cursor] \notin Archived /\ IsInjective(out) /\ Len(out) < cursor
  BY <1>0, NextPassed DEF OutOK
<1>2. Members[cursor] \in Files /\ (Members[cursor] \in KeptFiles <=> Keep(Members[cursor]))
  BY <1>0, NextPassed DEF KeptFiles
<1>3. /\ out' \in Seq(Files) /\ IsInjective(out') /\ Len(out') <= Len(out) + 1
      /\ Archived' = Archived \cup ({Members[cursor]} \cap KeptFiles)
  BY <1>0, <1>1, <1>2, AppendFacts DEF Archived
<1>4. Len(out') < cursor' /\ Len(out') <= Len(Members)
  BY <1>0, <1>1, <1>3, MemberFacts
<1>5. TypeOK'
  BY <1>0, <1>2, <1>3, <1>4, NextPassed DEF TypeOK, Archived
<1>6. OutOK'
  BY <1>0, <1>3, <1>4, NextPassed DEF IInv, OutOK, WayOK
<1>7. WayOK'
  BY <1>0, WorldKept DEF IInv, WayOK
<1>8. DamageOK' /\ KeptOK'
  BY <1>0, <1>3, NextPassed, WorldKept DEF IInv, DamageOK, KeptOK, WayOK
<1>. QED BY <1>5, <1>6, <1>7, <1>8 DEF IInv

LEMMA StepStreamDone ==
  ASSUME IInv, StreamDone
  PROVE  IInv'
<1>1. UNCHANGED world /\ UNCHANGED <<out, cursor, tree, result>> /\ Archived' = Archived
  BY DEF StreamDone, Archived
<1>2. Passed = Files
  BY PassedFacts DEF IInv, TypeOK, StreamDone
<1>3. damaged = None
  BY <1>2 DEF IInv, WayOK, DamageOK, StreamDone
<1>4. TypeOK' /\ OutOK' /\ WayOK'
  BY <1>1, WorldKept DEF IInv, TypeOK, OutOK, WayOK, StreamDone, States
<1>5. DamageOK'
  BY <1>1, <1>3, WorldKept DEF IInv, DamageOK, WayOK, StreamDone
<1>6. KeptOK'
  BY <1>1, <1>2, WorldKept DEF IInv, KeptOK, WayOK, StreamDone, KeptFiles
<1>. QED BY <1>4, <1>5, <1>6 DEF IInv

\* a failed streaming conversion leaves its output behind, for the packing to remove
LEMMA StepToTree ==
  ASSUME IInv, StreamFails \/ NoStream \/ Prepare
  PROVE  IInv'
<1>1. UNCHANGED world /\ UNCHANGED <<cursor, tree, out, sealed, result>>
  BY DEF StreamFails, NoStream, Prepare
<1>2. pc \in {"start", "stream", "prepare"} /\ pc' \in {"prepare", "extract"} /\ ~CopyThrough
  BY DEF StreamFails, NoStream, Prepare, IInv, WayOK
<1>3. TypeOK' /\ OutOK' /\ WayOK' /\ DamageOK' /\ KeptOK'
  BY <1>1, <1>2, WorldKept DEF IInv, TypeOK, OutOK, WayOK, DamageOK, KeptOK, States
<1>. QED BY <1>3 DEF IInv

LEMMA StepExtract ==
  ASSUME IInv, Extract \/ CliExtract
  PROVE  IInv'
<1>0. /\ UNCHANGED world /\ UNCHANGED <<out, sealed, result>> /\ cursor' = 1 /\ pc = "extract"
      /\ ~CopyThrough /\ damaged \in Files \cup {None} /\ result = "none" /\ result' = "none"
      /\ pc' = IF NeedPostFilter THEN "filter" ELSE "pack"
  BY DEF Extract, CliExtract, Extracted, IInv, WayOK
<1>1. tree' \subseteq Files /\ (~UseGlobs => tree' = Files)
  BY DEF Extract, CliExtract
<1>2. NeedPostFilter => ~UseGlobs
  BY DEF NeedPostFilter
<1>3. damaged = None \/ (FilteredByCli /\ damaged \notin tree')
  BY <1>0 DEF Extract, CliExtract, FilteredByCli
<1>4. TypeOK'
  BY <1>0, <1>1, MemberFacts DEF IInv, TypeOK, States
<1>5. OutOK'
  BY <1>0 DEF IInv, OutOK
<1>6. WayOK'
  BY <1>0, <1>1, <1>2, WorldKept DEF IInv, WayOK
<1>7. DamageOK'
  BY <1>0, <1>3, WorldKept DEF IInv, DamageOK
<1>8. KeptOK'
  <2>. SUFFICES ASSUME GlobsAreExact, ~FilteredByCli, ~NeedPostFilter
                PROVE  KeptFiles \subseteq tree' /\ tree' \subseteq KeptFiles \cup Left
    BY <1>0, WorldKept DEF KeptOK
  <2>1. CASE UseGlobs
    <3>1. Native /\ Extract
      BY <2>1 DEF Extract, CliExtract, FilteredByCli
    <3>2. PICK missed \in {{}, unseen} :
            tree' = {path \in Files : GlobExcluded(filter.rules, path)
                                        => path = stuck \/ path \in missed}
      BY <2>1, <3>1 DEF Extract
    <3>3. \A path \in Files : GlobExcluded(filter.rules, path) <=> ~Keep(path)
      BY <2>1, <3>1 DEF GlobsAreExact
    <3>. QED BY <2>1, <3>2, <3>3 DEF KeptFiles, Left
  <2>2. CASE ~UseGlobs
    BY <1>1, <2>2, NoRulesKeepAll DEF NeedPostFilter
  <2>. QED BY <2>1, <2>2
<1>. QED BY <1>4, <1>5, <1>6, <1>7, <1>8 DEF IInv

LEMMA StepPostFilter ==
  ASSUME IInv, PostFilter
  PROVE  IInv'
<1>0. /\ UNCHANGED world /\ UNCHANGED <<cursor, out, sealed, result>> /\ pc = "filter" /\ pc' = "pack"
      /\ NeedPostFilter /\ tree = Files /\ ~CopyThrough /\ result = "none"
      /\ tree' = {path \in Files : Keep(path) \/ path = stuck}
  BY DEF PostFilter, IInv, WayOK
<1>1. TypeOK' /\ OutOK' /\ WayOK' /\ DamageOK'
  BY <1>0, WorldKept DEF IInv, TypeOK, OutOK, WayOK, DamageOK, States
<1>2. KeptOK'
  BY <1>0, WorldKept DEF KeptOK, KeptFiles, Left
<1>. QED BY <1>1, <1>2 DEF IInv

LEMMA StepStartPack ==
  ASSUME IInv, StartPack
  PROVE  IInv'
<1>0. /\ UNCHANGED world /\ UNCHANGED <<cursor, tree, result>> /\ pc = "pack" /\ pc' = "packing"
      /\ cursor = 1 /\ out' = <<>> /\ Archived' = {} /\ ~CopyThrough /\ result = "none"
  BY EmptyFacts DEF StartPack, IInv, WayOK, Archived
<1>1. Passed' = {}
  BY <1>0, PassedFacts DEF IInv, TypeOK, Passed
<1>2. TypeOK'
  <2>1. ToSet(out') \subseteq Files /\ Len(out') = 0 /\ Len(out') <= Len(Members)
    BY <1>0, EmptyFacts, MemberFacts
  <2>. QED BY <1>0, <2>1 DEF IInv, TypeOK, StartPack, States
<1>3. OutOK'
  BY <1>0, <1>1, EmptyFacts, MemberFacts DEF OutOK
<1>4. WayOK' /\ DamageOK' /\ KeptOK'
  BY <1>0, <1>1, WorldKept DEF IInv, WayOK, DamageOK, KeptOK
<1>. QED BY <1>2, <1>3, <1>4 DEF IInv

LEMMA StepPackFile ==
  ASSUME IInv, PackFile
  PROVE  IInv'
<1>0. /\ UNCHANGED world /\ TypeOK /\ OutOK /\ pc = "packing" /\ pc' = pc /\ result' = result
      /\ cursor \in 1 .. Len(Members) + 1 /\ cursor <= Len(Members) /\ cursor' = cursor + 1
      /\ UNCHANGED <<tree, sealed>>
      /\ out' = IF Members[cursor] \in tree THEN Append(out, Members[cursor]) ELSE out
  BY DEF PackFile, IInv, TypeOK
<1>1. out \in Seq(Files) /\ Members[cursor] \notin Archived /\ IsInjective(out) /\ Len(out) < cursor
  BY <1>0, NextPassed DEF OutOK
<1>2. Members[cursor] \in Files
  BY <1>0, NextPassed
<1>3. /\ out' \in Seq(Files) /\ IsInjective(out') /\ Len(out') <= Len(out) + 1
      /\ Archived' = Archived \cup ({Members[cursor]} \cap tree)
  BY <1>0, <1>1, <1>2, AppendFacts DEF Archived
<1>4. Len(out') < cursor' /\ Len(out') <= Len(Members)
  BY <1>0, <1>1, <1>3, MemberFacts
<1>5. TypeOK'
  BY <1>0, <1>2, <1>3, <1>4, NextPassed DEF TypeOK, Archived
<1>6. OutOK'
  BY <1>0, <1>3, <1>4, NextPassed DEF IInv, OutOK, WayOK
<1>7. WayOK'
  BY <1>0, WorldKept DEF IInv, WayOK
<1>8. DamageOK' /\ KeptOK'
  BY <1>0, <1>3, NextPassed, WorldKept DEF IInv, DamageOK, KeptOK, WayOK
<1>. QED BY <1>5, <1>6, <1>7, <1>8 DEF IInv

LEMMA StepPackUnseen ==
  ASSUME IInv, PackUnseen
  PROVE  IInv'
<1>0. /\ UNCHANGED world /\ UNCHANGED <<tree, out, sealed>> /\ pc = "packing" /\ ~CopyThrough
      /\ cursor \in 1 .. Len(Members) + 1 /\ cursor <= Len(Members)
      /\ Members[cursor] \in unseen /\ result = "none" /\ Archived' = Archived
      /\ pc' = pc /\ result' = result /\ cursor' = cursor + 1
  BY DEF PackUnseen, IInv, TypeOK, WayOK, Archived
<1>1. TypeOK'
  BY <1>0, NextPassed DEF IInv, TypeOK
<1>2. OutOK'
  <2>1. Len(out) < cursor'
    BY <1>0, MemberFacts DEF IInv, OutOK
  <2>. QED BY <1>0, <2>1, NextPassed DEF IInv, OutOK
<1>3. WayOK' /\ DamageOK'
  BY <1>0, WorldKept DEF IInv, WayOK, DamageOK
<1>4. KeptOK'
  BY <1>0, NextPassed, WorldKept DEF IInv, KeptOK, Omitted
<1>. QED BY <1>1, <1>2, <1>3, <1>4 DEF IInv

LEMMA StepPackUnreadable ==
  ASSUME IInv, PackUnreadable
  PROVE  IInv'
<1>0. /\ UNCHANGED world /\ UNCHANGED <<tree, out, sealed>> /\ pc = "packing" /\ ~CopyThrough
      /\ cursor \in 1 .. Len(Members) + 1 /\ cursor <= Len(Members)
      /\ Members[cursor] = unreadable /\ result = "none" /\ Archived' = Archived
  BY DEF PackUnreadable, IInv, TypeOK, WayOK, Archived
<1>1. CASE MayOmit
  <2>1. pc' = pc /\ result' = result /\ cursor' = cursor + 1
    BY <1>1 DEF PackUnreadable
  <2>2. TypeOK'
    BY <1>0, <2>1, NextPassed DEF IInv, TypeOK
  <2>3. OutOK'
    <3>1. Len(out) < cursor'
      BY <1>0, <2>1, MemberFacts DEF IInv, OutOK
    <3>. QED BY <1>0, <2>1, <3>1, NextPassed DEF IInv, OutOK
  <2>5. WayOK' /\ DamageOK'
    BY <1>0, <2>1, WorldKept DEF IInv, WayOK, DamageOK
  <2>4. KeptOK'
    BY <1>0, <1>1, <2>1, NextPassed, WorldKept DEF IInv, KeptOK, Omitted
  <2>. QED BY <2>2, <2>3, <2>4, <2>5 DEF IInv
<1>2. CASE ~MayOmit
  <2>1. pc' = "end" /\ result' = "err" /\ cursor' = cursor
    BY <1>2 DEF PackUnreadable, Fail
  <2>2. TypeOK' /\ OutOK' /\ WayOK' /\ DamageOK' /\ KeptOK'
    BY <1>0, <2>1, WorldKept DEF IInv, TypeOK, OutOK, WayOK, DamageOK, KeptOK, States
  <2>. QED BY <2>2 DEF IInv
<1>. QED BY <1>1, <1>2

LEMMA StepPackDone ==
  ASSUME IInv, PackDone
  PROVE  IInv'
<1>0. /\ UNCHANGED world /\ UNCHANGED <<cursor, out, result>> /\ pc = "packing" /\ pc' = "verify"
      /\ sealed' = TRUE /\ tree' = {} /\ ~CopyThrough /\ result = "none" /\ Archived' = Archived
      /\ Archived \subseteq tree /\ tree \subseteq Files
  BY DEF PackDone, IInv, WayOK, DamageOK, TypeOK, Archived
<1>1. Passed = Files
  BY PassedFacts DEF IInv, TypeOK, PackDone
<1>2. TypeOK' /\ OutOK' /\ WayOK' /\ DamageOK'
  BY <1>0, WorldKept DEF IInv, TypeOK, OutOK, WayOK, DamageOK, States
<1>3. KeptOK'
  BY <1>0, <1>1, WorldKept DEF IInv, KeptOK, KeptFiles
<1>. QED BY <1>2, <1>3 DEF IInv

LEMMA StepVerify ==
  ASSUME IInv, Verify
  PROVE  IInv'
<1>0. /\ UNCHANGED world /\ UNCHANGED <<cursor, tree, out, sealed>> /\ pc = "verify" /\ pc' = "end"
      /\ result' \in {"ok", "err"} /\ Archived' = Archived
      /\ result' = "ok" /\ options.verify => damaged \notin Archived
  BY DEF Verify, Archived
<1>1. TypeOK' /\ OutOK' /\ WayOK' /\ KeptOK'
  BY <1>0, WorldKept DEF IInv, TypeOK, OutOK, WayOK, KeptOK, States
<1>2. DamageOK'
  BY <1>0, WorldKept DEF IInv, DamageOK
<1>. QED BY <1>1, <1>2 DEF IInv

LEMMA StepIInv == IInv /\ [Next]_vars => IInv'
<1>. SUFFICES ASSUME IInv, [Next]_vars PROVE IInv'
  OBVIOUS
<1>1. CASE UNCHANGED vars
  <2>1. UNCHANGED world /\ UNCHANGED <<pc, cursor, tree, out, sealed, result>>
    BY <1>1 DEF vars, world
  <2>2. Passed' = Passed /\ Archived' = Archived
    BY <2>1 DEF Passed, Archived
  <2>. QED BY <2>1, <2>2, WorldKept DEF IInv, TypeOK, OutOK, WayOK, DamageOK, KeptOK
<1>. QED BY <1>1, StepPassthrough, StepFails, StepStartStream, StepStreamMember, StepStreamDone,
            StepToTree, StepExtract, StepPostFilter, StepStartPack, StepPackFile,
            StepPackUnseen, StepPackUnreadable, StepPackDone, StepVerify DEF Next, Terminated

-----------------------------------------------------------------------------
(* The theorems.                                                           *)

(***************************************************************************)
(* convert() keeps to one way at a time, and what it has written, left in  *)
(* the tree or decoded so far is what that way has made sure of.           *)
(***************************************************************************)
THEOREM ConvertInvariant == Spec => []IInv
BY InitIInv, StepIInv, PTL DEF Spec

(***************************************************************************)
(* No cursor of a conversion passes the last member, and no more members   *)
(* are written than there are.                                             *)
(***************************************************************************)
THEOREM ConvertTypes == Spec => []TypeOK
<1>1. IInv => TypeOK
  BY DEF IInv
<1>. QED BY <1>1, ConvertInvariant, PTL

(***************************************************************************)
(* With a filter whose globs, if the native backend uses any, take away    *)
(* just what the filter does not keep, the archive that convert() returns  *)
(* is the filtered one, whichever way was taken and whatever failed before *)
(* it, but for the files that could not be removed, read or met.  (For     *)
(* other filters it is not: see MappedSafely.)                             *)
(***************************************************************************)
THEOREM TheOutputIsFiltered == Spec => [](GlobsAreExact => OutputIsFiltered)
<1>1. IInv => (GlobsAreExact => OutputIsFiltered)
  BY DEF IInv, OutOK, KeptOK, OutputIsFiltered, Archived, Left, Omitted
<1>. QED BY <1>1, ConvertInvariant, PTL

(***************************************************************************)
(* A conversion that succeeds although a member does not decode either is  *)
(* the unverified copy of a whole archive, which has that member too, or   *)
(* gave its globs to the 7z program, which left the member out.            *)
(***************************************************************************)
THEOREM TheDamageIsSeen == Spec => []DamageIsSeen
<1>1. IInv => DamageIsSeen
  <2>. SUFFICES ASSUME IInv, result = "ok", damaged # None
                PROVE  \/ CopyThrough /\ ~options.verify
                       \/ FilteredByCli /\ damaged \notin ToSet(out)
    BY DEF DamageIsSeen
  <2>1. damaged \in Files
    BY DEF IInv, WayOK
  <2>2. CASE CopyThrough
    BY <2>1, <2>2 DEF IInv, DamageOK, Archived, Files
  <2>3. CASE ~CopyThrough
    BY <2>3 DEF IInv, DamageOK, Archived
  <2>. QED BY <2>2, <2>3
<1>. QED BY <1>1, ConvertInvariant, PTL

(***************************************************************************)
(* should_keep_path, which has only the path of a member, decides as an    *)
(* rsync walk does that prunes at each excluded directory from the root on *)
(* (Entered, by recursion on the path).                                    *)
(***************************************************************************)
THEOREM TheFilterIsTheWalk == Spec => []KeepIsTheWalk
<1>1. KeepIsTheWalk
  <2>. SUFFICES ASSUME \A k \in DOMAIN filter.rules : filter.rules[k].syntax = "rsync"
                PROVE  KeptFiles = {path \in Files : Entered[Front(path)] /\ TakesOn(path, FALSE)}
    BY DEF KeepIsTheWalk
  <2>1. ASSUME NEW path \in Files
        PROVE  Keep(path) <=> Entered[Front(path)] /\ TakesOn(path, FALSE)
    <3>1. Entered[Front(path)] <=> Reaches(Front(path))
      BY MembersAreNames, FrontFacts, EnteredIsReached
    <3>2. Keep(path) <=> Reaches(Front(path)) /\ TakesOn(path, FALSE)
      BY KeepIsReached
    <3>. QED BY <3>1, <3>2
  <2>. QED BY <2>1 DEF KeptFiles
<1>. QED BY <1>1, PTL

\* the globs of `(?i)\.ext$' rules say what the rules say
LEMMA SuffixGlobsAreExact ==
  ASSUME NEW rules, DOMAIN rules \subseteq Nat, NEW basename_match, NEW path \in Files,
         \A k \in DOMAIN rules : /\ rules[k].syntax = "regex" /\ rules[k].shape = "suffix"
                                /\ rules[k].fold = TRUE /\ ~rules[k].include
  PROVE  GlobExcluded(rules, path) <=> ~ShouldKeep(rules, path, basename_match)
<1>1. \A dir : DirHits(rules, dir) = {}
  BY DEF DirHits
<1>2. Last(<<Last(path)>>) = Last(path)
  BY DEF Last
<1>3. \A k \in DOMAIN rules :
         Matches(rules[k], path, FALSE, basename_match) <=> SameExt(Last(path), rules[k].text[1], TRUE)
  BY <1>2 DEF Matches, RegexMatches
<1>4. \A k \in DOMAIN rules : \A glob :
         glob \in Globs(rules[k]) <=> glob = [kind |-> "suffix", text |-> rules[k].text]
  BY DEF Globs
<1>5. GlobExcluded(rules, path) <=> \E k \in DOMAIN rules : SameExt(Last(path), rules[k].text[1], TRUE)
  <2>1. \A text : GlobHits([kind |-> "suffix", text |-> text], path) <=> SameExt(Last(path), text[1], TRUE)
    BY DEF GlobHits
  <2>. QED BY <1>4, <2>1 DEF GlobExcluded
<1>6. ShouldKeep(rules, path, basename_match) <=> FileHits(rules, path, basename_match) = {}
  <2>1. FileHits(rules, path, basename_match) \subseteq DOMAIN rules
    BY DEF FileHits
  <2>2. Kept(rules, {})
    BY DEF Kept
  <2>. QED BY <1>1, <2>1, <2>2, FirstRule DEF ShouldKeep
<1>. QED BY <1>3, <1>5, <1>6 DEF FileHits

\* a list of excludes by extension, as in the examples of the repository's README
ByExtension ==
  /\ filter.rules \in Seq(ToSet(filter.rules))
  /\ \A k \in DOMAIN filter.rules :
       /\ filter.rules[k].syntax = "regex" /\ filter.rules[k].shape = "suffix"
       /\ filter.rules[k].fold = TRUE /\ ~filter.rules[k].include

(***************************************************************************)
(* With `--exclude-inner (?i)\.tmp$' and the like the archive that         *)
(* convert() returns is the filtered one, but for the files that could not *)
(* be removed, read or met, with no condition on the globs.                *)
(***************************************************************************)
THEOREM ExtensionFiltersAreExact == Spec => [](ByExtension => OutputIsFiltered)
<1>1. ByExtension => GlobsAreExact
  <2>1. ByExtension => DOMAIN filter.rules \subseteq Nat
    BY DEF ByExtension
  <2>. QED BY <2>1, SuffixGlobsAreExact DEF ByExtension, GlobsAreExact, Keep
<1>. QED BY <1>1, TheOutputIsFiltered, PTL

=============================================================================
