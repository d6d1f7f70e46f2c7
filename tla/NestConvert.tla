----------------------------- MODULE NestConvert -----------------------------
(***************************************************************************)
(* The conversion of one 7z archive to non-solid form,                     *)
(* SevenZSolidToNonSolid::convert (src/convert/sevenz_nonsolid.rs), with   *)
(* either backend: "native" (src/archive/native.rs) or "cli", which starts *)
(* a 7z program (src/archive/sevenz.rs) and does not stream.  There are    *)
(* three ways to the output:                                               *)
(*   - a non-solid archive with no filter is copied;                       *)
(*   - the streaming conversion decodes the archive member by member       *)
(*     (ParallelCodec and DecodeAhead model how);                          *)
(*   - if that is not preferred or fails, the archive is extracted to a    *)
(*     tree, filtered there (by the globs made of the rules, or after the  *)
(*     extraction), and packed again.                                      *)
(* The rules are the inner filter; see MemberFilter.  Members are in the   *)
(* order of the archive, which is taken to be that of their paths.         *)
(***************************************************************************)
EXTENDS MemberFilter, FiniteSets

CONSTANTS
  Members,      \* the paths of the file members, in order
  Filters       \* the filters a job may have: [rules, basename_match]

ASSUME MembersAreDistinct ==
  /\ Members \in Seq(ToSet(Members)) /\ IsInjective(Members)
  /\ \A path \in ToSet(Members) : path \in Seq(ToSet(path)) /\ path # <<>>

Files == ToSet(Members)
None == <<>>

VARIABLES
  filter,       \* ctx.exclude
  options,      \* what the archive, the context and the backend's options say
  damaged,      \* the member that does not decode, or None
  unreadable,   \* the file of the tree that cannot be read back, or None
  stuck,        \* the file of the tree that cannot be removed, or None
  unseen,       \* the files of the tree that a walk over it may not meet
  pc,
  cursor,       \* the next member to decode, or to pack
  tree,         \* the files under work/tree
  out,          \* the members in work/out.7z, in order
  sealed,       \* out.7z has its header
  result        \* what convert() returns: "none" before it does

world == <<filter, options, damaged, unreadable, stuck, unseen>>
vars == <<filter, options, damaged, unreadable, stuck, unseen,
          pc, cursor, tree, out, sealed, result>>

States == {"start", "stream", "prepare", "extract", "filter", "pack", "packing", "verify",
           "end"}

\* the decision of the filter about a member
Keep(path) == ShouldKeep(filter.rules, path, filter.basename_match)
KeptFiles == {path \in Files : Keep(path)}

\* The state of the conversion stays in its domains: no cursor passes the last member.
TypeOK ==
  /\ pc \in States
  /\ cursor \in 1 .. Len(Members) + 1
  /\ tree \subseteq Files
  /\ ToSet(out) \subseteq Files /\ Len(out) <= Len(Members)
  /\ sealed \in BOOLEAN
  /\ result \in {"none", "ok", "err"}

Init ==
  /\ filter \in Filters
  /\ options \in [backend : {"native", "cli"}, solid : BOOLEAN, passthrough_nonsolid : BOOLEAN,
                  prefer_streaming : BOOLEAN, parallel_read : BOOLEAN, verify : BOOLEAN]
  /\ options.parallel_read => options.backend = "native"
  /\ damaged \in Files \cup {None} /\ unreadable \in Files \cup {None}
  /\ stuck \in Files \cup {None}
  /\ unseen \in SUBSET Files
  \* bounds of the model: of the faults of the tree one at a time
  /\ stuck # None => damaged = None /\ unreadable = None
  /\ unseen # {} => damaged = None /\ unreadable = None /\ stuck = None
  /\ pc = "start" /\ cursor = 1
  /\ tree = {} /\ out = <<>> /\ sealed = FALSE
  /\ result = "none"

Fail ==
  /\ pc' = "end" /\ result' = "err"

Native == options.backend = "native"

CopyThrough == ~options.solid /\ filter.rules = <<>> /\ options.passthrough_nonsolid

\* fs::copy, damage and all
Passthrough ==
  /\ pc = "start" /\ CopyThrough
  /\ out' = Members /\ sealed' = TRUE
  /\ pc' = "verify"
  /\ UNCHANGED <<world, cursor, tree, result>>

\* copying, creating a directory, extracting or packing meets an I/O error
Fails ==
  /\ \/ pc = "start" /\ CopyThrough
     \/ pc \in {"prepare", "extract", "filter", "pack", "packing"}
  /\ Fail
  /\ UNCHANGED <<world, cursor, tree, out, sealed>>

StartStream ==
  /\ pc = "start" /\ ~CopyThrough /\ options.prefer_streaming /\ Native
  /\ out' = <<>> /\ sealed' = FALSE        \* prepare_output
  /\ pc' = "stream"
  /\ UNCHANGED <<world, cursor, tree, result>>

\* the next member, kept or not, is decoded; a kept one is written
StreamMember ==
  /\ pc = "stream" /\ cursor <= Len(Members)
  /\ Members[cursor] # damaged
  /\ out' = IF Keep(Members[cursor]) THEN Append(out, Members[cursor]) ELSE out
  /\ cursor' = cursor + 1
  /\ UNCHANGED <<world, pc, tree, sealed, result>>

\* mutant: the end of the archive is counted as a member
StreamDone_CountsTheEnd ==
  /\ pc = "stream" /\ cursor > Len(Members)
  /\ sealed' = TRUE /\ cursor' = cursor + 1
  /\ pc' = "verify"
  /\ UNCHANGED <<world, tree, out, result>>

StreamDone ==
  /\ pc = "stream" /\ cursor > Len(Members)
  /\ sealed' = TRUE
  /\ pc' = "verify"
  /\ UNCHANGED <<world, cursor, tree, out, result>>

\* Err(e): any fault, or Phase 3 left with nothing to write.  What was written stays.
StreamFails ==
  /\ pc = "stream"
  /\ pc' = "prepare"
  /\ UNCHANGED <<world, cursor, tree, out, sealed, result>>

\* the backend does not stream: Ok(false), or it is not asked
NoStream ==
  /\ pc = "start" /\ ~CopyThrough /\ (options.prefer_streaming => ~Native)
  /\ pc' = "prepare"
  /\ UNCHANGED <<world, cursor, tree, out, sealed, result>>

-----------------------------------------------------------------------------
UseGlobs == MapsToGlobs(filter.rules)
NeedPostFilter == filter.rules # <<>> /\ ~UseGlobs

\* create the tree; list, when the filter or the thread policy wants the members
Prepare ==
  /\ pc = "prepare"
  /\ pc' = "extract"
  /\ UNCHANGED <<world, cursor, tree, out, sealed, result>>

Extracted ==
  /\ pc' = IF NeedPostFilter THEN "filter" ELSE "pack"
  /\ cursor' = 1
  /\ UNCHANGED <<world, out, sealed, result>>

\* extract_all decodes every member; extract_all_with_excludes then walks the tree and
\* removes what a glob hits, passing over the errors of the walk and of the removal
Extract ==
  /\ pc = "extract" /\ Native /\ damaged = None
  /\ \E missed \in {{}, unseen} :
       tree' = {path \in Files : UseGlobs /\ GlobExcluded(filter.rules, path)
                                   => path = stuck \/ path \in missed}
  /\ Extracted

\* mutant: no exit code is looked at
CliExtract_AnyCode ==
  /\ pc = "extract" /\ ~Native
  /\ tree' \in (IF UseGlobs THEN SUBSET Files ELSE {Files})
  /\ Extracted

\* `7z x', with the globs as -x! options: what they exclude is up to the program (external),
\* which fails (an exit code above 1) if a member it does extract is damaged
CliExtract ==
  /\ pc = "extract" /\ ~Native
  /\ tree' \in (IF UseGlobs THEN SUBSET Files ELSE {Files})
  /\ damaged \notin tree'
  /\ Extracted

\* what is not kept of the listing is removed, where it can be: the error of a removal is
\* dropped
PostFilter ==
  /\ pc = "filter"
  /\ tree' = {path \in tree : Keep(path) \/ path = stuck}
  /\ pc' = "pack"
  /\ UNCHANGED <<world, cursor, out, sealed, result>>

\* pack_dir of either backend: what the streaming conversion left is removed
StartPack ==
  /\ pc = "pack" /\ cursor = 1
  /\ out' = <<>> /\ sealed' = FALSE
  /\ pc' = "packing"
  /\ UNCHANGED <<world, cursor, tree, result>>

PackFile ==
  /\ pc = "packing" /\ cursor <= Len(Members)
  /\ Members[cursor] \in tree => Members[cursor] # unreadable
  /\ out' = IF Members[cursor] \in tree THEN Append(out, Members[cursor]) ELSE out
  /\ cursor' = cursor + 1
  /\ UNCHANGED <<world, pc, tree, sealed, result>>

\* an error of the walk ends in `filter_map(|e| e.ok())' (and in a warning of `7z a'): what
\* is behind it is not packed
PackUnseen ==
  /\ pc = "packing" /\ cursor <= Len(Members)
  /\ Members[cursor] \in tree \cap unseen
  /\ cursor' = cursor + 1
  /\ UNCHANGED <<world, pc, tree, out, sealed, result>>

\* `fs::read(path).ok()?' of the parallel read, and a warning of `7z a' (the exit code 1
\* passes), leave out a file that cannot be read
MayOmit == options.parallel_read \/ ~Native

\* a file that cannot be read: it is left out, or packing fails
PackUnreadable ==
  /\ pc = "packing" /\ cursor <= Len(Members)
  /\ Members[cursor] \in tree /\ Members[cursor] = unreadable
  /\ IF MayOmit
     THEN /\ cursor' = cursor + 1
          /\ UNCHANGED <<pc, result>>
     ELSE /\ Fail
          /\ UNCHANGED cursor
  /\ UNCHANGED <<world, tree, out, sealed>>

\* the header is written, and the tree removed
PackDone ==
  /\ pc = "packing" /\ cursor > Len(Members)
  /\ sealed' = TRUE /\ tree' = {}
  /\ pc' = "verify"
  /\ UNCHANGED <<world, cursor, out, result>>

\* mutant: an archive that was copied is not tested
Verify_NotTheCopy ==
  /\ pc = "verify"
  /\ \/ (options.verify /\ ~CopyThrough => damaged \notin ToSet(out)) /\ result' = "ok"
     \/ options.verify /\ result' = "err"
  /\ pc' = "end"
  /\ UNCHANGED <<world, cursor, tree, out, sealed>>

\* backend.test decodes every member
Verify ==
  /\ pc = "verify"
  /\ \/ (options.verify => damaged \notin ToSet(out)) /\ result' = "ok"
     \/ options.verify /\ result' = "err"
  /\ pc' = "end"
  /\ UNCHANGED <<world, cursor, tree, out, sealed>>

Terminated == pc = "end" /\ UNCHANGED vars

Next ==
  \/ Passthrough \/ Fails
  \/ StartStream \/ StreamMember \/ StreamDone \/ StreamFails \/ NoStream
  \/ Prepare \/ Extract \/ CliExtract \/ PostFilter
  \/ StartPack \/ PackFile \/ PackUnseen \/ PackUnreadable \/ PackDone
  \/ Verify
  \/ Terminated

Spec == Init /\ [][Next]_vars

-----------------------------------------------------------------------------
(***************************************************************************)
(* Properties.                                                             *)
(***************************************************************************)

FilteredByCli == ~Native /\ UseGlobs

\* what a filtered tree may hold against the filter, and what a pack of the tree may lack
Left ==
  {path \in Files : \/ path = stuck /\ (NeedPostFilter \/ UseGlobs)
                    \/ path \in unseen /\ UseGlobs}
Omitted == unseen \cup (IF MayOmit THEN {unreadable} ELSE {})

\* Whichever of the three ways was taken, an archive that convert() returns is
\* sealed and holds exactly the members the filter keeps, each once: what a failed streaming
\* conversion left is gone and the tree was filtered.  More than that can only be a file
\* that could not be removed, by the globs as after the extraction, or that the walk for
\* the globs did not meet; less, a file that the walk of the packing did not meet, or that
\* the parallel read, or the 7z program, could not read.  Globs given to the 7z program are
\* left to it.
OutputIsFiltered ==
  result = "ok" =>
    /\ sealed /\ IsInjective(out)
    /\ ~FilteredByCli =>
         /\ ToSet(out) \subseteq KeptFiles \cup Left
         /\ KeptFiles \ ToSet(out) \subseteq Omitted

\* A member that does not decode reaches the output only by the copy of a whole
\* archive that nobody asked to verify; a conversion of such an archive fails,
\* even where the filter would have left the member out, unless the 7z program was told
\* to leave it out.
DamageIsSeen ==
  result = "ok" /\ damaged # None =>
    \/ CopyThrough /\ ~options.verify
    \/ FilteredByCli /\ damaged \notin ToSet(out)

\* The keep decision is that of an rsync walk: the walk starts at the root, enters
\* a directory unless the first rule that matches it excludes it, and takes each file
\* of a directory it entered on the same terms.
TakesOn(path, is_dir) ==
  Kept(filter.rules, {k \in DOMAIN filter.rules : RsyncMatches(filter.rules[k], path, is_dir)})

Entered[dir \in Seq(UNION {ToSet(path) : path \in Files})] ==
  dir # <<>> => Entered[Front(dir)] /\ TakesOn(dir, TRUE)

KeepIsTheWalk ==
  (\A k \in DOMAIN filter.rules : filter.rules[k].syntax = "rsync") =>
    KeptFiles = {path \in Files : Entered[Front(path)] /\ TakesOn(path, FALSE)}

\* src/filter/mod.rs:289, "Returns None if any include is present or a pattern
\* cannot be mapped safely": a filter that is mapped to globs gives the archive that
\* the filter itself describes, when every file can be met, read and removed.
MappedSafely ==
  /\ result = "ok" /\ UseGlobs /\ Native
  /\ unreadable = None /\ stuck = None /\ unseen = {}
  => ToSet(out) = KeptFiles
=============================================================================
