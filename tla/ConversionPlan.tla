--------------------------- MODULE ConversionPlan ---------------------------
(***************************************************************************)
(* From the source archive to the plan of a job: run() of                  *)
(* src/pipeline/mod.rs up to execute(), the listings of the two backends   *)
(* (src/archive/) and build_plan() of src/pipeline/plan.rs.                *)
(*                                                                         *)
(* The files of the listing are taken in turn and skipped or kept; then    *)
(* the kept ones are renamed, which fails the whole job when two would get *)
(* one name; then names that became unsafe are skipped after all.          *)
(*                                                                         *)
(* A path is a sequence of names as in MemberFilter, its text cut at every *)
(* slash (backslashes are turned into slashes before anything is looked    *)
(* at): "/a" begins with the name Blank, "a//b" has it in the middle.      *)
(***************************************************************************)
EXTENDS MemberFilter, FiniteSets

CONSTANTS
  Archives,     \* the archives of this instance: sequences of members
  Filters,      \* the outer filters
  Renames       \* the --rename lists

Plain(text) == [stem |-> text, ext |-> "", upper |-> FALSE]
Blank  == Plain("")
Dot    == Plain(".")
DotDot == Plain("..")
Drive  == Plain("C:")

(***************************************************************************)
(* A member is a record [path, rest, is_dir, packed, summary, dated].      *)
(*   rest      the path without the number, and the space after it, that   *)
(*             it may begin with                                           *)
(*   packed    7z prints a packed size for it (in a solid block only for   *)
(*             the first member)                                           *)
(*   summary   the path reads like the last line of a listing              *)
(*             ("2 files, 1 folders")                                      *)
(*   dated     its times are in the header                                 *)
(*                                                                         *)
(* A FileMeta is a record [time, attrs] of sets: Unknown, MadeUp, or the   *)
(* number of the member whose time or attributes they are.                 *)
(***************************************************************************)
IsSequence(s) == s \in Seq(ToSet(s))

ASSUME PlanAssumption ==
  /\ \A members \in Archives :
       /\ IsSequence(members)
       /\ \A k \in DOMAIN members :
            /\ IsSequence(members[k].path) /\ members[k].path # <<>>
            /\ IsSequence(members[k].rest) /\ Len(members[k].rest) = Len(members[k].path)
            /\ members[k].is_dir \in BOOLEAN
  /\ \A rules \in Renames :
       /\ IsSequence(rules)
       /\ \A k \in DOMAIN rules : IsSequence(rules[k].from) /\ IsSequence(rules[k].to)

Unknown == {}
MadeUp  == {0}     \* the time of the extraction, default attributes

VARIABLES
  pc,
  backend,    \* "cli" or "native"
  readable,   \* the native reader understands the header of the archive
  archive,    \* the members of the source archive
  filter,     \* opts.exclude_outer
  rename,     \* opts.rename
  listing,    \* what list() returned
  cursor,     \* the entry a loop of build_plan is at
  seen_src,   \* the source paths met so far
  planned,    \* the entries of the plan
  rename_map  \* the pairs <<source, destination>> of transform_all

inputs == <<backend, readable, archive, filter, rename>>
vars == <<pc, inputs, listing, cursor, seen_src, planned, rename_map>>

-----------------------------------------------------------------------------
(***************************************************************************)
(* util/pathnorm.rs: leading "./" are stripped, then slashes are collapsed *)
(* and leading ones removed.  The empty path is <<>>.                      *)
(***************************************************************************)
StripDots(path) ==
  LET dots == Max({0} \cup {k \in 1 .. Len(path) - 1 : \A i \in 1 .. k : path[i] = Dot})
  IN  SubSeq(path, dots + 1, Len(path))

\* the elements of a sequence at some positions, in order
Subsequence(seq, positions) ==
  LET out[k \in 0 .. Len(seq)] ==
        IF k = 0 THEN <<>>
        ELSE IF k \in positions THEN Append(out[k - 1], seq[k]) ELSE out[k - 1]
  IN  out[Len(seq)]

normalize_member_path(path) ==
  LET stripped == StripDots(path)
      names    == Subsequence(stripped, {k \in DOMAIN stripped : stripped[k] # Blank})
  IN  IF names # <<>> /\ Last(stripped) = Blank THEN Append(names, Blank) ELSE names

\* mutant: only a path that begins with `..' is refused
is_safe_member_path_LeadingOnly(path) ==
  /\ path # <<>> /\ Head(path) # Blank /\ Head(path) # Drive
  /\ Head(normalize_member_path(path)) # DotDot

\* no absolute path, no drive, no `..' anywhere
is_safe_member_path(path) ==
  /\ path # <<>> /\ Head(path) # Blank /\ Head(path) # Drive
  /\ LET norm == normalize_member_path(path)
     IN  norm # <<>> /\ DotDot \notin ToSet(norm)

\* format_from_path: the extension in either case
IsSevenZ(path) == path # <<>> /\ Last(path).ext = "7z"

-----------------------------------------------------------------------------
(***************************************************************************)
(* list() of the two backends.  The compact listing of the CLI has columns *)
(* separated by spaces: with no packed size, a number that begins the name *)
(* is taken for it.  A line that reads like the summary is passed over.    *)
(* When nothing was listed, the technical listing, which is exact, is used *)
(* instead; like the native one it gives each path as it is stored.        *)
(***************************************************************************)
Entry(path, is_dir, meta) ==
  [path |-> normalize_member_path(path), is_dir |-> is_dir, meta |-> meta,
   seven |-> ~is_dir /\ IsSevenZ(normalize_member_path(path))]

\* the command line prints local times, which are not taken over
Printed == [time |-> Unknown, attrs |-> MadeUp]

\* file_meta_from_entry
file_meta(members, k) ==
  [time |-> IF members[k].dated THEN {k} ELSE Unknown, attrs |-> {k}]

parse_ba_listing(members) ==
  LET lines == Subsequence(members, {k \in DOMAIN members : ~members[k].summary})
  IN  [k \in DOMAIN lines |->
         Entry(IF lines[k].packed THEN lines[k].path ELSE lines[k].rest, lines[k].is_dir,
               Printed)]

parse_slt_listing(members) ==
  LET entries == [k \in DOMAIN members |->
                    Entry(members[k].path, members[k].is_dir, Printed)]
  IN  Subsequence(entries, {k \in DOMAIN entries : entries[k].path # <<>>})

CliListing(members) ==
  IF parse_ba_listing(members) # <<>> THEN parse_ba_listing(members)
                                      ELSE parse_slt_listing(members)

NativeListing(members) ==
  [k \in DOMAIN members |->
     Entry(members[k].path, members[k].is_dir, file_meta(members, k))]

\* the fields of the first, and those of the second where it has none
Or(first, second) ==
  [field \in DOMAIN first |->
     IF first[field] # Unknown THEN first[field] ELSE second[field]]

\* mutant: of two members with one path the first is looked up
enrich_entry_meta_First(entries) ==
  IF ~readable THEN entries
  ELSE LET listed == NativeListing(archive)
           by_path(path) == {k \in DOMAIN listed : normalize_member_path(listed[k].path)
                                                     = normalize_member_path(path)}
       IN  [i \in DOMAIN entries |->
              IF by_path(entries[i].path) = {} THEN entries[i]
              ELSE [entries[i] EXCEPT
                      !.meta = Or(file_meta(archive, Min(by_path(entries[i].path))), @)]]

\* the native listing as a map, in which the last of several members with a path stays
enrich_entry_meta(entries) ==
  IF ~readable THEN entries
  ELSE LET listed == NativeListing(archive)
           by_path(path) == {k \in DOMAIN listed : normalize_member_path(listed[k].path)
                                                     = normalize_member_path(path)}
       IN  [i \in DOMAIN entries |->
              IF by_path(entries[i].path) = {} THEN entries[i]
              ELSE [entries[i] EXCEPT
                      !.meta = Or(file_meta(archive, Max(by_path(entries[i].path))), @)]]

-----------------------------------------------------------------------------
(***************************************************************************)
(* filter/rename.rs.  A rename is a record [shape, from, to] of paths:     *)
(*   prefix   ^from/ = to/    flatten  ^.*/ =                              *)
(*   whole    ^from$ = to     last     (the last name) from$ = to          *)
(***************************************************************************)
Replace(path, rule) ==
  CASE rule.shape = "prefix" /\ IsStrictPrefix(rule.from, path)
         -> rule.to \o SubSeq(path, Len(rule.from) + 1, Len(path))
    [] rule.shape = "flatten" /\ path # <<>> -> <<Last(path)>>
    [] rule.shape = "whole" /\ path = rule.from -> rule.to
    [] rule.shape = "last" /\ path # <<>> /\ Last(path) = rule.from[1]
         -> Front(path) \o rule.to
    [] OTHER -> path

\* the rules, one after the other
Renamed(path) ==
  LET name[k \in 0 .. Len(rename)] ==
        IF k = 0 THEN normalize_member_path(path) ELSE Replace(name[k - 1], rename[k])
  IN  name[Len(rename)]

\* mutant: the result is not normalized again
Transform_Raw(path) == Renamed(path)

Transform(path) == normalize_member_path(Renamed(path))

-----------------------------------------------------------------------------
Reasons == {"empty", "unsafe", "duplicate", "excluded", "unsafe destination", "none"}

\* The inputs are fixed, entries are planned one way, and the loops stay inside their lists.
TypeOK ==
  /\ pc \in {"listing", "scanning", "renaming", "placing", "done", "failed"}
  /\ backend \in {"cli", "native"} /\ readable \in BOOLEAN
  /\ archive \in Archives /\ filter \in Filters /\ rename \in Renames
  /\ cursor \in 1 .. Len(listing) + 1
  /\ Len(planned) <= Len(listing)
  /\ \A k \in DOMAIN planned :
        /\ planned[k].action \in {"Skip", "Passthrough", "ConvertNested"}
        /\ planned[k].reason \in Reasons
        /\ (planned[k].action = "Skip") = (planned[k].reason # "none")
  /\ \A pair \in rename_map : pair[1] \in seen_src /\ pair[2] # <<>>

Init ==
  /\ pc = "listing"
  /\ backend \in {"cli", "native"}
  /\ readable \in BOOLEAN
  /\ archive \in Archives
  /\ filter \in Filters
  /\ rename \in Renames
  /\ listing = <<>>
  /\ cursor = 1
  /\ seen_src = {}
  /\ planned = <<>>
  /\ rename_map = {}

List ==
  /\ pc = "listing"
  /\ backend = "native" => readable
  /\ listing' = enrich_entry_meta(IF backend = "cli" THEN CliListing(archive)
                                                    ELSE NativeListing(archive))
  /\ pc' = "scanning"
  /\ UNCHANGED <<inputs, cursor, seen_src, planned, rename_map>>

\* the archive cannot be read
ListFails ==
  /\ pc = "listing"
  /\ pc' = "failed"
  /\ UNCHANGED <<inputs, listing, cursor, seen_src, planned, rename_map>>

-----------------------------------------------------------------------------
(***************************************************************************)
(* The first loop of build_plan: the checks are made in this order, and a  *)
(* path counts as seen before the filter is asked.                         *)
(***************************************************************************)
Scanning == pc = "scanning" /\ cursor <= Len(listing)
Source   == normalize_member_path(listing[cursor].path)

Plan(action, reason) ==
  planned' = Append(planned, [source |-> Source, dest |-> <<>>, action |-> action,
                              reason |-> reason, meta |-> listing[cursor].meta])

ScanDirectory ==
  /\ Scanning /\ listing[cursor].is_dir
  /\ cursor' = cursor + 1
  /\ UNCHANGED <<pc, inputs, listing, seen_src, planned, rename_map>>

Refused == IF Source = <<>> THEN "empty"
           ELSE IF ~is_safe_member_path(Source) THEN "unsafe"
           ELSE IF Source \in seen_src THEN "duplicate" ELSE "none"

ScanRefused ==
  /\ Scanning /\ ~listing[cursor].is_dir /\ Refused # "none"
  /\ Plan("Skip", Refused)
  /\ cursor' = cursor + 1
  /\ UNCHANGED <<pc, inputs, listing, seen_src, rename_map>>

ScanFile ==
  /\ Scanning /\ ~listing[cursor].is_dir /\ Refused = "none"
  /\ seen_src' = seen_src \cup {Source}
  /\ IF ~ShouldKeep(filter.rules, Source, filter.basename_match)
     THEN Plan("Skip", "excluded")
     ELSE Plan(IF listing[cursor].seven THEN "ConvertNested" ELSE "Passthrough", "none")
  /\ cursor' = cursor + 1
  /\ UNCHANGED <<pc, inputs, listing, rename_map>>

ScanDone ==
  /\ pc = "scanning" /\ cursor > Len(listing)
  /\ pc' = "renaming"
  /\ cursor' = 1
  /\ UNCHANGED <<inputs, listing, seen_src, planned, rename_map>>

-----------------------------------------------------------------------------
(***************************************************************************)
(* transform_all on the kept entries, in order.                            *)
(***************************************************************************)
Renaming    == pc = "renaming" /\ cursor <= Len(planned)
Destination == Transform(planned[cursor].source)

RenameSkipped ==
  /\ Renaming /\ planned[cursor].action = "Skip"
  /\ cursor' = cursor + 1
  /\ UNCHANGED <<pc, inputs, listing, seen_src, planned, rename_map>>

Collides == \E pair \in rename_map : pair[2] = Destination /\ pair[1] # planned[cursor].source

RenameKept ==
  /\ Renaming /\ planned[cursor].action # "Skip"
  /\ Destination # <<>> /\ ~Collides
  /\ rename_map' = rename_map \cup {<<planned[cursor].source, Destination>>}
  /\ cursor' = cursor + 1
  /\ UNCHANGED <<pc, inputs, listing, seen_src, planned>>

\* mutant: the names of skipped members take part
RenameFails_Any ==
  /\ Renaming
  /\ Destination = <<>> \/ Collides
  /\ pc' = "failed"
  /\ UNCHANGED <<inputs, listing, cursor, seen_src, planned, rename_map>>

\* an empty name, or Error::NameCollision
RenameFails ==
  /\ Renaming /\ planned[cursor].action # "Skip"
  /\ Destination = <<>> \/ Collides
  /\ pc' = "failed"
  /\ UNCHANGED <<inputs, listing, cursor, seen_src, planned, rename_map>>

RenameDone ==
  /\ pc = "renaming" /\ cursor > Len(planned)
  /\ pc' = "placing"
  /\ UNCHANGED <<inputs, listing, cursor, seen_src, planned, rename_map>>

\* mutant: the entry of an unsafe destination keeps its action
Placed_ReasonOnly(entry) ==
  LET dest == (CHOOSE pair \in rename_map : pair[1] = entry.source)[2]
  IN  IF entry.action = "Skip" THEN entry
      ELSE IF is_safe_member_path(dest) THEN [entry EXCEPT !.dest = dest]
      ELSE [entry EXCEPT !.reason = "unsafe destination"]

\* the last loop: the destinations are filled in, and unsafe ones skipped
Placed(entry) ==
  LET dest == (CHOOSE pair \in rename_map : pair[1] = entry.source)[2]
  IN  IF entry.action = "Skip" THEN entry
      ELSE IF is_safe_member_path(dest) THEN [entry EXCEPT !.dest = dest]
      ELSE [entry EXCEPT !.action = "Skip", !.reason = "unsafe destination"]

Place ==
  /\ pc = "placing"
  /\ planned' = [k \in DOMAIN planned |-> Placed(planned[k])]
  /\ pc' = "done"
  /\ UNCHANGED <<inputs, listing, cursor, seen_src, rename_map>>

Terminated == pc \in {"done", "failed"} /\ UNCHANGED vars

Build ==
  \/ List \/ ListFails
  \/ ScanDirectory \/ ScanRefused \/ ScanFile \/ ScanDone
  \/ RenameSkipped \/ RenameKept \/ RenameFails \/ RenameDone
  \/ Place

Next == Build \/ Terminated

Spec == Init /\ [][Next]_vars

-----------------------------------------------------------------------------
(***************************************************************************)
(* Properties.                                                             *)
(***************************************************************************)
Files   == {k \in DOMAIN archive : ~archive[k].is_dir}
Stored  == {normalize_member_path(archive[k].path) : k \in Files}
Planned == {k \in DOMAIN planned : planned[k].action # "Skip"}

\* The path has a `./' that a slash hides when leading ones are stripped: "/./a"
\* becomes "./a", which only a second normalization makes "a".
HidesDot(path) ==
  \E k \in 2 .. Len(path) :
    path[k] = Dot /\ path[k - 1] = Blank /\ \A i \in 1 .. k - 1 : path[i] \in {Dot, Blank}

\* what the user asked for: safe paths that the filter keeps
Wanted(paths) ==
  {path \in paths : /\ path # <<>> /\ Head(path) # Drive /\ DotDot \notin ToSet(path)
                    /\ ShouldKeep(filter.rules, path, filter.basename_match)}

(***************************************************************************)
(* The plan made from an exact listing has one entry for each file of the  *)
(* archive, in which every wanted path is taken once and any other entry   *)
(* is skipped; a wanted path is lost only to an unsafe new name.  (The     *)
(* paths of a listing are normalized, and build_plan normalizes again.)    *)
(***************************************************************************)
Sources == {normalize_member_path(path) : path \in Stored}

PlanIsTheFilteredArchive ==
  pc = "done" /\ backend = "native" =>
    LET taken == {k \in DOMAIN planned : planned[k].reason \in {"none", "unsafe destination"}}
    IN  /\ Len(planned) = Cardinality(Files)
        /\ {planned[k].source : k \in taken} = Wanted(Sources)
        /\ Cardinality(taken) = Cardinality(Wanted(Sources))

(***************************************************************************)
(* No two entries that are executed write to one place: their destinations *)
(* are distinct, inside the output, and in normal form (so that different  *)
(* texts are different places, a slash at the end aside) unless the new    *)
(* name hides a leading `./'.                                              *)
(***************************************************************************)
DestinationsDistinct ==
  pc = "done" =>
    \A j, k \in Planned :
      /\ planned[j].dest = planned[k].dest => j = k
      /\ planned[j].dest # <<>> /\ Head(planned[j].dest) # Drive
      /\ DotDot \notin ToSet(planned[j].dest)
      /\ ~HidesDot(Renamed(planned[j].source))
           => normalize_member_path(planned[j].dest) = planned[j].dest

(***************************************************************************)
(* A job whose archive could be listed is refused only for the names of    *)
(* members it would write: two get the same name, or one gets none.        *)
(***************************************************************************)
RefusedForNamesOnly ==
  pc = "failed" /\ listing # <<>> =>
    LET files  == {k \in DOMAIN listing : ~listing[k].is_dir}
        wanted == Wanted({normalize_member_path(listing[k].path) : k \in files})
    IN  \E p, q \in wanted : Transform(p) = <<>> \/ (p # q /\ Transform(p) = Transform(q))

(***************************************************************************)
(* src/archive/sevenz.rs:101, "Cheaper listing via `7z l -ba` (name + size; *)
(* good enough for filters/stats)": the listing names the archive's files. *)
(***************************************************************************)
ListingIsExact ==
  listing # <<>> => {listing[k].path : k \in {i \in DOMAIN listing : ~listing[i].is_dir}} = Stored
=============================================================================
