---------------------------- MODULE OuterStaging ----------------------------
(***************************************************************************)
(* From the plan to what is handed to the outer writer: the extraction of  *)
(* the members by either backend (src/archive/), find_extracted,           *)
(* stage_passthrough and the staging half of convert_nested_size_aware     *)
(* (src/pipeline/mod.rs).                                                  *)
(*                                                                         *)
(* The archive may hold one path several times and in several spellings.   *)
(* Listing, metadata and bytes are looked up by path in four places, each  *)
(* of which has a rule of its own for that.  (ConvertPipeline has the      *)
(* counting, the failures and the end of the job, and NestedScheduler and  *)
(* NestConvert what happens to a nested archive after it was staged.)      *)
(***************************************************************************)
EXTENDS ConversionPlan

CONSTANT
  Settings    \* the settings of this instance

(***************************************************************************)
(* Settings are a record [solid, solid_single_pass, nested_concurrency,    *)
(* threads, cpus]: solid says that the archive is, threads is 0 when it    *)
(* was not given.                                                          *)
(***************************************************************************)
ASSUME StagingAssumption ==
  \A s \in Settings : s.nested_concurrency \in Nat /\ s.threads \in Nat /\ s.cpus \in 1 .. 256

VARIABLES
  settings,
  stage,      \* "planning", "passthrough", "nested" or "staged"
  bulk,       \* use_solid_pass
  extracted,  \* the bulk directory: records [path, from, time]
  at,         \* the entry the loop of execute() is at
  appended    \* what goes to the writer: [source, dest, from, meta]

staging == <<settings, stage, bulk, extracted, at, appended>>
allVars == <<vars, staging>>

\* The loops stay in the plan; each entry of it is appended at most once, in the
\* bulk directory no path occurs twice, and bytes are those of files.
StagingTypeOK ==
  /\ TypeOK
  /\ settings \in Settings
  /\ stage \in {"planning", "passthrough", "nested", "staged"}
  /\ bulk \in BOOLEAN
  /\ \A f \in extracted : f.from \in Files /\ f.time \in {MadeUp, {f.from}}
  /\ \A f, g \in extracted : f.path = g.path => f = g
  /\ at \in 1 .. Len(planned) + 1
  /\ \A entry \in ToSet(appended) :
        \E k \in Planned : entry.source = planned[k].source /\ entry.dest = planned[k].dest
  /\ \A i, j \in DOMAIN appended : appended[i].source = appended[j].source => i = j

StagingInit ==
  /\ Init
  /\ settings \in Settings
  /\ stage = "planning"
  /\ bulk = FALSE
  /\ extracted = {}
  /\ at = 1
  /\ appended = <<>>

-----------------------------------------------------------------------------
(***************************************************************************)
(* extract_members: one pass over the archive.  A later member of the same *)
(* path overwrites an earlier one.                                         *)
(***************************************************************************)
Needed == {planned[k].source : k \in Planned}

Latest(members) == {k \in members : \A j \in members :
                      normalize_member_path(archive[j].path)
                        = normalize_member_path(archive[k].path) => j <= k}

\* mutant: a file that is there already is left alone
NativeBulk_FirstStays ==
  LET wanted == {k \in Files : normalize_member_path(archive[k].path) \in Needed}
      First(k) == \A j \in wanted : normalize_member_path(archive[j].path)
                                      = normalize_member_path(archive[k].path) => k <= j
  IN  {[path |-> normalize_member_path(archive[k].path), from |-> k, time |-> MadeUp] :
         k \in {i \in wanted : First(i)}}

\* the native reader compares normalized paths, and its files have the time they
\* were written at
NativeBulk ==
  LET wanted == {k \in Files : normalize_member_path(archive[k].path) \in Needed}
  IN  {[path |-> normalize_member_path(archive[k].path), from |-> k, time |-> MadeUp] :
         k \in Latest(wanted)}

\* create_dir_all or File::create fails: a file is where another needs a directory
InTheWay(files) == \E f, g \in files : IsStrictPrefix(f.path, g.path)

\* 7z x (external): names are compared as they are stored, the name of a directory
\* takes what is below it, and files get their time from the archive
CliBulk ==
  LET wanted == {k \in Files : \E path \in Needed : IsPrefix(path, archive[k].path)}
  IN  {[path |-> archive[k].path, from |-> k,
        time |-> IF archive[k].dated THEN {k} ELSE MadeUp] : k \in Latest(wanted)}

StartLoops == stage' = "passthrough" /\ at' = 1

(***************************************************************************)
(* execute() extracts in bulk when several members are needed from a solid *)
(* archive and it was asked to decode that once, or when several threads   *)
(* will convert.                                                           *)
(***************************************************************************)
resolve_nested_workers ==
  IF settings.nested_concurrency > 0 THEN settings.nested_concurrency
  ELSE IF settings.threads > 0 THEN settings.threads ELSE settings.cpus

NestedPlanned == {k \in Planned : planned[k].action = "ConvertNested"}
max_workers   == IF Cardinality(NestedPlanned) <= 1 THEN 1 ELSE resolve_nested_workers

UseSolidPass ==
  /\ \/ settings.solid_single_pass /\ Cardinality(Planned) > 1
     \/ max_workers > 1 /\ Cardinality(NestedPlanned) > 1
  /\ settings.solid \/ max_workers > 1

Executing == pc = "done" /\ stage = "planning"

NoBulk ==
  /\ Executing /\ ~UseSolidPass
  /\ StartLoops
  /\ UNCHANGED <<vars, settings, bulk, extracted, appended>>

BulkExtract ==
  /\ Executing /\ UseSolidPass
  /\ LET files == IF backend = "native" THEN NativeBulk ELSE CliBulk
     IN  /\ ~InTheWay(files)
         /\ extracted' = files
  /\ bulk' = TRUE
  /\ StartLoops
  /\ UNCHANGED <<vars, settings, appended>>

\* each member is then extracted on its own, and the directory is removed
BulkExtractFails ==
  /\ Executing /\ UseSolidPass
  /\ StartLoops
  /\ UNCHANGED <<vars, settings, bulk, extracted, appended>>

-----------------------------------------------------------------------------
(***************************************************************************)
(* find_extracted: the file at the path, or the only one with its name.    *)
(***************************************************************************)
FindExtracted(path) ==
  LET exact == {f \in extracted : f.path = path}
      named == {f \in extracted : Last(f.path) = Last(path)}
  IN  IF exact # {} THEN exact ELSE IF Cardinality(named) = 1 THEN named ELSE {}

StoredAs(path) == {k \in Files : archive[k].path = path}

(***************************************************************************)
(* extract_member: what one member's file may hold, a sequence of members. *)
(* The native reader looks the name up as it is stored (external: of two   *)
(* such members it has the last).  `7z e -so' (external) writes all that   *)
(* have the name one after the other; that may be none, which is not an    *)
(* error: the file is empty.                                               *)
(***************************************************************************)
ExtractMember(path) ==
  IF backend = "cli" THEN {Subsequence([k \in DOMAIN archive |-> k], StoredAs(path))}
  ELSE IF StoredAs(path) = {} THEN {} ELSE {<<Max(StoredAs(path))>>}

\* FileMeta::from_fs_path
FsMeta(time) == [time |-> time, attrs |-> MadeUp]

Append1(entry, from, time) ==
  appended' = Append(appended, [source |-> entry.source, dest |-> entry.dest,
                                from |-> from, meta |-> Or(entry.meta, FsMeta(time))])

AtEntry(loop, action) ==
  /\ stage = loop /\ at <= Len(planned) /\ planned[at].action = action
  /\ at' = at + 1

\* stage_passthrough copies the file, which gives it a new time, and removes it
PassthroughFromBulk ==
  /\ AtEntry("passthrough", "Passthrough") /\ bulk
  /\ \E f \in FindExtracted(planned[at].source) :
        /\ Append1(planned[at], <<f.from>>, MadeUp)
        /\ extracted' = extracted \ {f}
  /\ UNCHANGED <<vars, settings, stage, bulk>>

PassthroughAlone ==
  /\ AtEntry("passthrough", "Passthrough") /\ ~bulk
  /\ \E from \in ExtractMember(planned[at].source) : Append1(planned[at], from, MadeUp)
  /\ UNCHANGED <<vars, settings, stage, bulk, extracted>>

\* a nested archive is converted where it was extracted
NestedFromBulk ==
  /\ AtEntry("nested", "ConvertNested") /\ bulk
  /\ \E f \in FindExtracted(planned[at].source) : Append1(planned[at], <<f.from>>, f.time)
  /\ UNCHANGED <<vars, settings, stage, bulk, extracted>>

\* an empty file is no archive: its conversion fails
NestedAlone ==
  /\ AtEntry("nested", "ConvertNested") /\ ~bulk
  /\ \E from \in ExtractMember(planned[at].source) \ {<<>>} :
        Append1(planned[at], from, MadeUp)
  /\ UNCHANGED <<vars, settings, stage, bulk, extracted>>

Skippable == IF bulk THEN FindExtracted(planned[at].source) = {}
                     ELSE ExtractMember(planned[at].source) \subseteq {<<>>}

\* log_member_skip, log_nested_skip, for a reason that lies in the names
SkipMember ==
  /\ \/ AtEntry("passthrough", "Passthrough") /\ Skippable
             /\ (bulk \/ ExtractMember(planned[at].source) = {})
     \/ AtEntry("nested", "ConvertNested") /\ Skippable
  /\ UNCHANGED <<vars, settings, stage, bulk, extracted, appended>>

PassOver ==
  /\ \/ \E other \in {"Skip", "ConvertNested"} : AtEntry("passthrough", other)
     \/ \E other \in {"Skip", "Passthrough"} : AtEntry("nested", other)
  /\ UNCHANGED <<vars, settings, stage, bulk, extracted, appended>>

LoopDone ==
  /\ stage \in {"passthrough", "nested"} /\ at > Len(planned)
  /\ stage' = IF stage = "passthrough" THEN "nested" ELSE "staged"
  /\ at' = 1
  /\ UNCHANGED <<vars, settings, bulk, extracted, appended>>

-----------------------------------------------------------------------------
Planning == Build /\ UNCHANGED staging

Staged == (pc = "failed" \/ stage = "staged") /\ UNCHANGED allVars

StagingNext ==
  \/ Planning
  \/ NoBulk \/ BulkExtract \/ BulkExtractFails
  \/ PassthroughFromBulk \/ PassthroughAlone
  \/ NestedFromBulk \/ NestedAlone
  \/ SkipMember \/ PassOver \/ LoopDone
  \/ Staged

StagingSpec == StagingInit /\ [][StagingNext]_allVars

-----------------------------------------------------------------------------
(***************************************************************************)
(* Properties.                                                             *)
(***************************************************************************)

\* no file's path is normalized in two steps
OneStep == \A k \in Files : ~HidesDot(archive[k].path)

\* the files of this path
MembersOf(path) == {k \in Files : normalize_member_path(archive[k].path) = path}

\* each of them is stored under the path itself
OneSpelling(path) == \A k \in MembersOf(path) : archive[k].path = path

\* the archive has no directory of this path (enrich_entry_meta looks at those too)
NoDirectoryAt(path) ==
  \A k \in DOMAIN archive \ Files :
    normalize_member_path(normalize_member_path(archive[k].path)) # path

(***************************************************************************)
(* The times and attributes that a member gets in the output are those of  *)
(* the very member its bytes come from, also when the archive holds the    *)
(* path more than once: the map of enrich_entry_meta and the extraction    *)
(* agree on which one counts.  (Outside the native bulk extract only for   *)
(* paths of one spelling, and nowhere for a path that hides a `./' or is   *)
(* also that of a directory: see the README.)                              *)
(***************************************************************************)
MetaGoesWithBytes ==
  \A entry \in ToSet(appended) :
    readable /\ OneStep /\ NoDirectoryAt(entry.source) /\ Len(entry.from) = 1
      /\ (IF backend = "native" /\ bulk THEN TRUE
          ELSE OneSpelling(entry.source) /\ StoredAs(entry.source) # {})
    => LET k == entry.from[1]
       IN  /\ archive[k].dated => entry.meta.time = {k}
           /\ entry.meta.attrs = {k}

(***************************************************************************)
(* With the native backend nothing is lost for its name: each entry of the *)
(* plan, and nothing else, reaches the writer with the bytes of the last   *)
(* member of its path; extracted one by one, as long as the archive spells *)
(* the path in one way.  (A path that hides a `./' is planned under a name *)
(* that the extraction does not find.)                                     *)
(***************************************************************************)
StagedIsPlanned ==
  backend = "native" /\ stage = "staged" /\ OneStep =>
    \A k \in Planned :
      (bulk \/ OneSpelling(planned[k].source)) =>
        \E entry \in ToSet(appended) :
          /\ entry.dest = planned[k].dest
          /\ entry.from = <<Max(MembersOf(planned[k].source))>>

(***************************************************************************)
(* No two entries reach the outer writer under one name, so that a 7z or a *)
(* tar has no name twice and no file of a directory replaces another: what *)
(* OuterWriter takes of its producers' names.                              *)
(***************************************************************************)
AppendedApart ==
  \A i, j \in DOMAIN appended : appended[i].dest = appended[j].dest => i = j
=============================================================================
