--------------------------- MODULE ConvertPipeline ---------------------------
(***************************************************************************)
(* One conversion job from end to end: execute() of src/pipeline/mod.rs    *)
(* with the extraction, staging and replacement of files it does.          *)
(*                                                                         *)
(* The members of the source archive are extracted in bulk into one        *)
(* directory, or one by one; passthrough members are appended to the outer *)
(* archive first, then the nested ones are staged and converted; the outer *)
(* archive is finished, verified if asked for, and moved over the output.  *)
(* The process may be killed at any step, and run again.                   *)
(*                                                                         *)
(* The content of a member is identified with the member it comes from, so *)
(* that an entry of the outer archive is a pair <<dest, from>>.  The       *)
(* scheduling of the conversions (NestedScheduler) and the bytes of the    *)
(* outer archive (OuterWriter) have modules of their own: here nested jobs *)
(* run in any order, and of the bytes only what a failed push left in the  *)
(* archive and whether each entry can still be read back are kept.         *)
(***************************************************************************)
EXTENDS Naturals, FiniteSets

CONSTANTS
  MemberCount,    \* how many entries of the plan are not Skip
  Nested,         \* those with the action ConvertNested
  BaseName,       \* the last component of a member's source path
  Formats,        \* the values of opts.outer_format
  FaultSets,      \* what may go wrong, one choice per execution
  MaxKills        \* how often the process may be killed (a bound)

Members == 1 .. MemberCount      \* in listing order

\* "collide": the path of one destination is a directory of another one's
FaultKinds == {"bulk", "omit", "extract", "convert", "push", "collide", "seal",
               "test", "remove", "rename", "copy"}

ASSUME PipelineAssumption ==
  /\ MemberCount \in Nat
  /\ Nested \subseteq Members
  /\ \A m, n \in Members : BaseName[m] = BaseName[n] => (m \in Nested <=> n \in Nested)
  /\ Formats \subseteq {"sevenz", "tar", "dir"}
  /\ FaultSets \subseteq SUBSET FaultKinds
  /\ MaxKills \in Nat

None == 0

VARIABLES
  pc,
  verify,             \* opts.verify
  format,             \* opts.outer_format
  faults,             \* what may go wrong in this execution
  bulk,               \* use_solid_pass
  extracted,          \* the members whose extracted file is on disk
  cursor,             \* the entry a loop of execute() is at
  job,                \* nested member -> the member whose file it converts
  nest,               \* how far the job of a nested member is
  archive,            \* the entries appended to the outer archive
  remains,            \* a failed push left bytes, a header or a file in it
  damaged,            \* some appended entry cannot be read back from it
  passthrough_written, passthrough_skipped, nested_converted, nested_skipped,
  output,             \* what is at opts.output
  kills

counts  == <<passthrough_written, passthrough_skipped, nested_converted,
             nested_skipped>>
files   == <<extracted, job>>
outer   == <<archive, remains, damaged>>
options == <<verify, format, faults, kills>>
vars == <<pc, options, bulk, files, cursor, nest, outer, counts, output>>

Ended == {"done", "failed"}

\* The job's state stays in its domains: no cursor or count passes the plan's length.
TypeOK ==
  /\ pc \in {"extracting", "passthrough", "staging", "converting", "closing",
             "verifying", "persisting", "moving", "copying", "killed"} \cup Ended
  /\ verify \in BOOLEAN
  /\ format \in Formats
  /\ faults \in FaultSets
  /\ bulk \in BOOLEAN
  /\ extracted \subseteq Members
  /\ cursor \in 1 .. MemberCount + 1
  /\ job \in [Nested -> Members \cup {None}]
  /\ nest \in [Nested -> {"none", "staged", "converted", "failed", "counted"}]
  /\ archive \subseteq Members \X Members
  /\ remains \in BOOLEAN
  /\ damaged \in BOOLEAN
  /\ passthrough_written \in 0 .. MemberCount
  /\ passthrough_skipped \in 0 .. MemberCount
  /\ nested_converted \in 0 .. MemberCount
  /\ nested_skipped \in 0 .. MemberCount
  /\ output \in {"old", "absent", "partial", "new"}
  /\ kills \in 0 .. MaxKills

\* a new job directory; nothing in it
Init ==
  /\ pc = "extracting"
  /\ verify \in BOOLEAN
  /\ format \in Formats
  /\ faults \in FaultSets
  /\ bulk \in BOOLEAN
  /\ extracted = {}
  /\ cursor = 1
  /\ job = [n \in Nested |-> None]
  /\ nest = [n \in Nested |-> "none"]
  /\ archive = {}
  /\ remains = FALSE
  /\ damaged = FALSE
  /\ passthrough_written = 0
  /\ passthrough_skipped = 0
  /\ nested_converted = 0
  /\ nested_skipped = 0
  /\ output = "old"
  /\ kills = 0

-----------------------------------------------------------------------------
(***************************************************************************)
(* Extraction.  7z answers warnings with an exit code that counts as a     *)
(* success, so a bulk extract that is Ok may have left members out.        *)
(***************************************************************************)
BulkExtract ==
  /\ pc = "extracting" /\ bulk
  /\ extracted' \in IF "omit" \in faults THEN SUBSET Members ELSE {Members}
  /\ pc' = "passthrough"
  /\ UNCHANGED <<options, bulk, job, cursor, nest, outer, counts, output>>

\* mutant: the fallback is not taken
BulkExtractFails_Aborts ==
  /\ pc = "extracting" /\ bulk /\ "bulk" \in faults
  /\ pc' = "failed"
  /\ UNCHANGED <<options, bulk, files, cursor, nest, outer, counts, output>>

\* fall back to one extract per member
BulkExtractFails ==
  /\ pc = "extracting" /\ bulk /\ "bulk" \in faults
  /\ bulk' = FALSE
  /\ pc' = "passthrough"
  /\ UNCHANGED <<options, files, cursor, nest, outer, counts, output>>

NoBulkExtract ==
  /\ pc = "extracting" /\ ~bulk
  /\ pc' = "passthrough"
  /\ UNCHANGED <<options, bulk, files, cursor, nest, outer, counts, output>>

SameName(m) == {k \in extracted : BaseName[k] = BaseName[m]}

\* mutant: any file of that name will do, without a look at the exact path
FindExtracted_ByName(m) == SameName(m)

(***************************************************************************)
(* find_extracted: the file at the member's own path, or else the only one *)
(* with its base name; the set is empty when there is none, or several.    *)
(***************************************************************************)
FindExtracted(m) ==
  IF m \in extracted THEN {m}
  ELSE IF Cardinality(SameName(m)) = 1 THEN SameName(m) ELSE {}

\* where the bytes of member m come from: its file in the bulk extract, or an
\* extract of its own
Sources(m) == IF bulk THEN FindExtracted(m) ELSE {m}

-----------------------------------------------------------------------------
(***************************************************************************)
(* One push to the outer archive (OuterWriter models how).  After what a   *)
(* failed push left behind, a member of a 7z archive is looked for at the  *)
(* wrong place, unless it is empty, and the header of a tar member may be  *)
(* taken for data.  In a directory a file replaces a directory of its name *)
(* with all that was written there, and may then fail to be written.       *)
(***************************************************************************)
Replaces == format = "dir" /\ "collide" \in faults

\* what was in the replaced directory: entries, or only what a failed push left
Replace ==
  /\ remains' \in {remains, FALSE}
  /\ damaged' \in {damaged, damaged \/ archive # {}}

Pushed(dest, from) ==
  /\ archive' = archive \cup {<<dest, from>>}
  /\ \/ UNCHANGED <<remains, damaged>>
     \/ Replaces /\ Replace
     \/ format # "dir" /\ remains /\ damaged' = TRUE /\ UNCHANGED remains

MayNotPush == "push" \in faults \/ Replaces

NotPushed ==
  /\ MayNotPush
  /\ \/ remains' \in {remains, TRUE} /\ UNCHANGED damaged
     \/ Replaces /\ Replace
  /\ UNCHANGED archive

-----------------------------------------------------------------------------
(***************************************************************************)
(* The passthrough loop: stage_passthrough on each entry in listing order. *)
(***************************************************************************)
AtPassthrough == pc = "passthrough" /\ cursor <= MemberCount /\ cursor \notin Nested

PassthroughWritten ==
  /\ AtPassthrough
  /\ \E from \in Sources(cursor) :
        /\ Pushed(cursor, from)
        /\ extracted' = extracted \ {from}
  /\ passthrough_written' = passthrough_written + 1
  /\ cursor' = cursor + 1
  /\ UNCHANGED <<pc, options, bulk, job, nest, passthrough_skipped,
                 nested_converted, nested_skipped, output>>

\* not found, or the extract or the copy fails
PassthroughNotStaged ==
  /\ AtPassthrough
  /\ Sources(cursor) = {} \/ "extract" \in faults
  /\ passthrough_skipped' = passthrough_skipped + 1
  /\ cursor' = cursor + 1
  /\ UNCHANGED <<pc, options, bulk, files, nest, outer, passthrough_written,
                 nested_converted, nested_skipped, output>>

\* mutant: a failed push is counted as written
PassthroughNotPushed_Counted ==
  /\ AtPassthrough /\ NotPushed
  /\ \E from \in Sources(cursor) : extracted' = extracted \ {from}
  /\ passthrough_written' = passthrough_written + 1
  /\ cursor' = cursor + 1
  /\ UNCHANGED <<pc, options, bulk, job, nest, passthrough_skipped,
                 nested_converted, nested_skipped, output>>

\* it was copied out of the bulk extract and cannot be appended
PassthroughNotPushed ==
  /\ AtPassthrough /\ NotPushed
  /\ \E from \in Sources(cursor) : extracted' = extracted \ {from}
  /\ passthrough_skipped' = passthrough_skipped + 1
  /\ cursor' = cursor + 1
  /\ UNCHANGED <<pc, options, bulk, job, nest, passthrough_written,
                 nested_converted, nested_skipped, output>>

\* mutant: the loop does not stop at the last entry
PassthroughNext_PastTheEnd ==
  /\ pc = "passthrough"
  /\ cursor' = cursor + 1
  /\ UNCHANGED <<pc, options, bulk, files, nest, outer, counts, output>>

\* nested entries are left to the next loop
PassthroughNext ==
  /\ pc = "passthrough" /\ cursor \in Nested
  /\ cursor' = cursor + 1
  /\ UNCHANGED <<pc, options, bulk, files, nest, outer, counts, output>>

PassthroughDone ==
  /\ pc = "passthrough" /\ cursor > MemberCount
  /\ pc' = "staging"
  /\ cursor' = 1
  /\ UNCHANGED <<options, bulk, files, nest, outer, counts, output>>

-----------------------------------------------------------------------------
(***************************************************************************)
(* convert_nested_size_aware: stage in listing order, then convert.        *)
(***************************************************************************)
StageNested ==
  /\ pc = "staging" /\ cursor \in Nested
  /\ \E from \in Sources(cursor) :
        /\ job' = [job EXCEPT ![cursor] = from]
        /\ extracted' = extracted \cup {from}
  /\ nest' = [nest EXCEPT ![cursor] = "staged"]
  /\ cursor' = cursor + 1
  /\ UNCHANGED <<pc, options, bulk, outer, counts, output>>

StageNestedSkip ==
  /\ pc = "staging" /\ cursor \in Nested
  /\ Sources(cursor) = {} \/ (~bulk /\ "extract" \in faults)
  /\ nest' = [nest EXCEPT ![cursor] = "counted"]
  /\ nested_skipped' = nested_skipped + 1
  /\ cursor' = cursor + 1
  /\ UNCHANGED <<pc, options, bulk, files, outer, passthrough_written,
                 passthrough_skipped, nested_converted, output>>

StagePassthrough ==
  /\ pc = "staging" /\ cursor <= MemberCount /\ cursor \notin Nested
  /\ cursor' = cursor + 1
  /\ UNCHANGED <<pc, options, bulk, files, nest, outer, counts, output>>

StagingDone ==
  /\ pc = "staging" /\ cursor > MemberCount
  /\ pc' = "converting"
  /\ UNCHANGED <<options, bulk, files, cursor, nest, outer, counts, output>>

\* convert_one_nested_from_file: the converted archive is appended
ConvertNested(n) ==
  /\ pc = "converting" /\ nest[n] = "staged" /\ job[n] \in extracted
  /\ Pushed(n, job[n])
  /\ nest' = [nest EXCEPT ![n] = "converted"]
  /\ UNCHANGED <<pc, options, bulk, files, cursor, counts, output>>

\* the staged file is corrupt or gone, or the push fails
ConvertNestedFails(n) ==
  /\ pc = "converting" /\ nest[n] = "staged"
  /\ \/ (job[n] \notin extracted \/ "convert" \in faults) /\ UNCHANGED outer
     \/ job[n] \in extracted /\ NotPushed
  /\ nest' = [nest EXCEPT ![n] = "failed"]
  /\ UNCHANGED <<pc, options, bulk, files, cursor, counts, output>>

\* the staged file is removed and the outcome counted
CountNested(n) ==
  /\ pc = "converting" /\ nest[n] \in {"converted", "failed"}
  /\ extracted' = extracted \ {job[n]}
  /\ nested_converted' = nested_converted + (IF nest[n] = "converted" THEN 1 ELSE 0)
  /\ nested_skipped'   = nested_skipped + (IF nest[n] = "failed" THEN 1 ELSE 0)
  /\ nest' = [nest EXCEPT ![n] = "counted"]
  /\ UNCHANGED <<pc, options, bulk, job, cursor, outer, passthrough_written,
                 passthrough_skipped, output>>

\* remove_dir_all_quiet(&outer_pass), and the Arc has one owner again
ConvertingDone ==
  /\ pc = "converting"
  /\ \A n \in Nested : nest[n] = "counted"
  /\ extracted' = {}
  /\ pc' = "closing"
  /\ UNCHANGED <<options, bulk, job, cursor, nest, outer, counts, output>>

-----------------------------------------------------------------------------
(***************************************************************************)
(* The end of execute().  Every error return drops JobTemp, and with it    *)
(* whatever was written.                                                   *)
(***************************************************************************)

\* "nothing to write", or finish() fails, or the archive is sealed
Close ==
  /\ pc = "closing"
  /\ pc' \in IF archive = {} THEN {"failed"}
             ELSE {IF verify THEN "verifying" ELSE "persisting"}
                    \cup (IF "seal" \in faults THEN {"failed"} ELSE {})
  /\ UNCHANGED <<options, bulk, files, cursor, nest, outer, counts, output>>

Expected == passthrough_written + nested_converted

\* backend.test decodes each member of a 7z archive
TestFails == format = "sevenz" /\ damaged

(***************************************************************************)
(* What counting finds against what was appended.  The listing of a 7z     *)
(* archive is the one its writer recorded.  What a failed push left in a   *)
(* tar or a directory is counted too, and what was damaged is not: one may *)
(* make up for the other.                                                  *)
(***************************************************************************)
CountMayMatch ==
  /\ Cardinality(archive) = Expected
  /\ format = "tar" /\ remains => damaged
  /\ format = "dir" => (remains <=> damaged)

CountMayDiffer ==
  \/ Cardinality(archive) # Expected
  \/ format = "tar" /\ remains
  \/ format = "dir" /\ (remains \/ damaged)

\* mutant: a 7z archive is only listed, backend.test is left out
Verify_CountOnly ==
  /\ pc = "verifying"
  /\ \/ CountMayMatch /\ pc' = "persisting"
     \/ CountMayDiffer /\ pc' = "failed"
  /\ UNCHANGED <<options, bulk, files, cursor, nest, outer, counts, output>>

\* --verify: 7z is tested and listed, the files of a tar or directory are counted
Verify ==
  /\ pc = "verifying"
  /\ \/ CountMayMatch /\ ~TestFails /\ pc' = "persisting"
     \/ (CountMayDiffer \/ TestFails \/ "test" \in faults) /\ pc' = "failed"
  /\ UNCHANGED <<options, bulk, files, cursor, nest, outer, counts, output>>

\* persist_file and persist_dir: what stands at the destination is removed
RemoveOutput ==
  /\ pc = "persisting"
  /\ \/ pc' = "moving" /\ output' = "absent"
     \/ "remove" \in faults /\ pc' = "failed" /\ UNCHANGED output
  /\ UNCHANGED <<options, bulk, files, cursor, nest, outer, counts>>

\* the rename; on another file system the output is copied instead
MoveOutput ==
  /\ pc = "moving"
  /\ \/ pc' = "done" /\ output' = "new"
     \/ pc' = "copying" /\ output' = "partial"
     \/ "rename" \in faults /\ pc' = "failed" /\ UNCHANGED output
  /\ UNCHANGED <<options, bulk, files, cursor, nest, outer, counts>>

\* mutant: the result of the copy is not looked at
CopyOutput_Unchecked ==
  /\ pc = "copying"
  /\ pc' = "done"
  /\ output' \in {"new"} \cup (IF "copy" \in faults THEN {output} ELSE {})
  /\ UNCHANGED <<options, bulk, files, cursor, nest, outer, counts>>

CopyOutput ==
  /\ pc = "copying"
  /\ \/ pc' = "done" /\ output' = "new"
     \/ "copy" \in faults /\ pc' = "failed" /\ UNCHANGED output
  /\ UNCHANGED <<options, bulk, files, cursor, nest, outer, counts>>

-----------------------------------------------------------------------------
\* the process is killed, and run again with the same arguments (external)
Kill ==
  /\ pc \notin Ended \cup {"killed"} /\ kills < MaxKills
  /\ kills' = kills + 1
  /\ pc' = "killed"
  /\ UNCHANGED <<verify, format, faults, bulk, files, cursor, nest, outer, counts,
                 output>>

Rerun ==
  /\ pc = "killed"
  /\ pc' = "extracting"
  /\ bulk' \in BOOLEAN
  /\ extracted' = {}
  /\ cursor' = 1
  /\ job' = [n \in Nested |-> None]
  /\ nest' = [n \in Nested |-> "none"]
  /\ archive' = {}
  /\ remains' = FALSE
  /\ damaged' = FALSE
  /\ passthrough_written' = 0
  /\ passthrough_skipped' = 0
  /\ nested_converted' = 0
  /\ nested_skipped' = 0
  /\ UNCHANGED <<options, output>>

Terminated == pc \in Ended /\ UNCHANGED vars

Extract     == BulkExtract \/ BulkExtractFails \/ NoBulkExtract
Passthrough == PassthroughWritten \/ PassthroughNotStaged \/ PassthroughNotPushed
                 \/ PassthroughNext \/ PassthroughDone
Stage       == StageNested \/ StageNestedSkip \/ StagePassthrough \/ StagingDone
ConvertAll  ==
  \/ \E n \in Nested : ConvertNested(n) \/ ConvertNestedFails(n) \/ CountNested(n)
  \/ ConvertingDone
Finalize    == Close \/ Verify \/ RemoveOutput \/ MoveOutput \/ CopyOutput

Execute == Extract \/ Passthrough \/ Stage \/ ConvertAll \/ Finalize

Next == Execute \/ Kill \/ Rerun \/ Terminated

Spec == Init /\ [][Next]_vars

\* the job runs on when it is not killed, and is run again when it was
FairSpec == Spec /\ WF_vars(Execute) /\ WF_vars(Rerun)

-----------------------------------------------------------------------------
(***************************************************************************)
(* Properties.                                                             *)
(***************************************************************************)
Appended == {entry[1] : entry \in archive}

(***************************************************************************)
(* The statistics that execute() returns and prints are those of what was  *)
(* appended to the archive: no member is lost without being counted as     *)
(* skipped, and none is counted twice.                                     *)
(***************************************************************************)
StatsAreTrue ==
  pc = "done" =>
    /\ passthrough_written = Cardinality(Appended \ Nested)
    /\ nested_converted = Cardinality(Appended \cap Nested)
    /\ passthrough_written + passthrough_skipped = Cardinality(Members \ Nested)
    /\ nested_converted + nested_skipped = Cardinality(Nested)

(***************************************************************************)
(* Every member of the outer archive has the bytes of the source member of *)
(* that name, whichever way they were extracted, and whatever the order in *)
(* which the shared extract directory was emptied, as long as the bulk     *)
(* extract leaves no member out.                                           *)
(***************************************************************************)
BytesMatchNames ==
  "omit" \notin faults => \A entry \in archive : entry[1] = entry[2]

(***************************************************************************)
(* "missing_bulk_member_is_skipped_others_written": a member that the bulk *)
(* extract left out is not in the output, and costs no other its place.    *)
(***************************************************************************)
MissingMemberIsSkipped == \A entry \in archive : entry[1] = entry[2]

(***************************************************************************)
(* "The job fails only if nothing usable remains to write": when only the  *)
(* extraction and conversion of members may fail, a job that fails has     *)
(* tried every member, none could be appended and each one was counted.    *)
(***************************************************************************)
FailsOnlyWhenEmpty ==
  pc = "failed" /\ faults \subseteq {"bulk", "omit", "extract", "convert"}
    => archive = {} /\ passthrough_skipped + nested_skipped = MemberCount

(***************************************************************************)
(* The old output is untouched until the new one is complete, whatever was *)
(* killed or failed on the way.  With --verify a 7z output in which some   *)
(* entry cannot be read is never put in its place.  A tar or a directory   *)
(* is only counted: a damaged one takes the place of the old output only   *)
(* if something that a failed push left in it made up for what is lost.    *)
(***************************************************************************)
OutputReplacedLast ==
  [][output' # output =>
       /\ \A n \in Nested : nest[n] = "counted"
       /\ archive # {}
       /\ verify /\ damaged => format # "sevenz" /\ remains]_vars

(***************************************************************************)
(* A job ends, and one that ends well leaves the new output in place, even *)
(* after a kill in the middle of the replacement of an earlier one.        *)
(***************************************************************************)
JobEnds == <>[](pc = "failed" \/ (pc = "done" /\ output = "new"))
=============================================================================
