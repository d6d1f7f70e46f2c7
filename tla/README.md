# archiveconverter: specifications, model checking and proofs

`archiveconverter` reads an outer archive, converts every solid 7z nested in it
to a non-solid one and writes the result into a new outer archive (7z, tar or a
plain directory). Most of the program is sequential, but what it promises rests
on the parts that are not: a thread pool that starts conversions under a size
budget, several threads that append to one archive file, two decode/encode
pipelines with channels between three threads, and a chain of fallbacks that
must end in the same archive whichever of them ran.

This directory models those parts in TLA+, checks the models with TLC on small
instances, and proves with TLAPS, for every value of their parameters, the properties
of the plan and the staging, the scheduler, the writers, the streaming conversions, the
nested conversion, the filter files with their patterns, and the job. Paths below are relative to the repository.

## 1. Inventory

| Part | Source | State it keeps | Operations | Module |
| --- | --- | --- | --- | --- |
| Nested scheduler | `src/pipeline/mod.rs` 396-712, `src/util/size_parse.rs` | deque of jobs, `running_count`, `running_sum`, `finished`, counts, channel, scoped threads, staged files | stage, sort, serial run, spawn, receive, drain, worker | `NestedScheduler`, `SizePolicy` |
| Outer writers | `src/codec/{store,tar,dir}_writer.rs`, `sevenz_header.rs` | mutex and its poison, file position, header entries, tree, count | push, finish, read back | `OuterWriter`, `SevenZHeader` |
| Phase 3 conversion | `src/archive/native.rs` 170-323, `src/codec/writer.rs` | two channels, pool threads, reorder map, output file | decode, encode, receive, join, finish | `ParallelCodec` |
| Decode-ahead conversion | `src/archive/native.rs` 370-475 | one channel, output | decode, encode, join, finish | `DecodeAhead` |
| Sequential conversion, choice of the three | `src/archive/native.rs` 144-162, 326-365, 592-597 | output | open, replace the output, for each entry, finish | `StreamConvert` |
| Nested conversion | `src/convert/sevenz_nonsolid.rs`, `native.rs` 586-796 | work tree, output | copy, stream, extract, filter, pack, verify | `NestConvert` |
| Member filter | `src/filter/mod.rs`, `rsync.rs` | ordered rules | keep decision, map to globs | `MemberFilter` |
| Rsync patterns, filter files | `src/filter/rsync.rs` 57-520, `src/filter/mod.rs` 40-290 | files being read, lines collected, rules | tokenize, match, load, merge, clear, add each source | `RsyncPattern`, `FilterFiles` |
| Conversion job | `src/pipeline/mod.rs` 54-381, 714-849 | extract directory, outer archive, counts, old output | extract, stage, push, convert, verify, replace | `ConvertPipeline` |
| Listing, plan, rename | `src/pipeline/mod.rs` 30-73, `plan.rs`, `src/filter/rename.rs`, `src/archive/sevenz.rs` 93-130 and 358-509, `src/util/pathnorm.rs` | listing with its metadata, paths seen, entries, renamed paths | list, enrich, check, filter, rename, place | `ConversionPlan` |
| Extraction and staging | `src/pipeline/mod.rs` 86-447 and 714-771, `native.rs` 630-686, `sevenz.rs` 136-213 | bulk directory, members handed to the writer | choose, extract in bulk or alone, find, append | `OuterStaging` |
| Sizes, threads, dictionary property | `src/util/`, `src/codec/mod.rs` | none | pure functions | `can_admit_nested` in `SizePolicy`, `resolve_nested_workers` in `OuterStaging`, the rest left out |
| Codecs, CLI, benchmark | `src/codec/*_codec.rs`, `src/cli.rs`, `src/bin/` | none or external | library calls | not modelled |

How they interact. `run()` lists the outer archive and plans; `execute()` extracts
the members it needs, pushes the passthrough members into the outer writer and hands the nested ones
to the scheduler. Each scheduler thread runs the nested conversion on its staged
file, and pushes the result through the shared `SyncedOuterWriter`. The nested
conversion picks one of three streaming implementations or falls back to
extract-and-pack; the filter is consulted by all of them. When the threads are
done `execute()` takes the writer back with `Arc::try_unwrap`, finishes it,
verifies it if asked and moves it over the old output.

What is hard, and what each part has to guarantee:

* *Plan*: the listing is read from the columns of another program, and one path has
  many spellings; checks, filter and renames come in an order that matters.
  Guarantees: what is executed is the filtered archive, each path once, to distinct
  places inside the output.
* *Staging*: one path may be in the archive several times and be spelt in several
  ways; listing, metadata and bytes are looked up by path in four places with four
  rules. Guarantees: every planned member reaches the writer, with the metadata of the
  member its bytes are from.
* *Filter files*: merges in files that merge others, relative paths, a `clear` that
  reaches back over all of them. Guarantees: the rules are those of the
  unfolded lines, and each refusal has its cause: only a real cycle is one; the matcher does
  what the patterns are documented to mean.
* *Scheduler*: outcomes arrive in any order; the parent's counters are its only
  knowledge of the threads; a mistake shows as a stall, a budget overrun or a
  wrong total. Guarantees: budget and worker cap, smallest first, exact counters,
  no stall, a total that accounts for every entry.
* *Writers*: names and offsets live in one place, bytes in another; I/O errors
  and panics happen between the two. Guarantees: what is read back is what was
  pushed with `Ok`, each push is atomic to a reader, a poisoned archive is never
  sealed.
* *Pipelines*: the end of a channel looks the same whether its sender finished
  or failed; threads may be left behind by an early return. Guarantees: members
  in source order, each once, sealed only when complete, bounded memory, every
  thread ends.
* *Nested conversion*: an output file half written by one path, three different
  encodings of the filter. Guarantee: the same archive whichever path was taken.
* *Job*: fallbacks per member, a shared directory that is emptied while it is
  searched, replacement of a file the user still needs. Guarantees: true
  statistics, bytes under the right name, the old output replaced last.

## 2. Modules

Refinement and composition:

```
SizePolicy <- NestedScheduler   --implements--> NestedBatch
              OuterWriter       --implements--> OuterArchive
              ParallelCodec <- StreamConvert  --implements--> SolidConvert
DecodeAhead   <- StreamConvert
MemberFilter  <- NestConvert
MemberFilter  <- ConversionPlan <- OuterStaging
MemberFilter, RsyncPattern <- FilterFiles
SevenZHeader <- OuterWriter
              ConvertPipeline

NestedScheduler <- NestedSchedulerProofs
StreamConvert   <- StreamConvertProofs
ConvertPipeline <- ConvertPipelineProofs
NestConvert, DataInduction <- NestConvertProofs
OuterWriter, DataInduction <- OuterWriterProofs
OuterStaging, DataInduction <- StagingProofs
FilterFiles, DataInduction <- FilterFilesProofs
```

**`SizePolicy`** - `can_admit_nested` and the `u64` arithmetic of the counters it
reads. `MaxU64` stands for 2^64 - 1.

**`NestedScheduler`** - `pc` is the parent thread's place in
`convert_nested_size_aware` and the runner it chose, `worker[n]` is how far the
scoped thread of job n is, `channel` is `done_tx .. done_rx`. One action per loop
body: `Stage`/`StageSkip` (one entry of the listing), `StartJobs` (the sort, the
clamp of the workers, the choice of serial or parallel), `SerialConvert`,
`SerialCleanup`, `Spawn` (one admitted job), `SchedulerLoop`, `Receive`,
`ScopeEnd`, and `WorkerConvert`/`WorkerRemove`/`WorkerSend` for the closure of
`spawn_one`. `WorkerPanic` and `SerialPanic` are a panic inside a conversion. The code
drops the error when it removes a staged file (the files of `Stuck` stay), and an
extraction that fails leaves what it had written (`StageSkip`).
`Weight` is the sum of the sizes of a set of jobs, a constant with its two laws,
so that proofs need no induction.
**`NestedBatch`** is what the caller sees: entries are resolved once, in any
order, and the report counts what the archive got.

**`OuterWriter`** - producers take the mutex, stream blocks and record a header
entry (7z), write a header and blocks (tar), or replace a path (directory).
`ReadBack` is what a reader of the finished file finds: for 7z, packed streams
found by adding up the sizes before them, as `write_pack_info` lays them out.
Each 7z entry also goes through **`SevenZHeader`**: `write_u64`, the bit sets, the
empty-stream and the optional properties, and a reader of them, over bytes of
`ByteBits` bits so that a handful of files crosses the boundaries that 128 files or
sizes cross in the program. The bits of kEmptyFile are left out: they are all set,
since no directory is written.
**`OuterArchive`** is an archive that members are appended to in one step.

**`ParallelCodec`**, **`DecodeAhead`** - one action per step of each thread, the
channels with their capacity and their closing (a sender is dropped when its
thread ends, a receiver when its owner returns), the joins, and a fault for every
`?` and every call that may panic. rayon's `par_bridge` is external: pool threads
take the next job one at a time and stop after an error.
**`StreamConvert`** is `stream_convert_to_nonsolid`: the choice between these two and
the sequential loop, which it has itself, opening the archive and removing the old
output first. The three share the variables of the source and of the output, so one refinement covers them.
**`SolidConvert`** is what they implement: the kept members
in source order, then `ok` and a sealed archive, or `err` at any time.

**`MemberFilter`** - first match, rsync pruning of directories, `try_7z_exclude_globs`
and `glob_match_simple`. Strings become paths of names and a few shapes of rules,
those that the mapping to globs tells apart. Globs that can match no path when
`glob_match_simple` reads them (`*/name`, `prefix/*/*`) are left out.

**`RsyncPattern`** - `tokenize`, `parse_class`, `parse` and the matcher over sequences of
characters, and beside it the documented meaning of a pattern, written without
recursion over tokens: anchored or base name, directories only, `/***`.
**`FilterFiles`** - `from_cli` with its sources in their order; `load_filter_file` as a
stack of open files with the set `visiting`; `clear`, `merge`, side files, regexes that
do not compile. A line is its leading word, whether a space follows it, and the rest.
Besides `done` the loading ends in one of five ways: the errors for a missing file, an
unreadable one, a cycle, and a text that is not valid, and the panic of
`split_rule_prefix` at a line that begins with a character of several bytes (`Wide`).

**`ConversionPlan`** - `run()` up to `execute()`: the listing of either backend
(`parse_ba_listing` from its columns, with the technical listing as fallback), its
enrichment from the native header, then
the loop of `build_plan` that refuses, filters and keeps (`Scan...`), `transform_all`
with its collision check (`Rename...`) and the destinations (`Place`). A path is the
sequence of names between its slashes, empty ones included, so that leading, double
and trailing slashes, `./`, `..` and drives are there for
`normalize_member_path` and `is_safe_member_path` to treat.
**`OuterStaging`** goes on from the plan: whether to extract in bulk (`UseSolidPass`), what
each backend then leaves in the directory, `find_extracted`, the extraction of one
member, and what is pushed. Bytes, times and attributes are the number of the member they
are from, so an entry shows whether they belong together.

**`NestConvert`** - `SevenZSolidToNonSolid::convert` with either backend:
copy, stream (native only), fall back, extract, filter, pack, verify. `damaged` is a
member that does not decode, `unreadable` a file of the tree that cannot be read back,
`stuck` one that cannot be removed, neither by the globs of the native extraction nor
after it, and `unseen` those that a walk over the tree may miss (the code drops the errors
of the removals and of the walks),
`parallel_read` says that `parallel_pack_read` is set and the tree has more than
32 files.

**`ConvertPipeline`** - `execute()` from extraction to the moved output. An entry
of the outer archive is a pair (destination, source whose bytes it has), so that
a mix-up of files shows. Of the bytes it keeps what a failed push left behind
(`remains`) and whether some appended entry can no longer be read (`damaged`), and both
depend on the format: what follows the remains in a 7z or a tar may be damaged, and in a
directory one destination may replace the directory of another. `Verify` tests and
lists a 7z; a tar or a directory is only counted, and so its count may be right although
it is damaged (`CountMayMatch`). `Kill` is a process kill and `Rerun` the same command
again.

## 3. Runs

| Run | Instance | Shows |
| --- | --- | --- |
| `plan` | 12 archives of awkward, unsafe, repeated, respelt, shadowed and numbered paths, 4 filters, 10 rename lists, both backends, 4 settings | `StagingTypeOK`, `PlanIsTheFilteredArchive`, `DestinationsDistinct`, `RefusedForNamesOnly`, `MetaGoesWithBytes`, `StagedIsPlanned` |
| `plan_listing` | a solid archive with `01 track.7z` and `track.7z` | **violated** `ListingIsExact`: the number is read as a packed size |
| `sched` | 4 nested archives of sizes 3, 1, 2, 1; 1 to 3 workers; budgets 0, 2..5 of a word 0..5; one conversion may panic; the staged files of two entries cannot be removed, and each extraction by itself may fail and leave a part | `TypeOK`, `BudgetRespected`, `WorkersBounded`, `CountersExact`, `StartedInOrder`, `NeverStalls`, `NothingLeftBehind`, refinement of `NestedBatch`, `BatchEnds` |
| `sched_hang` | the same | **violated** `ScopeExits`: a panicking conversion leaves `recv()` waiting for ever |
| `writer` | 3 producers, members of 2, 0 and 4 blocks, all formats; a panic; disk errors in some executions | `TypeOK`, `ReadsBack`, `HeaderReadsBack`, `PoisonIsFinal`, refinement of `OuterArchive` |
| `writer_partial` | 7z, disk errors | **violated** `OtherMembersLand`: bytes of a failed push shift every later member |
| `stream` | 7 entries, 6 kept, in each of the three ways, so more than the windows hold (2 + 2 + 1 and 2 + 2), every fault | `StreamTypeOK`, `NoPackLost`, `MemoryBounded`, refinement of `SolidConvert`, `EveryThreadEnds` |
| `filter` | 4 trees of filter files, 451 command lines; every pattern of up to 3 of the characters `a / * ?` and 20 longer ones, every path of up to 4 characters | `TypeOK`, `RulesAreTheUnfoldedLines`, `RefusedForCause`, `MatchesAsDescribed`, `ShapesReadLikeText` |
| `nest` | 5 members, 19 filters with their `--basename-match`, all options, both backends; of the faults a damaged member and an unreadable file, or one that cannot be removed, or any set of files that a walk misses (5 million states) | `TypeOK`, `OutputIsFiltered`, `DamageIsSeen`, `KeepIsTheWalk` |
| `nest_globs` | the same, filter `junk/` | **violated** `MappedSafely`: the globs reach only the directory at the root |
| `pipeline` | 4 members that share base names in pairs, three formats, every fault, one kill | `TypeOK`, `StatsAreTrue`, `BytesMatchNames`, `FailsOnlyWhenEmpty`, `OutputReplacedLast`, `JobEnds` |
| `pipeline_omit` | the same, a bulk extract may leave members out | **violated** `MissingMemberIsSkipped`: a base name match gives a member another one's bytes |

The runs marked **violated** quote a comment, a document or a test of the
repository that the code does not keep; `PROJECT.json` has the quotation and the
line. They are kept as runs so that they turn green when the code changes.

### Bounds, and why they are enough

* *Plan and staging.* Each archive is a hazard of the paths: spellings that normalise to one
  path, one path twice with and without times, `..` in the middle, a drive, a trailing
  slash, equal base names, numbers, a file where another needs a directory, a directory
  with the path of a file, a file that is found by its base name only.
  The rename lists move a directory onto another, into nothing, through a
  name that ends or begins with a slash, and out of the output. One archive and one
  rename hide a `./` behind a slash (`HidesDot`, below).
* *Scheduler.* Four jobs are the least with a tie, a sort that moves entries, a
  job in flight, one finished and one waiting at once. A word of 0..5 makes
  `running_sum` wrap (3 + 2 + 1 > 5) in the unlimited case and reach its last
  limiting value; budgets below, at and above the largest size are included, so is 0.
  Of the files that cannot be removed one belongs to the largest job and one to one of
  the pair of equal size.
* *Writers.* Three members are the least where a broken one has a neighbour on
  both sides; an empty member (no packed stream) is one of them. With `ByteBits` = 2 a number
  of 2 takes a second byte and a bit set of three files a second one, so counts, sizes
  and bit sets all cross a length.
* *Streaming conversions.* In `stream`, six kept entries are one more than the channel,
  the pool threads and the decoder of Phase 3 hold, and the reorder map gets entries
  behind a gap; the rejected entry makes entry numbers and job numbers differ. `StreamTypeOK` and
  `NoPackLost` bound everything, no state constraint is used.
* *Filter files.* A diamond of merges with a `clear` below it, files of one name in two
  directories, a cycle that does not contain the first file and comes back under another
  spelling, a missing file, one that is not text, a malformed class; a bare line that
  begins with a wide character in a merged file, before a line that is not valid. Two consecutive wildcards with a slash and a letter around them
  are what the matcher's restarts can confuse; that takes three characters, longer
  patterns are given one by one.
* *Nested conversion.* One directory name at the root and below it, a name that
  only begins like it, two spellings of an extension: each member is one that some
  pair of rule and glob could treat differently.
* *Job.* Two members per base name, one pair nested, is what the base name
  fallback needs; one kill (`MaxKills`) with a rerun reaches every cut of the replacement.

### Fairness

Each operating-system thread is weakly fair: the parent and every worker of the
scheduler, the decode, encode and calling threads of the streaming conversions. That is what
the code relies on, and no fairness is assumed of faults or panics. The job is
weakly fair in `Execute` (it runs unless killed) and `Rerun` (a killed
job is run again); with no rerun after a kill, a job in the middle of a replacement
really does leave neither output. The mutex of the outer writer needs none: only
safety is claimed there.

Deadlock checking is on except in the two scheduler runs, whose panicking
conversion really stops the program.

## 4. Proofs

Each theorem holds for every value of the constants that the named assumptions
of its module allow: any number of entries, threads, producers, members, any sizes
and capacities. The inductive invariants stand at the head of the proof modules, or
of the part that uses them; they were checked by TLC on the run of the module before they
were proved, except those of `FilterFilesProofs`, which quantify over all unfoldings and
over sets of lines that TLC cannot enumerate.
`PROJECT.json` lists the theorems with the property each one states.

**`NestedSchedulerProofs`** (`Invariance`, `TypeCorrect`, `CountersAreExact`,
`WorkersAreBounded`, `BudgetIsRespected`, `SchedulerNeverStalls`, `JobsStartInOrder`).
None of the properties is inductive. The budget holds for the
real threads (`Live`) because it holds for `running_sum`; for that,
`running_sum` must be the weight of the jobs between their spawn and the receipt
of their message (`CountersExact`), which contain `Live`; and that needs the
channel to hold each unread outcome exactly once (`ChannelOK`) and the deque
to hold only jobs that were not started (`PendingOK`). That nothing wraps below an
unlimited budget follows because admission keeps the sum within the budget
(`SchedulerOK`) or the job runs alone. No stall: `finished + running_count +
Len(pending) = total`, and `SpawnDone` leaves the loop only when the deque is
empty or the front does not fit, which with nothing running is impossible since an
idle scheduler admits any size and `max_workers >= 1` after the clamp. `IInv`
is the conjunction of these parts; one lemma per action shows that it is
preserved, the worker actions share a frame lemma. Assumed: a word is
0..`MaxU64`, sizes are words, `Weight` is additive over disjoint sets and is the
size on a single job (`WeightAssumption`, which TLC evaluates on the instance).

Its second part (`BooksAreKept`, `NothingIsLeftBehind`, `SchedulerRefines`) adds a
second invariant, `BatchInv`, inductive under `IInv`: for each entry, what the worker has
done, what the parent has read and what the archive and the staging directory hold
agree (`EntryOK`); the counts are the cardinalities of what was seen (`TallyOK`). The
total reported then follows without a sum over the history, and each action is a step
of `NestedBatch` that resolves one entry, or a stutter. `NothingIsLeftBehind` says of the
disk what the code can promise: each job's staged file is gone unless its removal
failed, and the only other files left are of entries whose own extraction failed
(`Partial`). The job directory is dropped with all of them when the job ends.

**`StreamConvertProofs`** (`StreamInvariant`, `StreamTypes`, `NoPackIsLost`,
`MemoryIsBounded`, `StreamRefines`). `written` is the prefix of the kept entries of length
`Len(written)`; everything between decoder and output has a number that continues it:
in the sequential loop one entry, in decode-ahead a queue of consecutive ones, in Phase 3 a set spread
over two channels, pool threads and the reorder map, each number in exactly one of
these places (`ParallelOK`). The refinement needs that a closed channel means success
only when the decoder ended well, which is the other half of `AheadOK` and `ParallelOK`:
what each join can still learn. `MemoryBounded` counts the places by the capacity of
each.

**`ConvertPipelineProofs`** (`PipelineInvariant`, `PipelineTypes`, `TheStatisticsAreTrue`,
`EntriesHaveTheirBytes`, `NothingUsableIsGivenUp`, `OldOutputStaysUntilTheEnd`). `CountsOK`
relates the four counts to the members before the cursor of each loop; `BytesOK` is the
reason why a base name match is safe when the bulk extract is complete: no file
leaves the shared directory before the turn of its own member, so an exact match exists
whenever one is looked for. Both hold through a kill and a rerun. `ArchiveOK` says what
can have damaged an archive, in each format, and what verification has let through: a 7z
that is moved into place after `--verify` is sound, but of a tar or a directory it can only be
said that a damaged one has remains of a failed push in it, for otherwise its count would
have been wrong.

**`NestConvertProofs`** (`ConvertInvariant`, `ConvertTypes`, `TheOutputIsFiltered`,
`ExtensionFiltersAreExact`, `TheDamageIsSeen`, `TheFilterIsTheWalk`). `IInv` says for each
place in either way what tree and output hold of the members passed; that the fallback
starts from nothing is the step that matters. `OutputIsFiltered` depends on data:
whether the globs that are handed to 7z exclude what the rules exclude
(`GlobsAreExact`). The run `nest_globs` shows a filter for which they do not, so
the theorem has it as a hypothesis, `Spec => [](GlobsAreExact => OutputIsFiltered)`, and
`ExtensionFiltersAreExact` shows that every rule list of the documented kind, rules on an
extension, has it, whatever the members. The exceptions `OutputIsFiltered` makes are one
by one the errors that the code drops: an excluded file whose removal failed or that the
walk for the globs missed is packed (`Left`), a kept file that the walk of the packing missed or that could not
be read is not (`Omitted`); `MappedSafely` is claimed without them. `TheDamageIsSeen` says which
conversions of a damaged archive succeed: a copy that nobody verified, which has the
damaged member in it, and the command line backend with globs, whose program left the member out. `KeepIsTheWalk` is an induction over the depth of a path.

**`OuterWriterProofs`** (`WriterInvariant`, `WriterTypes`, `PoisonStaysFinal`,
`FinishedArchiveReadsBack`, `WriterRefines`, `HeadersReadBack`). Mutual exclusion (`MutexOK`) gives that at most one
push is unfinished and that it is the last thing in the file. For 7z, the packed
sizes of the entries before an entry add up to the place where its blocks begin
(`SevenZOK`, with `Offset` an inductively defined sum). For tar, every header is
followed by its blocks and the next header (`TarOK`), so the reader that walks from header
to header is defined and meets exactly the headers. Refinement maps a push to the step that completes it.
`WriterInvariant`, `FinishedArchiveReadsBack` and `WriterRefines` assume
`NamesApart`: no two members have one name, and in a directory none has the name of another's
parent. The first is what the plan guarantees (`DestinationsDistinct`) and the staging keeps
(`NamesAreApart`, below); the second the plan does not, and section 5 names what happens then.

`HeadersReadBack` is about data, for any width of a byte. A number: the leading ones
of the first byte tell how many bytes follow because what is left of the value fits below
them (`TopFacts`, `FollowingFacts`), and after `k` of them the reader has the
value less what is still shifted (`NumberReadsBack`). A bit set: what is added above a bit is a
multiple of twice its weight and what is added below is less than it (`BitReadsBack`).
A list: the n-th number begins where the ones before it end (`NumbersReadBack`), and the n-th
stream or time is that of the file with n bits up to and with its own (`TakenFacts`).
It holds of files that a word can measure and count (`WordAssumption`), and `EntriesOK`,
one entry at most for each member counted, brings it to the files the writer records.

**`StagingProofs`** proves `ConversionPlan` and `OuterStaging` (`PlanInvariant`,
`PlanIsTheArchive`, `DestinationsAreDistinct`, `RefusedForNames`, and
`StagingInvariant`, `StagingTypes`, `MetaAndBytes`, `PlanIsStaged`), for any archives,
filters, renames and settings, either backend. It begins with the paths: what
`normalize_member_path` returns, and that a second call changes nothing unless the path
hides a `./` (`NormalPath`, `Stays`); from these, that `is_safe_member_path` means of a
normal path that it stays inside the output (`SafePaths`).
`IInv` is the plan in the making. Each file the first loop has met has one entry, and
the sources of the entries taken are exactly the wanted paths among those met
(`PlannedOK`); the map of new names belongs to taken entries, is one to one, and has each entry the
second loop has passed (`RenamedOK`), which is why the last loop's lookup never
fails and its destinations are distinct. The native listing is the archive, member by
member, and the metadata of any listed path are those of the last member of the path
(`ListingOK`): that is `enrich_entry_meta`.
`SInv` adds the staging. `ExtractedOK` says of the bulk directory that each file in it is the last
member of its path, and that what no loop has passed is still there: each file is
removed for a source of its own, or was found by its base name and then no other file
had the name. `StagedSoFar` is `StagedIsPlanned` for the entries the loops have passed;
at the end they have passed all. `MetaGoesWithBytes` joins the two halves: both
the metadata and the bytes are the last member's.
`NamesAreApart` composes the two with the writer: no two members that were handed to the
outer writer have one name (`AppendedApart`), which is the first half of the `NamesApart`
that `OuterWriterProofs` assumes of its producers. It is proved only, and follows from
`DestinationsDistinct` and what `StagedSoFar` says of each member handed over.
`PlanAssumption` asks that archives, paths and renames are finite sequences, and that
member names are not empty.

**`FilterFilesProofs`** (`LoaderTypeCorrect`, `RefusedExactlyForCause`,
`RulesInPlaceOfTheirMerges`, `RulesMatchAsDescribed`) takes any trees of filter files, any
options and any alphabet. Three invariants, each inductive with the ones before it:

* `LInv`: each open file is merged by the one below it, and `visiting` is their set, with
  as many elements as there are open files; so taking a file out of `visiting` when it is left
  never opens the way to a file that is still being read.
* `CInv`: everything below what is open has been read and is in order, so a file that is
  refused because it is open merges itself over others (it is in `Reach` of what it
  merges), and when all ends well nothing `Faulty` was in reach. `Reach` is a least set, so
  both directions are shown with sets closed under merging.
* `UInv`: `loaded` is what the files read so far stand for, and for each open file what
  its lines before the present one stand for. What a file stands for is `Unfolded`, with as
  many levels as there are files; a level more changes nothing for a file below which
  no cycle was found, because a chain of merges that is longer than the number of files
  passes one of them twice.

`RefusedExactlyForCause` needs, besides `CInv`, that each way to end the loading early ends in the
state named for what was met (`RefuseFails`); the panic is one of these ways.

`RulesMatchAsDescribed` is about data: `parse_class`, `tokenize`, the matcher and
`Described` are recursive functions on the places of a text. Each is first shown to have a
solution, and only one, on its whole domain (`DownRecursion` and `UpRecursion` of
`DataInduction`); then `match_tokens` is true from a place on exactly when the rest of the text
can be cut into pieces that the rest of the tokens stand for, and a cut from the front (`Described`)
is a cut from the back. The two sides also read a pattern's text differently: `parse`
strips stars, slashes and the anchor in its order, `Meaning` cuts the same text
from the outside. `TripleMatches` shows for `dir/***` that comparing prefixes is the same
as matching the directory against the path and all it is in.
`SetupAssumption` asks that a tree is finite, that its files have canonical paths and that lines and
options are sequences; `AlphabetAssumption` that the signs of patterns are in the alphabet,
each once.

**`DataInduction`** holds the lemmas that the last four proof modules use on recursive functions. An
induction scheme with an operator parameter cannot be instantiated by the installed
provers; `SetInduction` and `BoundedInduction` take the *set* of the numbers for
which the claim holds instead, and rest on the library's `WFMin` (a set with no
minimal element is empty). `LeastElement`, `MinIsLeast` and `MaxIsGreatest` are the
same for the `Min` and `Max` of the models. A recursion is given there as a function from
places to functions of the whole solution, so that existence (`DownRecursion`, `UpRecursion`)
and uniqueness (`DownUnique`, `UpUnique`) are stated for all recursions at once.

Only model-checked:

* all liveness (`BatchEnds`, `EveryThreadEnds`, `JobEnds`): out of the prover's reach, as is
  `ENABLED`;
* `ShapesReadLikeText`: that the shapes `MemberFilter` reasons with stand for the texts of
  patterns. There a name is one character of a text, so the claim is about the instance's own
  rules and names, and an arbitrary set of them would not have it;
* `ListingIsExact` and the four other properties of the runs marked **violated**, which do not hold.

## 5. Not modelled, and why

* Compression, CRC values, coder properties and tar blocks: outcomes only. An archive is
  damaged or it is not.
* The 7z program: external. Its listing is modelled in `ConversionPlan` as far as
  this code parses it; `ConvertPipeline` allows what its exit codes allow: a bulk
  extract that succeeds with members missing.
  In `NestConvert` it fails on a damaged member that it extracts or tests, and only warns
  of a file that it cannot read; what `-x!` excludes is 7z's own, so any part of the tree
  may be left, and `OutputIsFiltered` says nothing of what it holds then.
* Duplicate and unsafe member names inside a nested archive: what the library
  does with them when it extracts is not in this repository.
* Regular expressions of filters (`regex_excludes`): whether one compiles is modelled, what it
  matches only in the shapes of `MemberFilter`. Warnings about rules that are ignored.
* Case (`upper`) only where the code folds it.
* General regular expressions in renames: `^from/`, `^.*/`, `^from$` and `name$` are there.
* The second attempt of the command line backend's `extract_member` (a temporary directory).
* CLI, logging, the thread counts of the encoders, size strings, temp-directory names,
  detection by signature, benchmark.

More disagreements are known and have no run:

* `send()` lets more than `workers` jobs be in flight (`native.rs` 199 and 227; what does
  hold is `MemoryBounded`).
* A directory output in which a member `a` follows `a/b` loses `a/b` (`dir_writer.rs`
  54), so `OuterWriter` is instantiated without such a pair.
* A bare pattern of a filter file that begins with `.` or `:`, such as `.git`, is read as a merge
  (`split_rule_prefix`), while `README.md` 146 calls a bare line an exclude.
* A bare pattern that begins with a character of several bytes panics: `split_rule_prefix`
  (`rsync.rs` 384-388) slices the text after the first byte before it looks at what that
  is, while `README.md` 146 has "bare exclude" among the forms of a rule. The model has
  the panic as an outcome of its own (`panicked`), and `RefusedForCause` says when it comes.
* `*.bak/***`: the rule for `/***` takes the characters before it literally and drops
  the wildcards, while `README.md` 180 and `rsync.rs` 16 speak of any directory pattern;
  `MatchesAsDescribed` leaves such patterns out (`HasMeaning`).
* `a/****`: three stars are taken off the end and `a/*` stays, of which `/***` takes the
  letters only, so the rule is for `a/` and matches nothing, while a run of stars elsewhere counts as `**`
  (`rsync.rs` 161); it is left out in the same way.
* When `a` and `./a` are both stored, the native extraction of one member takes the one that
  is stored as `a`, while the metadata and the bulk extraction take the last; hence the
  condition on spellings in `MetaGoesWithBytes` and `StagedIsPlanned`.
* `normalize_member_path` (`pathnorm.rs` 5-24) strips leading `./` before it collapses
  slashes, so `/./a` becomes `./a` and only a second call makes it `a`, while line 5 has it
  "strip leading `./`". `build_plan` normalises the listed path again, the native bulk
  extraction does not, and so such a member is planned under a name that is not found;
  a rename whose result hides a `./` (`HidesDot`) gives an entry the destination
  `./x` beside another's `x`, which a directory output writes to one place. Hence the
  conditions in `MetaGoesWithBytes`, `StagedIsPlanned` and `DestinationsDistinct`.
* `enrich_entry_meta` (`pipeline/mod.rs` 34-37) has the directories of the native listing
  in its map too, so a file whose path a directory also has gets the directory's times and
  attributes when the directory comes later. The proof of `MetaGoesWithBytes` found it; the archive `Shadowed` has the case, and
  the property the condition `NoDirectoryAt`.
* The command line backend answers `Ok` with an empty file when no member has the name it
  was asked for (`sevenz.rs` 176-190), so a respelt passthrough member is written empty.
* A passthrough member listed without a time gets that of the moment it was copied, not
  that of the extracted file which `sevenz.rs` 402-403 speaks of (`pipeline/mod.rs` 360 and 372).

## 6. Plan

Next, in this order:

1. `ConvertPipeline` behind `OuterStaging`, with the parallel nested jobs of
   `NestedScheduler` pushing into `OuterWriter`.
2. The thread counts of the encoders and of the nested conversion;
   `lzma2_dict_prop` against the size it announces.
