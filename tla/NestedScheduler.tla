-------------------------- MODULE NestedScheduler --------------------------
(***************************************************************************)
(* The size-aware conversion of nested archives:                           *)
(* convert_nested_size_aware, convert_nested_serial_ordered and            *)
(* convert_nested_parallel_budget of src/pipeline/mod.rs.                  *)
(*                                                                         *)
(* A parent thread stages every nested archive on disk, sorts the jobs by  *)
(* size, and either converts them one by one or runs a scheduler that      *)
(* spawns one scoped thread per job, as far as the number of workers and   *)
(* the size budget allow, and hears from each through an unbounded mpsc    *)
(* channel.  A worker converts its archive, appends the result to the      *)
(* outer archive, removes the staged file and sends its outcome.           *)
(*                                                                         *)
(* What a conversion does inside is abstracted to its outcome: the archive *)
(* is appended, the archive is skipped, or (for the members of MayPanic)   *)
(* the thread panics and its clone of done_tx is dropped unsent.  Each     *)
(* staged file is removed once, and an error of that removal is dropped:   *)
(* the files of Stuck stay.                                                *)
(***************************************************************************)
EXTENDS SizePolicy, FiniteSets, Sequences

CONSTANTS
  NestCount,    \* how many nested entries the plan has
  ListedSize,   \* entry.size, as the archive listing gives it (0: not given)
  DiskSize,     \* the length of the staged file
  Weight,       \* the sum of the sizes of a set of jobs
  MaxWorkers,   \* the values of the argument max_workers
  Budgets,      \* the values of the argument size_budget
  MayPanic,     \* the nested entries whose conversion may panic
  Stuck         \* those whose staged file cannot be removed again

Nested == 1 .. NestCount    \* an entry is its index in the listing

JobSize(n) == IF ListedSize[n] > 0 THEN ListedSize[n] ELSE DiskSize[n]

ASSUME NestCountAssumption == NestCount \in Nat

ASSUME SizeAssumption ==
  /\ ListedSize \in [Nested -> U64]
  /\ DiskSize \in [Nested -> U64]

\* Weight is the sum of the sizes: additive, and the size itself on one job
ASSUME WeightAssumption ==
  /\ Weight \in [SUBSET Nested -> Nat]
  /\ \A n \in Nested : Weight[{n}] = JobSize(n)
  /\ \A S, T \in SUBSET Nested :
        S \cap T = {} => Weight[S \cup T] = Weight[S] + Weight[T]

ASSUME ArgumentAssumption ==
  /\ MaxWorkers \subseteq Nat
  /\ Budgets \subseteq U64
  /\ MayPanic \subseteq Nested
  /\ Stuck \subseteq Nested

VARIABLES
  pc,             \* where the parent thread is
  max_workers,    \* the argument, clamped to 1 .. jobs.len() by StartJobs
  size_budget,    \* the argument
  use_solid_pass, \* the argument: the sources were bulk extracted before
  cursor,         \* the next entry of the listing to stage
  pending,        \* `jobs` while staging and sorting, then the VecDeque
  total,          \* jobs.len()
  running_count, running_sum, finished, converted, skipped, stage_skipped,
  channel,        \* done_tx .. done_rx: the jobs whose outcome was sent
  worker,         \* how far the thread of a job is, and whether recv() saw it
  result,         \* the outcome of convert_one_nested_from_file
  staged,         \* the staged files that are on disk
  outer,          \* the nested entries the outer archive holds
  report          \* the counts returned to execute()

args     == <<max_workers, size_budget, use_solid_pass>>
counters == <<running_count, running_sum, finished, converted, skipped>>
staging  == <<cursor, stage_skipped, total>>
world    == <<worker, result, staged, outer>>
vars == <<pc, args, pending, counters, staging, channel, world, report>>

ParentStates == {"staging", "sorting", "serial", "serial_cleanup", "spawning",
                 "scheduling", "receiving", "draining", "returned", "unwound"}

WorkerStates == {"none", "converting", "removing", "sending", "sent",
                 "received", "panicked"}

NoReport == [converted |-> 0, skipped |-> 0, returned |-> FALSE]

\* Every variable of the three functions stays in its domain; running_sum is a u64.
TypeOK ==
  /\ pc \in ParentStates
  /\ max_workers \in Nat
  /\ size_budget \in U64
  /\ use_solid_pass \in BOOLEAN
  /\ cursor \in 1 .. NestCount + 1
  /\ pending \in Seq(Nested)
  /\ total \in Nat
  /\ running_count \in Nat
  /\ running_sum \in U64
  /\ finished \in Nat
  /\ converted \in Nat
  /\ skipped \in Nat
  /\ stage_skipped \in Nat
  /\ channel \in Seq(Nested)
  /\ worker \in [Nested -> WorkerStates]
  /\ result \in [Nested -> {"none", "ok", "err", "unstaged"}]
  /\ staged \in SUBSET Nested
  /\ outer \in SUBSET Nested
  /\ report \in [converted : Nat, skipped : Nat, returned : BOOLEAN]

Init ==
  /\ pc = "staging"
  /\ max_workers \in MaxWorkers
  /\ size_budget \in Budgets
  /\ use_solid_pass \in BOOLEAN
  /\ cursor = 1
  /\ pending = <<>>
  /\ total = 0
  /\ running_count = 0
  /\ running_sum = 0
  /\ finished = 0
  /\ converted = 0
  /\ skipped = 0
  /\ stage_skipped = 0
  /\ channel = <<>>
  /\ worker = [n \in Nested |-> "none"]
  /\ result = [n \in Nested |-> "none"]
  /\ staged = {}
  /\ outer = {}
  /\ report = NoReport

-----------------------------------------------------------------------------
(***************************************************************************)
(* convert_nested_size_aware: materialise the sources, sort, choose.       *)
(***************************************************************************)

\* the entry is found in the bulk extract, or extracted on its own
Stage ==
  /\ pc = "staging" /\ cursor <= NestCount
  /\ staged' = staged \cup {cursor}
  /\ pending' = Append(pending, cursor)
  /\ cursor' = cursor + 1
  /\ UNCHANGED <<pc, args, total, counters, stage_skipped, channel, worker,
                 result, outer, report>>

(***************************************************************************)
(* It is not in the bulk extract, or cannot be extracted: logged and       *)
(* skipped.  An extraction that fails may already have created its         *)
(* pre-NNNN.7z, which nobody removes: it is no job.                        *)
(***************************************************************************)
StageSkip ==
  /\ pc = "staging" /\ cursor <= NestCount
  /\ stage_skipped' = stage_skipped + 1
  /\ result' = [result EXCEPT ![cursor] = "unstaged"]
  /\ \/ UNCHANGED staged
     \/ ~use_solid_pass /\ staged' = staged \cup {cursor}
  /\ cursor' = cursor + 1
  /\ UNCHANGED <<pc, args, pending, total, counters, channel, worker, outer,
                 report>>

StagingDone ==
  /\ pc = "staging" /\ cursor > NestCount
  /\ pc' = "sorting"
  /\ UNCHANGED <<args, pending, counters, staging, channel, world, report>>

\* the order of jobs.sort_by: size, then listing order
Before(m, n) ==
  \/ JobSize(m) < JobSize(n)
  \/ JobSize(m) = JobSize(n) /\ m < n

SmallestFirst(seq) == \A i, j \in 1 .. Len(seq) : i < j => Before(seq[i], seq[j])

\* mutant: the jobs are not sorted
StartJobs_Unsorted ==
  /\ pc = "sorting"
  /\ total' = Len(pending)
  /\ max_workers' =
        LET atLeastOne == IF max_workers < 1 THEN 1 ELSE max_workers
        IN  IF atLeastOne > Len(pending) THEN Len(pending) ELSE atLeastOne
  /\ IF pending = <<>>
     THEN /\ report' = [converted |-> 0, skipped |-> stage_skipped,
                        returned |-> TRUE]
          /\ pc' = "returned"
     ELSE /\ pc' = IF max_workers' = 1 THEN "serial" ELSE "spawning"
          /\ UNCHANGED report
  /\ UNCHANGED <<size_budget, use_solid_pass, cursor, stage_skipped, pending,
                 counters, channel, world>>

\* sort; an empty list returns at once; clamp the workers; choose the runner
StartJobs ==
  /\ pc = "sorting"
  /\ \E sorted \in [1 .. Len(pending) -> {pending[i] : i \in 1 .. Len(pending)}] :
        /\ SmallestFirst(sorted)
        /\ pending' = sorted
  /\ total' = Len(pending)
  /\ max_workers' =
        LET atLeastOne == IF max_workers < 1 THEN 1 ELSE max_workers
        IN  IF atLeastOne > Len(pending) THEN Len(pending) ELSE atLeastOne
  /\ IF pending = <<>>
     THEN /\ report' = [converted |-> 0, skipped |-> stage_skipped,
                        returned |-> TRUE]
          /\ pc' = "returned"
     ELSE /\ pc' = IF max_workers' = 1 THEN "serial" ELSE "spawning"
          /\ UNCHANGED report
  /\ UNCHANGED <<size_budget, use_solid_pass, cursor, stage_skipped, counters,
                 channel, world>>

-----------------------------------------------------------------------------
(***************************************************************************)
(* convert_one_nested_from_file, down to its outcome.                      *)
(***************************************************************************)
Convert(n) ==
  \/ /\ result' = [result EXCEPT ![n] = "ok"]
     /\ outer' = outer \cup {n}
  \/ /\ result' = [result EXCEPT ![n] = "err"]
     /\ UNCHANGED outer

\* converted += 1, or log_nested_skip and skipped += 1
Count(outcome) ==
  /\ converted' = converted + (IF outcome = "ok" THEN 1 ELSE 0)
  /\ skipped'   = skipped + (IF outcome = "ok" THEN 0 ELSE 1)

\* mutant: the entries skipped while staging are forgotten
Report_ForgetsStaging ==
  report' = [converted |-> converted, skipped |-> skipped, returned |-> TRUE]

\* the return of either runner; the caller adds what staging skipped
Report ==
  report' = [converted |-> converted, skipped |-> skipped + stage_skipped,
             returned |-> TRUE]

-----------------------------------------------------------------------------
(***************************************************************************)
(* convert_nested_serial_ordered: the parent does the work itself.         *)
(***************************************************************************)
SerialConvert ==
  /\ pc = "serial" /\ pending # <<>>
  /\ LET n == Head(pending) IN
        /\ Convert(n)
        /\ Count(result'[n])
  /\ pc' = "serial_cleanup"
  /\ UNCHANGED <<args, pending, running_count, running_sum, finished, staging,
                 channel, worker, staged, report>>

SerialCleanup ==
  /\ pc = "serial_cleanup"
  /\ LET n == Head(pending) IN
        /\ staged' = staged \ ({n} \ Stuck)
        /\ worker' = [worker EXCEPT ![n] = "received"]
  /\ pending' = Tail(pending)
  /\ pc' = "serial"
  /\ UNCHANGED <<args, counters, staging, channel, result, outer, report>>

SerialReturn ==
  /\ pc = "serial" /\ pending = <<>>
  /\ Report
  /\ pc' = "returned"
  /\ UNCHANGED <<args, pending, counters, staging, channel, world>>

\* nothing catches a panic of the parent: the program unwinds
SerialPanic ==
  /\ pc = "serial" /\ pending # <<>> /\ Head(pending) \in MayPanic
  /\ pc' = "unwound"
  /\ UNCHANGED <<args, pending, counters, staging, channel, world, report>>

-----------------------------------------------------------------------------
(***************************************************************************)
(* convert_nested_parallel_budget, the parent.  try_spawn is a loop of     *)
(* Spawn steps ended by SpawnDone; its second admission test repeats the   *)
(* first one on the same values, since only the parent writes them.        *)
(***************************************************************************)
FrontSize == IF pending = <<>> THEN 0 ELSE JobSize(Head(pending))

CanAdmit ==
  CanAdmitNested(running_sum, running_count, FrontSize, size_budget, max_workers)

\* mutant: one job per call, `if` in place of `while`
Spawn_OnlyOne ==
  /\ pc = "spawning" /\ CanAdmit /\ pending # <<>>
  /\ LET n == Head(pending) IN
        /\ running_sum' = WrappingAdd(running_sum, JobSize(n))
        /\ worker' = [worker EXCEPT ![n] = "converting"]
  /\ running_count' = running_count + 1
  /\ pending' = Tail(pending)
  /\ pc' = "scheduling"
  /\ UNCHANGED <<args, finished, converted, skipped, staging, channel, result,
                 staged, outer, report>>

Spawn ==
  /\ pc = "spawning" /\ CanAdmit /\ pending # <<>>
  /\ LET n == Head(pending) IN
        /\ running_sum' = WrappingAdd(running_sum, JobSize(n))
        /\ worker' = [worker EXCEPT ![n] = "converting"]
  /\ running_count' = running_count + 1
  /\ pending' = Tail(pending)
  /\ UNCHANGED <<pc, args, finished, converted, skipped, staging, channel,
                 result, staged, outer, report>>

SpawnDone ==
  /\ pc = "spawning" /\ ~(CanAdmit /\ pending # <<>>)
  /\ pc' = "scheduling"
  /\ UNCHANGED <<args, pending, counters, staging, channel, world, report>>

\* mutant: the loop never gets to recv()
SchedulerLoop_NeverReceives ==
  /\ pc = "scheduling"
  /\ pc' = IF finished >= total THEN "draining" ELSE "spawning"
  /\ UNCHANGED <<args, pending, counters, staging, channel, world, report>>

(***************************************************************************)
(* The head of `while finished < total`.  With nothing running it leaves   *)
(* the loop when nothing is pending, and tries to spawn again otherwise.   *)
(***************************************************************************)
SchedulerLoop ==
  /\ pc = "scheduling"
  /\ pc' = IF finished >= total THEN "draining"
           ELSE IF running_count > 0 THEN "receiving"
           ELSE IF pending = <<>> THEN "draining" ELSE "spawning"
  /\ UNCHANGED <<args, pending, counters, staging, channel, world, report>>

\* mutants: running_sum is not given back; try_spawn is not called again
Receive_KeepsSum ==
  /\ pc = "receiving" /\ channel # <<>>
  /\ Count(result[Head(channel)])
  /\ worker' = [worker EXCEPT ![Head(channel)] = "received"]
  /\ running_count' = SaturatingSub(running_count, 1)
  /\ finished' = finished + 1
  /\ channel' = Tail(channel)
  /\ pc' = "spawning"
  /\ UNCHANGED <<args, pending, running_sum, staging, result, staged, outer,
                 report>>

Receive_NoRespawn ==
  /\ pc = "receiving" /\ channel # <<>>
  /\ LET n == Head(channel) IN
        /\ running_sum' = SaturatingSub(running_sum, JobSize(n))
        /\ Count(result[n])
        /\ worker' = [worker EXCEPT ![n] = "received"]
  /\ running_count' = SaturatingSub(running_count, 1)
  /\ finished' = finished + 1
  /\ channel' = Tail(channel)
  /\ pc' = "scheduling"
  /\ UNCHANGED <<args, pending, staging, result, staged, outer, report>>

(***************************************************************************)
(* recv() returns an outcome.  It could also fail with every sender gone,  *)
(* which the code answers with "nested worker channel closed early"; but   *)
(* the parent holds done_tx itself until after the drain, so recv() blocks *)
(* instead, and there is no such step.                                     *)
(***************************************************************************)
Receive ==
  /\ pc = "receiving" /\ channel # <<>>
  /\ LET n == Head(channel) IN
        /\ running_sum' = SaturatingSub(running_sum, JobSize(n))
        /\ Count(result[n])
        /\ worker' = [worker EXCEPT ![n] = "received"]
  /\ running_count' = SaturatingSub(running_count, 1)
  /\ finished' = finished + 1
  /\ channel' = Tail(channel)
  /\ pc' = "spawning"
  /\ UNCHANGED <<args, pending, staging, result, staged, outer, report>>

(***************************************************************************)
(* The drain waits for running_count messages (there are none, see         *)
(* NeverStalls), done_tx is dropped, the scope joins its threads and the   *)
(* counts are returned, or an error when finished # total (never either).  *)
(***************************************************************************)
ScopeEnd ==
  /\ pc = "draining" /\ running_count = 0 /\ finished = total
  /\ \A n \in Nested : worker[n] \notin {"converting", "removing", "sending"}
  /\ Report
  /\ pc' = "returned"
  /\ UNCHANGED <<args, pending, counters, staging, channel, world>>

-----------------------------------------------------------------------------
(***************************************************************************)
(* convert_nested_parallel_budget, the thread of job n.                    *)
(***************************************************************************)
WorkerConvert(n) ==
  /\ worker[n] = "converting"
  /\ Convert(n)
  /\ worker' = [worker EXCEPT ![n] = "removing"]
  /\ UNCHANGED <<pc, args, pending, counters, staging, channel, staged, report>>

\* mutant: the staged file is only removed after a success
WorkerRemove_OnlyOk(n) ==
  /\ worker[n] = "removing"
  /\ staged' = IF result[n] = "ok" THEN staged \ ({n} \ Stuck) ELSE staged
  /\ worker' = [worker EXCEPT ![n] = "sending"]
  /\ UNCHANGED <<pc, args, pending, counters, staging, channel, result, outer,
                 report>>

WorkerRemove(n) ==
  /\ worker[n] = "removing"
  /\ staged' = staged \ ({n} \ Stuck)
  /\ worker' = [worker EXCEPT ![n] = "sending"]
  /\ UNCHANGED <<pc, args, pending, counters, staging, channel, result, outer,
                 report>>

WorkerSend(n) ==
  /\ worker[n] = "sending"
  /\ channel' = Append(channel, n)
  /\ worker' = [worker EXCEPT ![n] = "sent"]
  /\ UNCHANGED <<pc, args, pending, counters, staging, result, staged, outer,
                 report>>

WorkerPanic(n) ==
  /\ n \in MayPanic /\ worker[n] = "converting"
  /\ worker' = [worker EXCEPT ![n] = "panicked"]
  /\ UNCHANGED <<pc, args, pending, counters, staging, channel, result, staged,
                 outer, report>>

WorkerStep(n) == WorkerConvert(n) \/ WorkerRemove(n) \/ WorkerSend(n)

-----------------------------------------------------------------------------
Staging == Stage \/ StageSkip \/ StagingDone \/ StartJobs

Serial == SerialConvert \/ SerialCleanup \/ SerialReturn

Scheduler == Spawn \/ SpawnDone \/ SchedulerLoop \/ Receive \/ ScopeEnd

Terminated == pc \in {"returned", "unwound"} /\ UNCHANGED vars

Next ==
  \/ Staging
  \/ Serial
  \/ SerialPanic
  \/ Scheduler
  \/ \E n \in Nested : WorkerStep(n) \/ WorkerPanic(n)
  \/ Terminated

Spec == Init /\ [][Next]_vars

(***************************************************************************)
(* The parent and every worker are operating-system threads that keep      *)
(* running until they block: weak fairness of each.  A panic is never due. *)
(***************************************************************************)
Fairness ==
  /\ WF_vars(Staging \/ Serial \/ Scheduler)
  /\ \A n \in Nested : WF_vars(WorkerStep(n))

FairSpec == Spec /\ Fairness

-----------------------------------------------------------------------------
(***************************************************************************)
(* Properties.                                                             *)
(***************************************************************************)

\* threads that exist, and jobs admitted whose outcome is not yet received
Live     == {n \in Nested : worker[n] \in {"converting", "removing", "sending"}}
InFlight == {n \in Nested : worker[n] \notin {"none", "received"}}

\* budgets that limit anything and leave running_sum + size within a word
LimitingBudgets == 1 .. MaxU64 - 1

(***************************************************************************)
(* Two or more conversions never run at once whose sizes add up to more    *)
(* than --nested-size-budget: an archive larger than the budget runs       *)
(* alone.  The threads' real sizes count, not the scheduler's running_sum. *)
(***************************************************************************)
BudgetRespected ==
  size_budget \in LimitingBudgets /\ Cardinality(Live) > 1
    => Weight[Live] <= size_budget

(***************************************************************************)
(* There are never more conversion threads than the resolved number of     *)
(* nested workers, after its clamp to the number of staged jobs.           *)
(***************************************************************************)
WorkersBounded == Live # {} => Cardinality(Live) <= max_workers

(***************************************************************************)
(* running_count and running_sum describe exactly the jobs in flight, from *)
(* the spawn of a thread until its message is received, whatever the order *)
(* the threads finish in; the wrapping and saturating arithmetic on u64    *)
(* never shows as long as the budget limits anything.                      *)
(***************************************************************************)
CountersExact ==
  /\ running_count = Cardinality(InFlight)
  /\ size_budget \in LimitingBudgets => running_sum = Weight[InFlight]

(***************************************************************************)
(* Jobs start smallest first (ties in listing order): no started job comes *)
(* after one that still waits.                                             *)
(***************************************************************************)
StartedInOrder ==
  pc \notin {"staging", "sorting"}
    => \A n \in Nested, i \in 1 .. Len(pending) :
          worker[n] # "none" => Before(n, pending[i])

(***************************************************************************)
(* The parent only blocks in recv() when a message will come and nothing   *)
(* more could be started: some worker is in flight, and the smallest       *)
(* waiting job does not fit.                                               *)
(***************************************************************************)
WaitsOnlyWhenFull ==
  pc = "receiving" => running_count > 0 /\ (pending # <<>> => ~CanAdmit)

(***************************************************************************)
(* "nested scheduler stalled", the drain of running workers and "nested    *)
(* convert incomplete" are dead code: the loop is never at its head with   *)
(* jobs unfinished and none running, and leaves with every job finished.   *)
(***************************************************************************)
NeverStalls ==
  /\ pc = "scheduling" /\ finished < total => running_count > 0
  /\ pc = "draining" => running_count = 0 /\ finished = total /\ pending = <<>>

\* the entries whose own extraction failed: they may have left a part of a file
Partial == {n \in Nested : ~use_solid_pass /\ result[n] = "unstaged"}

(***************************************************************************)
(* When the batch returns, no thread and no unread outcome is left, so the *)
(* outer writer has a single owner again (the try_unwrap of execute()).    *)
(* Every job's source archive has been removed, converted or not, unless   *)
(* its removal failed; the only other files that may be left of the        *)
(* staging are what failed extractions had written.                        *)
(***************************************************************************)
NothingLeftBehind ==
  report.returned => Live = {} /\ channel = <<>> /\ staged \subseteq Stuck \cup Partial

(***************************************************************************)
(* Every nested entry is resolved once, as converted or as skipped, and    *)
(* the counts reported are those of what the outer archive received.       *)
(***************************************************************************)
Batch == INSTANCE NestedBatch WITH
            dropped <- {n \in Nested : result[n] \in {"err", "unstaged"}}

RefinesBatch == Batch!Spec

(***************************************************************************)
(* A batch without a panicking conversion ends: it returns its counts, or  *)
(* the parent itself unwinds.                                              *)
(***************************************************************************)
BatchEnds ==
  <>(pc \in {"returned", "unwound"} \/ \E n \in Nested : worker[n] = "panicked")

(***************************************************************************)
(* "Drain any still-running workers so scope can exit cleanly": the thread *)
(* scope ends and the batch returns (or the program unwinds).              *)
(***************************************************************************)
ScopeExits == <>(pc \in {"returned", "unwound"})
=============================================================================
