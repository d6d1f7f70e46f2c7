----------------------- MODULE NestedSchedulerProofs -----------------------
(***************************************************************************)
(* Proofs about NestedScheduler, for any number of nested archives, sizes, *)
(* worker counts, budgets and word width: IInv is inductive, and with it   *)
(* the budget, the worker cap, the exactness of the counters, the starting *)
(* order and the absence of stalls hold in every reachable state.          *)
(***************************************************************************)
EXTENDS NestedScheduler, FiniteSetTheorems, SequenceTheorems, TLAPS

-----------------------------------------------------------------------------
(***************************************************************************)
(* The inductive invariant of the proofs: what each phase leaves true of   *)
(* the deque, the threads, the channel and the scheduler's counters.       *)
(***************************************************************************)
Parallel == pc \in {"spawning", "scheduling", "receiving", "draining"}

\* nothing is started before the sort, and no thread outside of the scheduler
ThreadsOK ==
  /\ pc \in {"staging", "sorting"}
       => \A n \in Nested : worker[n] = "none"
  /\ ~Parallel => InFlight = {}
  /\ pc = "serial_cleanup" => pending # <<>>
  /\ Parallel => max_workers >= 1

\* the channel holds each sent and not yet received outcome, once
ChannelOK ==
  /\ \A i \in 1 .. Len(channel) : worker[channel[i]] = "sent"
  /\ \A i, j \in 1 .. Len(channel) : channel[i] = channel[j] => i = j

\* the deque holds jobs that were not started; while staging, in listing order
PendingOK ==
  /\ \A i \in 1 .. Len(pending) : worker[pending[i]] = "none"
  /\ pc = "staging"
       => /\ \A i \in 1 .. Len(pending) : pending[i] < cursor
          /\ \A i, j \in 1 .. Len(pending) : i < j => pending[i] < pending[j]
  /\ pc \notin {"staging", "sorting"} => SmallestFirst(pending)

\* every staged job is finished, in flight or pending; admission respected
SchedulerOK ==
  /\ running_count > 1 /\ size_budget \in LimitingBudgets
       => running_sum <= size_budget
  /\ pc \in {"staging", "sorting"} => finished = 0
  /\ Parallel => finished + running_count + Len(pending) = total
  /\ Parallel => running_count <= max_workers
  /\ pc \in {"scheduling", "receiving"} => ~(CanAdmit /\ pending # <<>>)

IInv ==
  /\ TypeOK
  /\ ThreadsOK
  /\ ChannelOK
  /\ PendingOK
  /\ SchedulerOK
  /\ CountersExact
  /\ StartedInOrder
  /\ WaitsOnlyWhenFull
  /\ NeverStalls

(***************************************************************************)
(* The second inductive invariant: the books of the batch.  Where an entry *)
(* is (in the deque, with a thread, received, or never staged) says what   *)
(* is known of its outcome and of its staged file, which stays only where  *)
(* its removal or its extraction failed, and the counts are those of the   *)
(* outcomes that the parent has seen.                                      *)
(***************************************************************************)
Waiting == {pending[i] : i \in 1 .. Len(pending)}

\* the serial runner has counted its job before it leaves the deque
InHand  == IF pc = "serial_cleanup" THEN {Head(pending)} ELSE {}
Counted == InHand \cup {n \in Nested : worker[n] = "received"}

EntryOK(n) ==
  /\ n \in outer <=> result[n] = "ok"
  /\ n \in staged => \/ n \in Waiting \/ worker[n] \in {"converting", "removing", "panicked"}
                    \/ n \in Stuck \cup Partial
  /\ worker[n] \in {"converting", "panicked"} => result[n] = "none"
  /\ worker[n] \in {"removing", "sending", "sent", "received"} => result[n] \in {"ok", "err"}
  /\ worker[n] = "none" /\ n \in Waiting =>
       IF n \in InHand THEN result[n] \in {"ok", "err"} ELSE result[n] = "none"
  /\ worker[n] = "none" /\ n \notin Waiting =>
       result[n] = IF pc = "staging" /\ n >= cursor THEN "none" ELSE "unstaged"

Seen(outcome) == {n \in Counted : result[n] = outcome}
Unstaged      == {n \in Nested : result[n] = "unstaged"}

TallyOK ==
  /\ converted = Cardinality(Seen("ok"))
  /\ skipped = Cardinality(Seen("err"))
  /\ stage_skipped = Cardinality(Unstaged)

ReturnedOK ==
  /\ report.returned <=> pc = "returned"
  /\ pc = "returned" => pending = <<>>
  /\ pc \in {"staging", "sorting"} =>
       \A i, j \in 1 .. Len(pending) : i < j => pending[i] < pending[j]

BatchInv ==
  /\ \A n \in Nested : EntryOK(n)
  /\ TallyOK
  /\ ReturnedOK

-----------------------------------------------------------------------------
(* Sizes and weights.                                                      *)

LEMMA JobSizeType == \A n \in Nested : JobSize(n) \in U64
BY SizeAssumption DEF JobSize

\* adding a job to a set adds its size
LEMMA WeightAdd ==
  ASSUME NEW S \in SUBSET Nested, NEW n \in Nested, n \notin S
  PROVE  Weight[S \cup {n}] = Weight[S] + JobSize(n)
<1>1. S \cap {n} = {} /\ {n} \in SUBSET Nested
  OBVIOUS
<1>. QED BY <1>1, WeightAssumption

LEMMA WeightRemove ==
  ASSUME NEW S \in SUBSET Nested, NEW n \in S
  PROVE  Weight[S \ {n}] = Weight[S] - JobSize(n)
<1>1. S \ {n} \in SUBSET Nested /\ n \notin S \ {n} /\ S = (S \ {n}) \cup {n}
  OBVIOUS
<1>2. Weight[S] = Weight[S \ {n}] + JobSize(n)
  BY <1>1, WeightAdd
<1>3. Weight[S \ {n}] \in Nat /\ Weight[S] \in Nat /\ JobSize(n) \in Nat
  BY <1>1, WeightAssumption, JobSizeType DEF U64
<1>. QED BY <1>2, <1>3

LEMMA WeightEmpty == Weight[{}] = 0
<1>1. {} \in SUBSET Nested /\ {} \cap {} = {} /\ {} \cup {} = {}
  OBVIOUS
<1>2. Weight[{}] \in Nat /\ Weight[{}] = Weight[{}] + Weight[{}]
  BY <1>1, WeightAssumption
<1>. QED BY <1>2, SMTT(30)

\* a smaller set of jobs weighs no more
LEMMA WeightMonotone ==
  ASSUME NEW T \in SUBSET Nested, NEW S \in SUBSET T
  PROVE  Weight[S] <= Weight[T]
<1>1. S \in SUBSET Nested /\ T \ S \in SUBSET Nested
  OBVIOUS
<1>2. S \cap (T \ S) = {} /\ S \cup (T \ S) = T
  OBVIOUS
<1>3. Weight[T] = Weight[S] + Weight[T \ S]
  BY <1>1, <1>2, WeightAssumption
<1>4. Weight[S] \in Nat /\ Weight[T \ S] \in Nat
  BY <1>1, WeightAssumption
<1>. QED BY <1>3, <1>4

LEMMA NestedFinite ==
  IsFiniteSet(Nested) /\ \A S \in SUBSET Nested : IsFiniteSet(S) /\ Cardinality(S) \in Nat
<1>1. IsFiniteSet(Nested)
  BY NestCountAssumption, FS_Interval DEF Nested
<1>2. ASSUME NEW S \in SUBSET Nested
      PROVE  IsFiniteSet(S) /\ Cardinality(S) \in Nat
  BY <1>1, FS_Subset, FS_CardinalityType
<1>. QED BY <1>1, <1>2

\* the order of the sort is strict and total
LEMMA BeforeOrder ==
  /\ \A m, n, k \in Nested : Before(m, n) /\ Before(n, k) => Before(m, k)
  /\ \A m \in Nested : ~Before(m, m)
<1>1. \A n \in Nested : JobSize(n) \in Nat /\ n \in Nat
  BY JobSizeType, NestCountAssumption DEF U64, Nested
<1>. QED BY <1>1 DEF Before

-----------------------------------------------------------------------------
(***************************************************************************)
(* What admission guarantees: with a limiting budget the sum stays within  *)
(* a word, and within the budget unless the job runs alone.                *)
(***************************************************************************)
LEMMA AdmissionBound ==
  ASSUME NEW sum \in U64, NEW count \in Nat, NEW size \in U64,
         NEW budget \in LimitingBudgets, NEW cap \in Nat,
         CanAdmitNested(sum, count, size, budget, cap),
         count = 0 => sum = 0
  PROVE  /\ WrappingAdd(sum, size) = sum + size
         /\ count # 0 => sum + size <= budget
<1>. USE MaxU64Assumption DEF U64, LimitingBudgets, WrappingAdd
<1>1. CASE count = 0
  BY <1>1
<1>2. CASE count # 0
  <2>1. SaturatingAdd(sum, size) <= budget
    BY <1>2 DEF CanAdmitNested
  <2>2. sum + size <= budget
    BY <2>1 DEF SaturatingAdd
  <2>. QED BY <2>2
<1>. QED BY <1>1, <1>2

LEMMA WrappingAddType ==
  ASSUME NEW a \in U64, NEW b \in U64
  PROVE  WrappingAdd(a, b) \in U64
BY MaxU64Assumption DEF U64, WrappingAdd

LEMMA SaturatingSubType ==
  /\ \A a, b \in U64 : SaturatingSub(a, b) \in U64
  /\ \A a, b \in Nat : SaturatingSub(a, b) \in Nat
BY MaxU64Assumption DEF U64, SaturatingSub

-----------------------------------------------------------------------------
(* The initial states, and the steps that only move pc.                    *)

LEMMA InitInv == Init => IInv
<1>. SUFFICES ASSUME Init PROVE IInv
  OBVIOUS
<1>. USE DEF Init, InFlight, Parallel
<1>1. TypeOK
  BY NestCountAssumption, MaxU64Assumption, ArgumentAssumption
  DEF TypeOK, ParentStates, WorkerStates, NoReport, U64, Nested
<1>2. InFlight = {}
  OBVIOUS
<1>3. CountersExact
  BY <1>2, WeightEmpty, FS_EmptySet DEF CountersExact
<1>4. ThreadsOK /\ ChannelOK /\ PendingOK
  BY <1>2 DEF ThreadsOK, ChannelOK, PendingOK
<1>5. SchedulerOK /\ StartedInOrder /\ WaitsOnlyWhenFull /\ NeverStalls
  BY DEF SchedulerOK, StartedInOrder, WaitsOnlyWhenFull, NeverStalls
<1>. QED BY <1>1, <1>3, <1>4, <1>5 DEF IInv

-----------------------------------------------------------------------------
(* Staging: no thread exists yet, so only the deque and the counts move.   *)

LEMMA StageStep == IInv /\ Stage => IInv'
<1>. SUFFICES ASSUME IInv, Stage PROVE IInv'
  OBVIOUS
<1>. USE DEF IInv
<1>1. cursor \in Nested /\ cursor \in Nat
  BY NestCountAssumption DEF Stage, TypeOK, Nested
<1>2. TypeOK'
  BY <1>1, NestCountAssumption DEF TypeOK, Stage, args, counters, ParentStates, Nested
<1>3. /\ InFlight' = InFlight
      /\ \A n \in Nested : worker[n] = "none"
      /\ pc' = "staging"
  BY DEF Stage, InFlight, ThreadsOK
<1>4. ThreadsOK' /\ ChannelOK'
  BY <1>3 DEF Stage, ThreadsOK, ChannelOK, Parallel
<1>5. PendingOK'
  <2>1. /\ Len(pending') = Len(pending) + 1
        /\ \A i \in 1 .. Len(pending) : pending'[i] = pending[i]
        /\ pending'[Len(pending) + 1] = cursor
        /\ Len(pending) \in Nat
    BY <1>1 DEF Stage, TypeOK
  <2>2. \A i \in 1 .. Len(pending') : pending'[i] \in Nested
    BY <1>2, ElementOfSeq DEF TypeOK
  <2>3. \A i \in 1 .. Len(pending) : pending[i] \in Nat /\ pending[i] < cursor
    BY <1>1, NestCountAssumption DEF Stage, TypeOK, PendingOK, Nested
  <2>4. \A i \in 1 .. Len(pending') : worker'[pending'[i]] = "none"
    BY <1>3, <2>2 DEF Stage
  <2>5. \A i \in 1 .. Len(pending') : pending'[i] < cursor'
    BY <1>1, <2>1, <2>3 DEF Stage
  <2>6. ASSUME NEW i \in 1 .. Len(pending'), NEW j \in 1 .. Len(pending'), i < j
        PROVE  pending'[i] < pending'[j]
    <3>1. i \in 1 .. Len(pending)
      BY <2>1, <2>6
    <3>2. CASE j = Len(pending) + 1
      BY <2>1, <2>3, <3>1, <3>2
    <3>3. CASE j \in 1 .. Len(pending)
      BY <2>1, <2>6, <3>1, <3>3 DEF Stage, PendingOK
    <3>. QED BY <2>1, <3>2, <3>3
  <2>. QED BY <1>3, <2>4, <2>5, <2>6 DEF PendingOK
<1>6. CountersExact'
  BY <1>3 DEF CountersExact, Stage, args, counters
<1>7. SchedulerOK' /\ StartedInOrder' /\ WaitsOnlyWhenFull' /\ NeverStalls'
  BY <1>3 DEF SchedulerOK, StartedInOrder, WaitsOnlyWhenFull, NeverStalls,
              Stage, args, counters, Parallel
<1>. QED BY <1>2, <1>4, <1>5, <1>6, <1>7

LEMMA StageSkipStep == IInv /\ StageSkip => IInv'
<1>. SUFFICES ASSUME IInv, StageSkip PROVE IInv'
  OBVIOUS
<1>. USE DEF IInv
<1>1. cursor \in Nested /\ cursor \in Nat
  BY NestCountAssumption DEF StageSkip, TypeOK, Nested
<1>2. TypeOK'
  <2>0. staged' = staged \/ staged' = staged \cup {cursor}
    BY DEF StageSkip
  <2>1. staged' \in SUBSET Nested
    <3>1. staged \in SUBSET Nested
      BY DEF TypeOK
    <3>. QED BY <1>1, <2>0, <3>1, Zenon
  <2>2. result' \in [Nested -> {"none", "ok", "err", "unstaged"}]
    BY DEF TypeOK, StageSkip
  <2>3. cursor' \in 1 .. NestCount + 1 /\ stage_skipped' \in Nat
    BY <1>1, NestCountAssumption DEF TypeOK, StageSkip, Nested
  <2>. QED BY <2>1, <2>2, <2>3 DEF TypeOK, StageSkip, args, counters
<1>3. InFlight' = InFlight /\ pc' = "staging"
  BY DEF StageSkip, InFlight
<1>4. ThreadsOK' /\ ChannelOK'
  BY <1>3 DEF StageSkip, ThreadsOK, ChannelOK, Parallel
<1>5. PendingOK'
  <2>1. \A i \in 1 .. Len(pending) : pending[i] \in Nat /\ pending[i] < cursor + 1
    BY <1>1, NestCountAssumption DEF StageSkip, TypeOK, PendingOK, Nested
  <2>. QED BY <2>1, <1>3 DEF StageSkip, PendingOK
<1>6. CountersExact'
  BY <1>3 DEF CountersExact, StageSkip, args, counters
<1>7. SchedulerOK' /\ StartedInOrder' /\ WaitsOnlyWhenFull' /\ NeverStalls'
  BY <1>3 DEF SchedulerOK, StartedInOrder, WaitsOnlyWhenFull, NeverStalls,
              StageSkip, args, counters, Parallel
<1>. QED BY <1>2, <1>4, <1>5, <1>6, <1>7

LEMMA StagingDoneStep == IInv /\ StagingDone => IInv'
<1>. SUFFICES ASSUME IInv, StagingDone PROVE IInv'
  OBVIOUS
<1>. USE DEF IInv, StagingDone, args, counters, staging, world
<1>1. TypeOK'
  BY DEF TypeOK, ParentStates
<1>2. InFlight' = InFlight
  BY DEF InFlight
<1>3. ThreadsOK' /\ ChannelOK' /\ PendingOK'
  BY <1>2 DEF ThreadsOK, ChannelOK, PendingOK, Parallel
<1>4. CountersExact'
  BY <1>2 DEF CountersExact
<1>5. SchedulerOK' /\ StartedInOrder' /\ WaitsOnlyWhenFull' /\ NeverStalls'
  BY DEF SchedulerOK, StartedInOrder, WaitsOnlyWhenFull, NeverStalls, Parallel
<1>. QED BY <1>1, <1>3, <1>4, <1>5

LEMMA FunctionIsSeq ==
  ASSUME NEW S, NEW k \in Nat, NEW f \in [1 .. k -> S]
  PROVE  f \in Seq(S) /\ Len(f) = k
<1>1. f \in Seq(S)
  BY SeqDef
<1>. QED BY <1>1

LEMMA ReportType ==
  ASSUME NEW c \in Nat, NEW k \in Nat
  PROVE  [converted |-> c, skipped |-> k, returned |-> TRUE]
            \in [converted : Nat, skipped : Nat, returned : BOOLEAN]
BY Zenon

LEMMA StartJobsStep == IInv /\ StartJobs => IInv'
<1>. SUFFICES ASSUME IInv, StartJobs PROVE IInv'
  OBVIOUS
<1>. USE DEF IInv
<1>. DEFINE S == {pending[i] : i \in 1 .. Len(pending)}
<1>1. PICK sorted \in [1 .. Len(pending) -> S] :
          SmallestFirst(sorted) /\ pending' = sorted
  BY DEF StartJobs
<1>2. Len(pending) \in Nat /\ S \subseteq Nested
  BY ElementOfSeq DEF TypeOK
<1>3. pending' \in Seq(Nested) /\ Len(pending') = Len(pending)
  BY <1>1, <1>2, FunctionIsSeq, SeqMonotonic
<1>4. /\ \A n \in Nested : worker[n] = "none"
      /\ worker' = worker
      /\ InFlight = {} /\ InFlight' = {}
      /\ running_count = 0 /\ finished = 0
  BY FS_EmptySet DEF StartJobs, ThreadsOK, InFlight, CountersExact, SchedulerOK,
                     world
<1>5. /\ pc' \in {"returned", "serial", "spawning"}
      /\ total' = Len(pending)
      /\ max_workers' \in Nat
      /\ report' \in [converted : Nat, skipped : Nat, returned : BOOLEAN]
  <2>1. 0 \in Nat /\ stage_skipped \in Nat
    BY DEF TypeOK
  <2>2. report' \in [converted : Nat, skipped : Nat, returned : BOOLEAN]
    <3>1. \/ report' = [converted |-> 0, skipped |-> stage_skipped, returned |-> TRUE]
          \/ report' = report
      BY DEF StartJobs
    <3>2. report \in [converted : Nat, skipped : Nat, returned : BOOLEAN]
      BY DEF TypeOK
    <3>. QED BY <2>1, <3>1, <3>2, ReportType
  <2>. QED BY <1>2, <2>2 DEF TypeOK, StartJobs
<1>6. UNCHANGED <<size_budget, use_solid_pass, cursor, stage_skipped, counters, channel,
                  world>>
  BY DEF StartJobs
<1>. USE DEF counters, world
<1>7. TypeOK'
  BY <1>2, <1>3, <1>5, <1>6 DEF TypeOK, ParentStates
<1>8. Parallel' => max_workers' >= 1 /\ total' = Len(pending)
  <2>. SUFFICES ASSUME Parallel' PROVE max_workers' >= 1 /\ total' = Len(pending)
    OBVIOUS
  <2>1. pending # <<>>
    BY DEF StartJobs, Parallel
  <2>2. Len(pending) >= 1
    BY <2>1, EmptySeq DEF TypeOK
  <2>. QED BY <2>2 DEF StartJobs, TypeOK
<1>9. ThreadsOK' /\ ChannelOK'
  BY <1>4, <1>5, <1>6, <1>8 DEF ThreadsOK, ChannelOK
<1>10. PendingOK'
  <2>1. \A i \in 1 .. Len(pending') : worker'[pending'[i]] = "none"
    BY <1>3, <1>4, ElementOfSeq
  <2>2. SmallestFirst(pending')
    BY <1>1
  <2>. QED BY <1>5, <2>1, <2>2 DEF PendingOK
<1>11. CountersExact'
  BY <1>4, <1>6 DEF CountersExact
<1>12. SchedulerOK'
  BY <1>2, <1>3, <1>4, <1>5, <1>6, <1>8 DEF SchedulerOK, Parallel
<1>13. StartedInOrder' /\ WaitsOnlyWhenFull' /\ NeverStalls'
  BY <1>4, <1>5 DEF StartedInOrder, WaitsOnlyWhenFull, NeverStalls
<1>. QED BY <1>7, <1>9, <1>10, <1>11, <1>12, <1>13

-----------------------------------------------------------------------------
(* The serial runner: no thread is ever in flight.                         *)

\* what the tail of a non-empty deque of jobs looks like
LEMMA TailFacts ==
  ASSUME NEW q \in Seq(Nested), q # <<>>
  PROVE  /\ Head(q) \in Nested /\ Head(q) = q[1]
         /\ Tail(q) \in Seq(Nested)
         /\ Len(q) \in Nat /\ Len(q) >= 1
         /\ Len(Tail(q)) = Len(q) - 1
         /\ \A i \in 1 .. Len(Tail(q)) : i + 1 \in 1 .. Len(q) /\ Tail(q)[i] = q[i + 1]
         /\ SmallestFirst(q) => SmallestFirst(Tail(q))
         /\ SmallestFirst(q)
              => \A i \in 1 .. Len(Tail(q)) : Before(Head(q), Tail(q)[i])
<1>1. /\ Head(q) \in Nested /\ Head(q) = q[1]
      /\ Tail(q) \in Seq(Nested)
      /\ Len(Tail(q)) = Len(q) - 1
      /\ \A i \in 1 .. Len(Tail(q)) : Tail(q)[i] = q[i + 1]
  BY HeadTailProperties
<1>2. Len(q) \in Nat /\ Len(q) >= 1
  BY EmptySeq
<1>3. \A i \in 1 .. Len(Tail(q)) : i + 1 \in 1 .. Len(q)
  BY <1>1, <1>2
<1>4. ASSUME SmallestFirst(q) PROVE SmallestFirst(Tail(q))
  <2>. SUFFICES ASSUME NEW i \in 1 .. Len(Tail(q)), NEW j \in 1 .. Len(Tail(q)), i < j
                PROVE  Before(Tail(q)[i], Tail(q)[j])
    BY DEF SmallestFirst
  <2>1. i + 1 < j + 1
    BY <1>1, <1>2
  <2>. QED BY <1>1, <1>3, <1>4, <2>1 DEF SmallestFirst
<1>5. ASSUME SmallestFirst(q), NEW i \in 1 .. Len(Tail(q))
      PROVE  Before(Head(q), Tail(q)[i])
  <2>1. 1 \in 1 .. Len(q) /\ 1 < i + 1
    BY <1>2
  <2>. QED BY <1>1, <1>3, <1>5, <2>1 DEF SmallestFirst
<1>. QED BY <1>1, <1>2, <1>3, <1>4, <1>5

LEMMA SerialConvertStep == IInv /\ SerialConvert => IInv'
<1>. SUFFICES ASSUME IInv, SerialConvert PROVE IInv'
  OBVIOUS
<1>. USE DEF IInv
<1>1. pending # <<>> /\ Head(pending) \in Nested
  BY TailFacts DEF SerialConvert, TypeOK
<1>2. TypeOK'
  BY <1>1 DEF TypeOK, SerialConvert, Convert, Count, args, staging, ParentStates
<1>3. InFlight' = InFlight /\ worker' = worker
  BY DEF SerialConvert, InFlight
<1>4. ThreadsOK' /\ ChannelOK' /\ PendingOK'
  BY <1>1, <1>3 DEF SerialConvert, ThreadsOK, ChannelOK, PendingOK, Parallel
<1>5. CountersExact'
  BY <1>3 DEF CountersExact, SerialConvert, args
<1>6. SchedulerOK' /\ StartedInOrder' /\ WaitsOnlyWhenFull' /\ NeverStalls'
  BY <1>3 DEF SerialConvert, SchedulerOK, StartedInOrder, WaitsOnlyWhenFull,
              NeverStalls, Parallel, args
<1>. QED BY <1>2, <1>4, <1>5, <1>6

LEMMA SerialCleanupStep == IInv /\ SerialCleanup => IInv'
<1>. SUFFICES ASSUME IInv, SerialCleanup PROVE IInv'
  OBVIOUS
<1>. USE DEF IInv
<1>. DEFINE n == Head(pending)
<1>1. pending \in Seq(Nested) /\ pending # <<>> /\ SmallestFirst(pending)
  BY DEF SerialCleanup, ThreadsOK, TypeOK, PendingOK
<1>2. /\ n \in Nested /\ Tail(pending) \in Seq(Nested) /\ pending' = Tail(pending)
      /\ SmallestFirst(pending')
      /\ \A i \in 1 .. Len(pending') : /\ i + 1 \in 1 .. Len(pending)
                                       /\ pending'[i] = pending[i + 1]
                                       /\ Before(n, pending'[i])
      /\ \A i \in 1 .. Len(pending') : pending'[i] \in Nested
  BY <1>1, TailFacts, ElementOfSeq DEF SerialCleanup
<1>3. TypeOK'
  BY <1>2 DEF TypeOK, SerialCleanup, args, counters, staging, ParentStates,
              WorkerStates
<1>4. worker' = [worker EXCEPT ![n] = "received"] /\ pc' = "serial"
  BY DEF SerialCleanup
<1>5. InFlight' = InFlight /\ InFlight = {}
  <2>1. InFlight = {}
    BY DEF SerialCleanup, ThreadsOK, Parallel
  <2>2. worker \in [Nested -> WorkerStates]
    BY DEF TypeOK
  <2>. QED BY <1>2, <1>4, <2>1, <2>2 DEF InFlight
<1>6. ThreadsOK'
  BY <1>4, <1>5 DEF ThreadsOK, Parallel
<1>7. ChannelOK'
  <2>1. \A i \in 1 .. Len(channel) : channel[i] \in Nested
    BY ElementOfSeq DEF TypeOK
  <2>2. \A i \in 1 .. Len(channel) : channel[i] \in InFlight
    BY <2>1 DEF ChannelOK, InFlight
  <2>. QED BY <1>5, <2>2 DEF ChannelOK, SerialCleanup
<1>8. PendingOK'
  <2>1. \A i \in 1 .. Len(pending') : pending'[i] # n
    BY <1>2, BeforeOrder
  <2>2. \A i \in 1 .. Len(pending') : worker'[pending'[i]] = "none"
    BY <1>2, <1>4, <2>1 DEF PendingOK, TypeOK
  <2>. QED BY <1>2, <1>4, <2>2 DEF PendingOK
<1>9. CountersExact'
  BY <1>5 DEF CountersExact, SerialCleanup, args, counters
<1>10. StartedInOrder'
  BY <1>2, <1>4 DEF StartedInOrder, SerialCleanup, TypeOK
<1>11. SchedulerOK' /\ WaitsOnlyWhenFull' /\ NeverStalls'
  BY <1>4 DEF SerialCleanup, SchedulerOK, WaitsOnlyWhenFull, NeverStalls,
              Parallel, args, counters
<1>. QED BY <1>3, <1>6, <1>7, <1>8, <1>9, <1>10, <1>11

LEMMA SerialEndStep == IInv /\ (SerialReturn \/ SerialPanic) => IInv'
<1>. SUFFICES ASSUME IInv, SerialReturn \/ SerialPanic PROVE IInv'
  OBVIOUS
<1>. USE DEF IInv, SerialReturn, SerialPanic, args, counters, staging, world
<1>1. TypeOK'
  <2>1. converted \in Nat /\ skipped + stage_skipped \in Nat
    BY DEF TypeOK
  <2>2. report' \in [converted : Nat, skipped : Nat, returned : BOOLEAN]
    BY <2>1, ReportType DEF TypeOK, Report
  <2>. QED BY <2>2 DEF TypeOK, ParentStates
<1>2. InFlight' = InFlight /\ pc' \in {"returned", "unwound"}
  BY DEF InFlight
<1>3. ThreadsOK' /\ ChannelOK' /\ PendingOK'
  BY <1>2 DEF ThreadsOK, ChannelOK, PendingOK, Parallel
<1>4. CountersExact'
  BY <1>2 DEF CountersExact
<1>5. SchedulerOK' /\ StartedInOrder' /\ WaitsOnlyWhenFull' /\ NeverStalls'
  BY <1>2 DEF SchedulerOK, StartedInOrder, WaitsOnlyWhenFull, NeverStalls, Parallel
<1>. QED BY <1>1, <1>3, <1>4, <1>5

-----------------------------------------------------------------------------
(* The scheduler: admission, receipt, and the head of its loop.            *)

LEMMA SpawnStep == IInv /\ Spawn => IInv'
<1>. SUFFICES ASSUME IInv, Spawn PROVE IInv'
  OBVIOUS
<1>. USE DEF IInv
<1>. DEFINE n == Head(pending)
<1>1. /\ pending \in Seq(Nested) /\ pending # <<>> /\ SmallestFirst(pending)
      /\ worker \in [Nested -> WorkerStates]
      /\ running_count \in Nat /\ max_workers \in Nat
      /\ running_sum \in U64 /\ size_budget \in U64
  BY DEF Spawn, TypeOK, PendingOK
<1>2. /\ n \in Nested /\ n = pending[1]
      /\ pending' = Tail(pending) /\ pending' \in Seq(Nested)
      /\ SmallestFirst(pending')
      /\ Len(pending) \in Nat /\ Len(pending) >= 1
      /\ Len(pending') = Len(pending) - 1
      /\ \A i \in 1 .. Len(pending') : /\ i + 1 \in 1 .. Len(pending)
                                       /\ pending'[i] = pending[i + 1]
                                       /\ Before(n, pending'[i])
      /\ \A i \in 1 .. Len(pending') : pending'[i] \in Nested
  BY <1>1, TailFacts, ElementOfSeq DEF Spawn
<1>3. /\ worker' = [worker EXCEPT ![n] = "converting"]
      /\ running_sum' = WrappingAdd(running_sum, JobSize(n))
      /\ running_count' = running_count + 1
      /\ pc = "spawning"
      /\ UNCHANGED <<pc, args, finished, converted, skipped, staging, channel,
                     result, staged, outer, report>>
  BY DEF Spawn
<1>4. worker[n] = "none"
  BY <1>2 DEF PendingOK
<1>5. /\ InFlight' = InFlight \cup {n}
      /\ n \notin InFlight
      /\ InFlight \in SUBSET Nested
  BY <1>1, <1>2, <1>3, <1>4 DEF InFlight
<1>6. JobSize(n) \in U64 /\ running_sum' \in U64
  BY <1>1, <1>2, <1>3, JobSizeType, WrappingAddType
<1>7. TypeOK'
  BY <1>2, <1>3, <1>6 DEF TypeOK, args, staging, WorkerStates
<1>8. CanAdmitNested(running_sum, running_count, JobSize(n), size_budget, max_workers)
  BY <1>1 DEF Spawn, CanAdmit, FrontSize
<1>9. size_budget \in LimitingBudgets
        => /\ running_sum' = running_sum + JobSize(n)
           /\ running_count # 0 => running_sum' <= size_budget
  <2>. SUFFICES ASSUME size_budget \in LimitingBudgets
                PROVE  /\ running_sum' = running_sum + JobSize(n)
                       /\ running_count # 0 => running_sum' <= size_budget
    OBVIOUS
  <2>1. running_count = 0 => running_sum = 0
    <3>1. running_count = 0 => InFlight = {}
      BY <1>5, NestedFinite, FS_EmptySet DEF CountersExact
    <3>. QED BY <3>1, WeightEmpty DEF CountersExact
  <2>. QED BY <1>1, <1>3, <1>6, <1>8, <2>1, AdmissionBound
<1>10. CountersExact'
  <2>1. Cardinality(InFlight') = Cardinality(InFlight) + 1
    BY <1>5, NestedFinite, FS_AddElement
  <2>2. Weight[InFlight'] = Weight[InFlight] + JobSize(n)
    BY <1>2, <1>5, WeightAdd
  <2>. QED BY <1>3, <1>9, <2>1, <2>2 DEF CountersExact, args
<1>11. ThreadsOK'
  BY <1>3 DEF ThreadsOK, Parallel, args
<1>12. ChannelOK'
  <2>1. \A i \in 1 .. Len(channel) : channel[i] \in Nested /\ channel[i] # n
    BY <1>4, ElementOfSeq DEF ChannelOK, TypeOK
  <2>. QED BY <1>1, <1>3, <2>1 DEF ChannelOK
<1>13. PendingOK'
  <2>1. \A i \in 1 .. Len(pending') : pending'[i] # n
    BY <1>2, BeforeOrder
  <2>2. \A i \in 1 .. Len(pending') : worker'[pending'[i]] = "none"
    BY <1>1, <1>2, <1>3, <2>1 DEF PendingOK
  <2>. QED BY <1>2, <1>3, <2>2 DEF PendingOK
<1>14. SchedulerOK'
  <2>1. running_count' <= max_workers'
    BY <1>1, <1>3, <1>8 DEF CanAdmitNested, args
  <2>2. finished' + running_count' + Len(pending') = total'
    <3>1. finished + running_count + Len(pending) = total /\ finished \in Nat
      BY <1>3 DEF SchedulerOK, Parallel, TypeOK
    <3>2. finished' = finished /\ total' = total
      BY <1>3 DEF staging
    <3>. QED BY <1>1, <1>2, <1>3, <3>1, <3>2
  <2>. QED BY <1>1, <1>3, <1>9, <2>1, <2>2 DEF SchedulerOK, args
<1>15. StartedInOrder'
  BY <1>1, <1>2, <1>3 DEF StartedInOrder
<1>16. WaitsOnlyWhenFull' /\ NeverStalls'
  BY <1>3 DEF WaitsOnlyWhenFull, NeverStalls
<1>. QED BY <1>7, <1>10, <1>11, <1>12, <1>13, <1>14, <1>15, <1>16

LEMMA SpawnDoneStep == IInv /\ SpawnDone => IInv'
<1>. SUFFICES ASSUME IInv, SpawnDone PROVE IInv'
  OBVIOUS
<1>. USE DEF IInv, SpawnDone, args, counters, staging, world
<1>1. TypeOK'
  BY DEF TypeOK, ParentStates
<1>2. InFlight' = InFlight
  BY DEF InFlight
<1>3. ThreadsOK' /\ ChannelOK' /\ PendingOK'
  BY <1>2 DEF ThreadsOK, ChannelOK, PendingOK, Parallel
<1>4. CountersExact'
  BY <1>2 DEF CountersExact
<1>5. SchedulerOK' /\ StartedInOrder' /\ WaitsOnlyWhenFull'
  BY DEF SchedulerOK, StartedInOrder, WaitsOnlyWhenFull, Parallel, CanAdmit,
         FrontSize
<1>6. NeverStalls'
  <2>. SUFFICES ASSUME running_count = 0, finished < total PROVE FALSE
    BY DEF NeverStalls, TypeOK
  <2>1. CanAdmit
    BY DEF CanAdmit, CanAdmitNested, ThreadsOK, Parallel, TypeOK
  <2>2. Len(pending) = 0
    BY <2>1, EmptySeq DEF TypeOK
  <2>. QED BY <2>2 DEF SchedulerOK, Parallel, TypeOK
<1>. QED BY <1>1, <1>3, <1>4, <1>5, <1>6

LEMMA SchedulerLoopStep == IInv /\ SchedulerLoop => IInv'
<1>. SUFFICES ASSUME IInv, SchedulerLoop PROVE IInv'
  OBVIOUS
<1>. USE DEF IInv, args, counters, staging, world
<1>1. /\ pc = "scheduling"
      /\ pc' \in {"draining", "receiving", "spawning"}
      /\ UNCHANGED <<args, pending, counters, staging, channel, world, report>>
  BY DEF SchedulerLoop
<1>2. pc' = "receiving" => running_count > 0
  BY DEF SchedulerLoop
<1>3. pc' = "draining" => running_count = 0 /\ finished = total /\ pending = <<>>
  <2>. SUFFICES ASSUME pc' = "draining"
                PROVE  running_count = 0 /\ finished = total /\ pending = <<>>
    OBVIOUS
  <2>1. finished >= total
    BY DEF SchedulerLoop, NeverStalls, TypeOK
  <2>2. finished + running_count + Len(pending) = total
    BY <1>1 DEF SchedulerOK, Parallel
  <2>3. Len(pending) \in Nat /\ (pending # <<>> => Len(pending) >= 1)
    BY EmptySeq DEF TypeOK
  <2>. QED BY <2>1, <2>2, <2>3 DEF TypeOK
<1>4. TypeOK'
  BY <1>1 DEF TypeOK, ParentStates
<1>5. InFlight' = InFlight
  BY <1>1 DEF InFlight
<1>6. ThreadsOK' /\ ChannelOK' /\ PendingOK'
  BY <1>1, <1>5 DEF ThreadsOK, ChannelOK, PendingOK, Parallel
<1>7. CountersExact'
  BY <1>1, <1>5 DEF CountersExact
<1>8. SchedulerOK' /\ StartedInOrder' /\ WaitsOnlyWhenFull' /\ NeverStalls'
  BY <1>1, <1>2, <1>3 DEF SchedulerOK, StartedInOrder, WaitsOnlyWhenFull,
     NeverStalls, Parallel, CanAdmit, FrontSize
<1>. QED BY <1>4, <1>6, <1>7, <1>8

LEMMA ReceiveStep == IInv /\ Receive => IInv'
<1>. SUFFICES ASSUME IInv, Receive PROVE IInv'
  OBVIOUS
<1>. USE DEF IInv
<1>. DEFINE n == Head(channel)
<1>1. /\ channel \in Seq(Nested) /\ channel # <<>>
      /\ worker \in [Nested -> WorkerStates]
      /\ running_count \in Nat /\ running_sum \in U64
      /\ size_budget \in U64 /\ finished \in Nat
  BY DEF Receive, TypeOK
<1>2. /\ n \in Nested /\ n = channel[1]
      /\ channel' = Tail(channel) /\ channel' \in Seq(Nested)
      /\ Len(channel) \in Nat /\ Len(channel) >= 1
      /\ Len(channel') = Len(channel) - 1
      /\ \A i \in 1 .. Len(channel') : /\ i + 1 \in 1 .. Len(channel)
                                       /\ channel'[i] = channel[i + 1]
      /\ \A i \in 1 .. Len(channel') : channel'[i] \in Nested
  BY <1>1, TailFacts, ElementOfSeq DEF Receive
<1>3. /\ pc = "receiving" /\ pc' = "spawning"
      /\ worker' = [worker EXCEPT ![n] = "received"]
      /\ running_sum' = SaturatingSub(running_sum, JobSize(n))
      /\ running_count' = SaturatingSub(running_count, 1)
      /\ finished' = finished + 1
      /\ Count(result[n])
      /\ UNCHANGED <<args, pending, staging, result, staged, outer, report>>
  BY DEF Receive
<1>4. worker[n] = "sent"
  BY <1>2 DEF ChannelOK
<1>5. /\ InFlight' = InFlight \ {n}
      /\ n \in InFlight
      /\ InFlight \in SUBSET Nested
  BY <1>1, <1>2, <1>3, <1>4 DEF InFlight
<1>6. Cardinality(InFlight') = Cardinality(InFlight) - 1
  BY <1>5, NestedFinite, FS_RemoveElement
<1>7. running_count >= 1 /\ running_count' = running_count - 1
  <2>1. running_count > 0
    BY <1>3 DEF WaitsOnlyWhenFull
  <2>. QED BY <1>1, <1>3, <2>1 DEF SaturatingSub
<1>8. Weight[InFlight'] = Weight[InFlight] - JobSize(n) /\ Weight[InFlight'] \in Nat
  BY <1>5, WeightRemove, WeightAssumption
<1>9. JobSize(n) \in U64 /\ running_sum' \in U64 /\ running_sum' <= running_sum
  BY <1>1, <1>2, <1>3, JobSizeType, SaturatingSubType, MaxU64Assumption
  DEF SaturatingSub, U64
<1>10. TypeOK'
  BY <1>1, <1>2, <1>3, <1>7, <1>9
  DEF TypeOK, args, staging, Count, ParentStates, WorkerStates
<1>11. CountersExact'
  <2>1. ASSUME size_budget \in LimitingBudgets
        PROVE  running_sum' = Weight[InFlight']
    <3>1. running_sum = Weight[InFlight]
      BY <2>1 DEF CountersExact
    <3>2. running_sum \in Nat /\ JobSize(n) \in Nat
      BY <1>1, <1>9, MaxU64Assumption DEF U64
    <3>. QED BY <1>3, <1>8, <3>1, <3>2 DEF SaturatingSub
  <2>. QED BY <1>3, <1>6, <1>7, <2>1 DEF CountersExact, args
<1>12. ThreadsOK'
  BY <1>3 DEF ThreadsOK, Parallel, args
<1>13. ChannelOK'
  <2>1. \A i \in 1 .. Len(channel') : channel'[i] # n
    BY <1>2 DEF ChannelOK
  <2>2. \A i \in 1 .. Len(channel') : worker'[channel'[i]] = "sent"
    BY <1>1, <1>2, <1>3, <2>1 DEF ChannelOK
  <2>3. \A i, j \in 1 .. Len(channel') : channel'[i] = channel'[j] => i = j
    BY <1>2 DEF ChannelOK
  <2>. QED BY <2>2, <2>3 DEF ChannelOK
<1>14. \A i \in 1 .. Len(pending) : pending[i] \in Nested /\ pending[i] # n
  BY <1>4, ElementOfSeq DEF PendingOK, TypeOK
<1>15. PendingOK'
  BY <1>1, <1>3, <1>14 DEF PendingOK
<1>16. SchedulerOK'
  <2>1. size_budget \in LimitingBudgets /\ running_count' > 1
           => running_sum' <= size_budget
    BY <1>1, <1>7, <1>9 DEF SchedulerOK, U64
  <2>2. /\ finished + running_count + Len(pending) = total
        /\ running_count <= max_workers
        /\ max_workers \in Nat /\ Len(pending) \in Nat
    BY <1>3 DEF SchedulerOK, Parallel, TypeOK
  <2>3. /\ finished' + running_count' + Len(pending') = total'
        /\ running_count' <= max_workers'
    BY <1>1, <1>3, <1>7, <2>2 DEF args, staging
  <2>. QED BY <1>3, <2>1, <2>3 DEF SchedulerOK, args
<1>17. StartedInOrder'
  BY <1>1, <1>3, <1>4 DEF StartedInOrder
<1>18. WaitsOnlyWhenFull' /\ NeverStalls'
  BY <1>3 DEF WaitsOnlyWhenFull, NeverStalls
<1>. QED BY <1>10, <1>11, <1>12, <1>13, <1>15, <1>16, <1>17, <1>18

LEMMA ScopeEndStep == IInv /\ ScopeEnd => IInv'
<1>. SUFFICES ASSUME IInv, ScopeEnd PROVE IInv'
  OBVIOUS
<1>. USE DEF IInv, ScopeEnd, args, counters, staging, world
<1>1. TypeOK'
  <2>1. converted \in Nat /\ skipped + stage_skipped \in Nat
    BY DEF TypeOK
  <2>2. report' \in [converted : Nat, skipped : Nat, returned : BOOLEAN]
    BY <2>1, ReportType DEF TypeOK, Report
  <2>. QED BY <2>2 DEF TypeOK, ParentStates
<1>2. InFlight' = InFlight /\ InFlight = {} /\ pc' = "returned"
  BY NestedFinite, FS_EmptySet DEF InFlight, CountersExact
<1>3. ThreadsOK' /\ ChannelOK' /\ PendingOK'
  BY <1>2 DEF ThreadsOK, ChannelOK, PendingOK, Parallel
<1>4. CountersExact'
  BY <1>2 DEF CountersExact
<1>5. SchedulerOK' /\ StartedInOrder' /\ WaitsOnlyWhenFull' /\ NeverStalls'
  BY <1>2 DEF SchedulerOK, StartedInOrder, WaitsOnlyWhenFull, NeverStalls, Parallel
<1>. QED BY <1>1, <1>3, <1>4, <1>5

-----------------------------------------------------------------------------
(***************************************************************************)
(* The threads.  No step of theirs touches the parent's variables, takes a *)
(* job out of flight, or brings one in.                                    *)
(***************************************************************************)
ParentUnchanged ==
  UNCHANGED <<pc, args, pending, counters, staging, report>>

LEMMA ThreadFrame ==
  ASSUME IInv, ParentUnchanged, TypeOK', ChannelOK',
         NEW n \in Nested, worker[n] \notin {"none", "received"},
         NEW st \in WorkerStates \ {"none", "received"},
         worker' = [worker EXCEPT ![n] = st]
  PROVE  IInv'
<1>. USE DEF IInv, ParentUnchanged, args, counters, staging
<1>1. worker \in [Nested -> WorkerStates]
  BY DEF TypeOK
<1>2. InFlight' = InFlight
  BY <1>1 DEF InFlight
<1>3. \A m \in Nested : worker'[m] = "none" <=> worker[m] = "none"
  BY <1>1
<1>4. ThreadsOK'
  BY <1>2, <1>3 DEF ThreadsOK, Parallel
<1>5. PendingOK'
  <2>1. \A i \in 1 .. Len(pending) : pending[i] \in Nested
    BY ElementOfSeq DEF TypeOK
  <2>. QED BY <1>3, <2>1 DEF PendingOK
<1>6. CountersExact'
  BY <1>2 DEF CountersExact
<1>7. StartedInOrder'
  BY <1>3 DEF StartedInOrder
<1>8. SchedulerOK' /\ WaitsOnlyWhenFull' /\ NeverStalls'
  BY DEF SchedulerOK, WaitsOnlyWhenFull, NeverStalls, Parallel, CanAdmit, FrontSize
<1>. QED BY <1>4, <1>5, <1>6, <1>7, <1>8

\* steps that do not send leave the channel as it is
LEMMA ChannelKept ==
  ASSUME TypeOK, ChannelOK, NEW n \in Nested, worker[n] # "sent",
         NEW st, worker' = [worker EXCEPT ![n] = st], channel' = channel
  PROVE  ChannelOK'
<1>1. \A i \in 1 .. Len(channel) : channel[i] \in Nested /\ channel[i] # n
  BY ElementOfSeq DEF TypeOK, ChannelOK
<1>. QED BY <1>1 DEF ChannelOK, TypeOK

LEMMA WorkerStepsInv ==
  ASSUME NEW n \in Nested
  PROVE  IInv /\ (WorkerStep(n) \/ WorkerPanic(n)) => IInv'
<1>. SUFFICES ASSUME IInv, WorkerStep(n) \/ WorkerPanic(n) PROVE IInv'
  OBVIOUS
<1>. USE DEF IInv, ParentUnchanged, args, counters, staging, WorkerStates
<1>1. CASE WorkerConvert(n)
  <2>1. TypeOK'
    BY <1>1 DEF WorkerConvert, Convert, TypeOK
  <2>2. ChannelOK'
    BY <1>1, ChannelKept DEF WorkerConvert
  <2>. QED BY <1>1, <2>1, <2>2, ThreadFrame DEF WorkerConvert
<1>2. CASE WorkerRemove(n)
  <2>1. TypeOK'
    BY <1>2 DEF WorkerRemove, TypeOK
  <2>2. ChannelOK'
    BY <1>2, ChannelKept DEF WorkerRemove
  <2>. QED BY <1>2, <2>1, <2>2, ThreadFrame DEF WorkerRemove
<1>3. CASE WorkerSend(n)
  <2>1. TypeOK'
    BY <1>3 DEF WorkerSend, TypeOK
  <2>2. ChannelOK'
    <3>1. /\ channel \in Seq(Nested) /\ Len(channel) \in Nat
          /\ Len(channel') = Len(channel) + 1
          /\ \A i \in 1 .. Len(channel) : channel'[i] = channel[i]
          /\ channel'[Len(channel) + 1] = n
      BY <1>3 DEF WorkerSend, TypeOK
    <3>2. \A i \in 1 .. Len(channel) : channel[i] \in Nested /\ channel[i] # n
      BY <1>3, <3>1, ElementOfSeq DEF WorkerSend, ChannelOK
    <3>3. \A i \in 1 .. Len(channel) : worker'[channel'[i]] = "sent"
      BY <1>3, <3>1, <3>2 DEF WorkerSend, ChannelOK, TypeOK
    <3>4. worker'[channel'[Len(channel) + 1]] = "sent"
      BY <1>3, <3>1 DEF WorkerSend, TypeOK
    <3>5. ASSUME NEW i \in 1 .. Len(channel'), NEW j \in 1 .. Len(channel'),
                 channel'[i] = channel'[j]
          PROVE  i = j
      <4>1. i = Len(channel) + 1 \/ i \in 1 .. Len(channel)
        BY <3>1
      <4>2. j = Len(channel) + 1 \/ j \in 1 .. Len(channel)
        BY <3>1
      <4>. QED BY <3>1, <3>2, <3>5, <4>1, <4>2 DEF ChannelOK
    <3>. QED BY <3>1, <3>3, <3>4, <3>5 DEF ChannelOK
  <2>. QED BY <1>3, <2>1, <2>2, ThreadFrame DEF WorkerSend
<1>4. CASE WorkerPanic(n)
  <2>1. TypeOK'
    BY <1>4 DEF WorkerPanic, TypeOK
  <2>2. ChannelOK'
    BY <1>4, ChannelKept DEF WorkerPanic
  <2>. QED BY <1>4, <2>1, <2>2, ThreadFrame DEF WorkerPanic
<1>. QED BY <1>1, <1>2, <1>3, <1>4 DEF WorkerStep

LEMMA StutterStep == IInv /\ UNCHANGED vars => IInv'
<1>. SUFFICES ASSUME IInv, UNCHANGED vars PROVE IInv'
  OBVIOUS
<1>. USE DEF IInv, vars, args, counters, staging, world
<1>1. TypeOK'
  BY DEF TypeOK
<1>2. InFlight' = InFlight
  BY DEF InFlight
<1>3. ThreadsOK' /\ ChannelOK' /\ PendingOK'
  BY <1>2 DEF ThreadsOK, ChannelOK, PendingOK, Parallel
<1>4. CountersExact'
  BY <1>2 DEF CountersExact
<1>5. SchedulerOK' /\ StartedInOrder' /\ WaitsOnlyWhenFull' /\ NeverStalls'
  BY DEF SchedulerOK, StartedInOrder, WaitsOnlyWhenFull, NeverStalls, Parallel,
         CanAdmit, FrontSize
<1>. QED BY <1>1, <1>3, <1>4, <1>5

-----------------------------------------------------------------------------
(***************************************************************************)
(* IInv is an invariant of the scheduler.                                  *)
(***************************************************************************)
THEOREM Invariance == Spec => []IInv
<1>1. Init => IInv
  BY InitInv
<1>2. IInv /\ [Next]_vars => IInv'
  <2>. SUFFICES ASSUME IInv, [Next]_vars PROVE IInv'
    OBVIOUS
  <2>1. CASE Staging
    BY <2>1, StageStep, StageSkipStep, StagingDoneStep, StartJobsStep DEF Staging
  <2>2. CASE Serial
    BY <2>2, SerialConvertStep, SerialCleanupStep, SerialEndStep DEF Serial
  <2>3. CASE SerialPanic
    BY <2>3, SerialEndStep
  <2>4. CASE Scheduler
    BY <2>4, SpawnStep, SpawnDoneStep, SchedulerLoopStep, ReceiveStep, ScopeEndStep
    DEF Scheduler
  <2>5. CASE \E n \in Nested : WorkerStep(n) \/ WorkerPanic(n)
    BY <2>5, WorkerStepsInv
  <2>6. CASE Terminated \/ UNCHANGED vars
    BY <2>6, StutterStep DEF Terminated
  <2>. QED BY <2>1, <2>2, <2>3, <2>4, <2>5, <2>6 DEF Next
<1>. QED BY <1>1, <1>2, PTL DEF Spec

(***************************************************************************)
(* The state of the batch is well formed in every reachable state.         *)
(***************************************************************************)
THEOREM TypeCorrect == Spec => []TypeOK
<1>1. IInv => TypeOK
  BY DEF IInv
<1>. QED BY <1>1, Invariance, PTL

(***************************************************************************)
(* running_count and running_sum are exact for every schedule of threads,  *)
(* every budget below the largest word, and every vector of sizes.         *)
(***************************************************************************)
THEOREM CountersAreExact == Spec => []CountersExact
<1>1. IInv => CountersExact
  BY DEF IInv
<1>. QED BY <1>1, Invariance, PTL

LEMMA LiveInFlight == Live \in SUBSET InFlight /\ InFlight \in SUBSET Nested
BY DEF Live, InFlight

(***************************************************************************)
(* There are never more conversion threads than nested workers.            *)
(***************************************************************************)
THEOREM WorkersAreBounded == Spec => []WorkersBounded
<1>1. IInv => WorkersBounded
  <2>. SUFFICES ASSUME IInv, Live # {} PROVE Cardinality(Live) <= max_workers
    BY DEF WorkersBounded
  <2>1. Parallel
    BY LiveInFlight DEF IInv, ThreadsOK
  <2>2. Cardinality(InFlight) <= max_workers
    BY <2>1 DEF IInv, SchedulerOK, CountersExact
  <2>3. Cardinality(Live) <= Cardinality(InFlight)
    BY LiveInFlight, NestedFinite, FS_Subset
  <2>4. Cardinality(InFlight) \in Nat /\ Cardinality(Live) \in Nat
    BY LiveInFlight, NestedFinite
  <2>. QED BY <2>2, <2>3, <2>4 DEF IInv, TypeOK
<1>. QED BY <1>1, Invariance, PTL

(***************************************************************************)
(* Two or more conversion threads never exceed the size budget together.   *)
(***************************************************************************)
THEOREM BudgetIsRespected == Spec => []BudgetRespected
<1>1. IInv => BudgetRespected
  <2>. SUFFICES ASSUME IInv, size_budget \in LimitingBudgets, Cardinality(Live) > 1
                PROVE  Weight[Live] <= size_budget
    BY DEF BudgetRespected
  <2>1. IsFiniteSet(InFlight) /\ Cardinality(Live) <= Cardinality(InFlight)
    BY LiveInFlight, NestedFinite, FS_Subset
  <2>2. Cardinality(InFlight) \in Nat /\ Cardinality(Live) \in Nat
    BY LiveInFlight, NestedFinite
  <2>3. running_count > 1 /\ running_sum = Weight[InFlight]
    BY <2>1, <2>2 DEF IInv, CountersExact
  <2>4. running_sum <= size_budget
    BY <2>3 DEF IInv, SchedulerOK
  <2>5. Weight[Live] <= Weight[InFlight] /\ Weight[Live] \in Nat /\ Weight[InFlight] \in Nat
    BY LiveInFlight, WeightMonotone, WeightAssumption
  <2>. QED BY <2>3, <2>4, <2>5 DEF IInv, TypeOK, U64
<1>. QED BY <1>1, Invariance, PTL

(***************************************************************************)
(* The scheduler never stalls: at the head of its loop some job runs, and  *)
(* it leaves the loop with every job finished.                             *)
(***************************************************************************)
THEOREM SchedulerNeverStalls == Spec => [](NeverStalls /\ WaitsOnlyWhenFull)
<1>1. IInv => NeverStalls /\ WaitsOnlyWhenFull
  BY DEF IInv
<1>. QED BY <1>1, Invariance, PTL

(***************************************************************************)
(* Jobs start smallest first.                                              *)
(***************************************************************************)
THEOREM JobsStartInOrder == Spec => []StartedInOrder
<1>1. IInv => StartedInOrder
  BY DEF IInv
<1>. QED BY <1>1, Invariance, PTL

-----------------------------------------------------------------------------
(***************************************************************************)
(* The books of the nested batch, for any archive, sizes, worker count,    *)
(* budget, schedule and set of conversions that may panic: BatchInv is     *)
(* inductive under IInv, nothing is left behind when the batch returns,    *)
(* and the scheduler implements NestedBatch.                               *)
(***************************************************************************)

(* What the two parts of the invariant need of a step.                     *)

\* the entry is where it was, and what is known of it has not changed
LEMMA EntryKept ==
  ASSUME NEW n \in Nested, EntryOK(n),
         worker'[n] = worker[n], result'[n] = result[n],
         n \in outer' <=> n \in outer, n \in staged' => n \in staged,
         use_solid_pass' = use_solid_pass,
         n \in Waiting' <=> n \in Waiting, n \in InHand' <=> n \in InHand,
         (pc' = "staging" /\ n >= cursor') <=> (pc = "staging" /\ n >= cursor)
  PROVE  EntryOK(n)'
BY DEF EntryOK, Partial

LEMMA TallyKept ==
  ASSUME TallyOK, UNCHANGED <<converted, skipped, stage_skipped>>, Counted' = Counted,
         \A n \in Counted : result'[n] = result[n], Unstaged' = Unstaged
  PROVE  TallyOK'
<1>1. Seen("ok")' = Seen("ok") /\ Seen("err")' = Seen("err")
  BY DEF Seen
<1>. QED BY <1>1 DEF TallyOK

LEMMA CountedAre ==
  ASSUME IInv
  PROVE  Counted \in SUBSET Nested /\ InHand \in SUBSET Waiting /\ Waiting \in SUBSET Nested
<1>1. Waiting \in SUBSET Nested
  BY ElementOfSeq DEF IInv, TypeOK, Waiting
<1>2. pc = "serial_cleanup" => Head(pending) \in Waiting
  <2>. SUFFICES ASSUME pc = "serial_cleanup" PROVE Head(pending) \in Waiting
    OBVIOUS
  <2>1. pending \in Seq(Nested) /\ pending # <<>>
    BY DEF IInv, TypeOK, ThreadsOK
  <2>2. Head(pending) = pending[1] /\ 1 \in 1 .. Len(pending)
    BY <2>1, TailFacts
  <2>. QED BY <2>2 DEF Waiting
<1>. QED BY <1>1, <1>2 DEF Counted, InHand

\* one more outcome is seen
LEMMA TallyGrows ==
  ASSUME IInv, TallyOK, NEW n \in Nested, n \notin Counted, Counted' = Counted \cup {n},
         \A m \in Counted : result'[m] = result[m], result'[n] \in {"ok", "err"},
         Count(result'[n]), stage_skipped' = stage_skipped, Unstaged' = Unstaged
  PROVE  TallyOK'
<1>1. /\ IsFiniteSet(Seen("ok")) /\ Cardinality(Seen("ok")) \in Nat
      /\ IsFiniteSet(Seen("err")) /\ Cardinality(Seen("err")) \in Nat
  BY CountedAre, NestedFinite DEF Seen
<1>2. n \notin Seen("ok") /\ n \notin Seen("err")
  BY DEF Seen
<1>3. CASE result'[n] = "ok"
  <2>1. Seen("ok")' = Seen("ok") \cup {n} /\ Seen("err")' = Seen("err")
    BY <1>3 DEF Seen
  <2>2. Cardinality(Seen("ok")') = Cardinality(Seen("ok")) + 1
    BY <1>1, <1>2, <2>1, FS_AddElement
  <2>3. converted' = converted + 1 /\ skipped' = skipped
    BY <1>3 DEF Count, IInv, TypeOK
  <2>. QED BY <2>1, <2>2, <2>3 DEF TallyOK
<1>4. CASE result'[n] = "err"
  <2>1. Seen("err")' = Seen("err") \cup {n} /\ Seen("ok")' = Seen("ok")
    BY <1>4 DEF Seen
  <2>2. Cardinality(Seen("err")') = Cardinality(Seen("err")) + 1
    BY <1>1, <1>2, <2>1, FS_AddElement
  <2>3. converted' = converted /\ skipped' = skipped + 1
    BY <1>4 DEF Count, IInv, TypeOK
  <2>. QED BY <2>1, <2>2, <2>3 DEF TallyOK
<1>. QED BY <1>3, <1>4

\* the batch has not returned while the parent or a thread still moves
LEMMA ReturnedKept ==
  ASSUME ReturnedOK, UNCHANGED <<pc, report>>, pc \in {"staging", "sorting", "returned"} => pending' = pending
  PROVE  ReturnedOK'
BY DEF ReturnedOK

-----------------------------------------------------------------------------
(* The initial states.                                                     *)

LEMMA BatchInit == Init => BatchInv
<1>. SUFFICES ASSUME Init PROVE BatchInv
  OBVIOUS
<1>. USE DEF Init, Waiting, InHand, Counted
<1>1. Waiting = {} /\ Counted = {}
  OBVIOUS
<1>2. ASSUME NEW n \in Nested PROVE EntryOK(n)
  <2>1. n >= 1
    BY NestCountAssumption DEF Nested
  <2>. QED BY <1>1, <2>1 DEF EntryOK
<1>3. Seen("ok") = {} /\ Seen("err") = {} /\ Unstaged = {}
  BY <1>1 DEF Seen, Unstaged
<1>4. TallyOK
  BY <1>3, FS_EmptySet DEF TallyOK
<1>5. ReturnedOK
  BY DEF ReturnedOK, NoReport
<1>. QED BY <1>2, <1>4, <1>5 DEF BatchInv

-----------------------------------------------------------------------------
(* Staging.                                                                *)

LEMMA StageBooks == IInv /\ BatchInv /\ Stage => BatchInv'
<1>. SUFFICES ASSUME IInv, BatchInv, Stage PROVE BatchInv'
  OBVIOUS
<1>. USE DEF Stage, counters, args
<1>1. cursor \in Nested /\ cursor \in Nat /\ cursor' = cursor + 1
  BY NestCountAssumption DEF IInv, TypeOK, Nested
<1>2. /\ Len(pending) \in Nat /\ Len(pending') = Len(pending) + 1
      /\ \A i \in 1 .. Len(pending) : pending'[i] = pending[i]
      /\ pending'[Len(pending) + 1] = cursor
  BY <1>1 DEF IInv, TypeOK
<1>3. \A i \in 1 .. Len(pending) + 1 : i \in 1 .. Len(pending) \/ i = Len(pending) + 1
  BY <1>2
<1>4. Waiting' = Waiting \cup {cursor}
  BY <1>2, <1>3 DEF Waiting
<1>5. \A i \in 1 .. Len(pending) : pending[i] \in Nat /\ pending[i] < cursor
  BY <1>1, ElementOfSeq, NestCountAssumption DEF IInv, TypeOK, PendingOK, Nested
<1>6. cursor \notin Waiting /\ InHand = {} /\ InHand' = {} /\ Counted' = Counted
  BY <1>1, <1>5 DEF Waiting, InHand, Counted
<1>7. ASSUME NEW n \in Nested PROVE EntryOK(n)'
  <2>0. n \in Nat /\ EntryOK(n)
    BY NestCountAssumption DEF Nested, BatchInv
  <2>1. CASE n = cursor
    <3>1. worker[n] = "none" /\ result[n] = "none"
      BY <1>1, <1>6, <2>0, <2>1 DEF EntryOK, IInv, ThreadsOK
    <3>. QED BY <1>1, <1>4, <1>6, <2>0, <2>1, <3>1 DEF EntryOK, Partial
  <2>2. CASE n # cursor
    BY <1>1, <1>4, <1>6, <2>0, <2>2, EntryKept
  <2>. QED BY <2>1, <2>2
<1>8. TallyOK'
  BY <1>6, TallyKept DEF BatchInv, Unstaged
<1>9. ReturnedOK'
  <2>1. ASSUME NEW i \in 1 .. Len(pending'), NEW j \in 1 .. Len(pending'), i < j
        PROVE  pending'[i] < pending'[j]
    <3>1. i \in 1 .. Len(pending)
      BY <1>2, <2>1
    <3>2. CASE j = Len(pending) + 1
      BY <1>2, <1>5, <3>1, <3>2
    <3>3. CASE j \in 1 .. Len(pending)
      BY <1>2, <2>1, <3>1, <3>3 DEF BatchInv, ReturnedOK
    <3>. QED BY <1>2, <1>3, <3>2, <3>3
  <2>. QED BY <2>1 DEF BatchInv, ReturnedOK
<1>. QED BY <1>7, <1>8, <1>9 DEF BatchInv

LEMMA StageSkipBooks == IInv /\ BatchInv /\ StageSkip => BatchInv'
<1>. SUFFICES ASSUME IInv, BatchInv, StageSkip PROVE BatchInv'
  OBVIOUS
<1>. USE DEF StageSkip, counters, args
<1>1. cursor \in Nested /\ cursor \in Nat /\ cursor' = cursor + 1
  BY NestCountAssumption DEF IInv, TypeOK, Nested
<1>2. \A i \in 1 .. Len(pending) : pending[i] \in Nat /\ pending[i] < cursor
  BY <1>1, ElementOfSeq, NestCountAssumption DEF IInv, TypeOK, PendingOK, Nested
<1>3. /\ cursor \notin Waiting /\ Waiting' = Waiting /\ InHand = {} /\ InHand' = {}
      /\ Counted' = Counted
  BY <1>1, <1>2 DEF Waiting, InHand, Counted
<1>4. worker[cursor] = "none" /\ result[cursor] = "none" /\ EntryOK(cursor)
  BY <1>1, <1>3 DEF BatchInv, EntryOK, IInv, ThreadsOK
<1>5. result \in [Nested -> {"none", "ok", "err", "unstaged"}]
  BY DEF IInv, TypeOK
<1>6. ASSUME NEW n \in Nested PROVE EntryOK(n)'
  <2>0. n \in Nat /\ EntryOK(n)
    BY NestCountAssumption DEF Nested, BatchInv
  <2>1. CASE n = cursor
    <3>1. n \in staged' => n \in Stuck \cup Partial'
      <4>1. n \notin staged \/ n \in Stuck
        BY <1>3, <1>4, <2>1 DEF EntryOK, Partial
      <4>. QED BY <1>4, <1>5, <2>1, <4>1 DEF Partial
    <3>. QED BY <1>1, <1>3, <1>4, <1>5, <2>1, <3>1 DEF EntryOK
  <2>2. CASE n # cursor
    <3>1. n \in staged' => n \in staged
      BY <2>2
    <3>. QED BY <1>1, <1>3, <1>5, <2>0, <2>2, <3>1, EntryKept
  <2>. QED BY <2>1, <2>2
<1>7. TallyOK'
  <2>1. Unstaged' = Unstaged \cup {cursor} /\ cursor \notin Unstaged
    BY <1>1, <1>4, <1>5 DEF Unstaged
  <2>2. Cardinality(Unstaged') = Cardinality(Unstaged) + 1
    BY <2>1, NestedFinite, FS_AddElement DEF Unstaged
  <2>3. cursor \notin Counted
    BY <1>3, <1>4 DEF Counted
  <2>4. Seen("ok")' = Seen("ok") /\ Seen("err")' = Seen("err")
    BY <1>3, <1>5, <2>3 DEF Seen, Counted
  <2>. QED BY <2>2, <2>4 DEF BatchInv, TallyOK
<1>8. ReturnedOK'
  BY DEF BatchInv, ReturnedOK
<1>. QED BY <1>6, <1>7, <1>8 DEF BatchInv

LEMMA StagingDoneBooks == IInv /\ BatchInv /\ StagingDone => BatchInv'
<1>. SUFFICES ASSUME IInv, BatchInv, StagingDone PROVE BatchInv'
  OBVIOUS
<1>. USE DEF StagingDone, counters, args, staging, world
<1>1. /\ Waiting' = Waiting /\ InHand = {} /\ InHand' = {} /\ Counted' = Counted
  BY DEF Waiting, InHand, Counted
<1>2. ASSUME NEW n \in Nested PROVE EntryOK(n)'
  <2>1. n \in Nat /\ cursor \in Nat /\ ~(n >= cursor) /\ EntryOK(n)
    BY NestCountAssumption DEF Nested, BatchInv, IInv, TypeOK
  <2>. QED BY <1>1, <2>1, EntryKept
<1>3. TallyOK'
  BY <1>1, TallyKept DEF BatchInv, Unstaged
<1>4. ReturnedOK'
  BY DEF BatchInv, ReturnedOK
<1>. QED BY <1>2, <1>3, <1>4 DEF BatchInv

\* sorting keeps the jobs: as many distinct ones are left as there were
LEMMA SortKeepsJobs ==
  ASSUME NEW q \in Seq(Nested), \A i, j \in 1 .. Len(q) : i < j => q[i] < q[j],
         NEW sorted \in [1 .. Len(q) -> {q[i] : i \in 1 .. Len(q)}], SmallestFirst(sorted)
  PROVE  {sorted[i] : i \in 1 .. Len(sorted)} = {q[i] : i \in 1 .. Len(q)}
<1>. DEFINE S == {q[i] : i \in 1 .. Len(q)}
            D == 1 .. Len(q)
            f == [i \in D |-> q[i]]
<1>0. Len(q) \in Nat /\ S \in SUBSET Nested /\ \A i \in D : q[i] \in Nat
  BY ElementOfSeq, NestCountAssumption DEF Nested
<1>1. sorted \in Seq(S) /\ Len(sorted) = Len(q)
  BY <1>0, FunctionIsSeq
<1>2. IsFiniteSet(D) /\ IsFiniteSet(S)
  BY <1>0, FS_Interval, NestedFinite
<1>3. f \in Bijection(D, S)
  <2>1. \A i, j \in D : i < j \/ j < i \/ i = j
    BY <1>0
  <2>2. \A i, j \in D : q[i] = q[j] => i = j
    BY <1>0, <2>1
  <2>. QED BY <2>2 DEF Bijection, Injection, Surjection, IsInjective
<1>4. Cardinality(D) = Cardinality(S)
  BY <1>2, <1>3, FS_Bijection DEF ExistsBijection
<1>5. sorted \in Injection(D, S)
  <2>1. \A i \in D : sorted[i] \in Nested
    BY <1>0
  <2>2. \A i, j \in D : i < j \/ j < i \/ i = j
    BY <1>0
  <2>3. \A i, j \in D : sorted[i] = sorted[j] => i = j
    BY <1>1, <2>1, <2>2, BeforeOrder DEF SmallestFirst
  <2>. QED BY <2>3 DEF Injection, IsInjective
<1>6. sorted \in Surjection(D, S)
  BY <1>2, <1>4, <1>5, FS_Injection
<1>. QED BY <1>1, <1>6 DEF Surjection

LEMMA StartJobsBooks == IInv /\ BatchInv /\ StartJobs => BatchInv'
<1>. SUFFICES ASSUME IInv, BatchInv, StartJobs PROVE BatchInv'
  OBVIOUS
<1>1. pc = "sorting" /\ pending \in Seq(Nested)
  BY DEF StartJobs, IInv, TypeOK
<1>2. PICK sorted \in [1 .. Len(pending) -> {pending[i] : i \in 1 .. Len(pending)}] :
        SmallestFirst(sorted) /\ pending' = sorted
  BY DEF StartJobs
<1>3. Waiting' = Waiting
  BY <1>1, <1>2, SortKeepsJobs DEF Waiting, BatchInv, ReturnedOK
<1>4. /\ UNCHANGED <<converted, skipped, stage_skipped, worker, result, staged, outer, cursor,
                     use_solid_pass>>
      /\ pc' \in {"returned", "serial", "spawning"}
  BY DEF StartJobs, counters, world
<1>5. InHand = {} /\ InHand' = {} /\ Counted' = Counted
  BY <1>1, <1>4 DEF InHand, Counted
<1>6. ASSUME NEW n \in Nested PROVE EntryOK(n)'
  BY <1>1, <1>3, <1>4, <1>5, EntryKept DEF BatchInv
<1>7. TallyOK'
  BY <1>4, <1>5, TallyKept DEF BatchInv, Unstaged
<1>8. ReturnedOK'
  <2>1. CASE pending = <<>>
    <3>1. pc' = "returned" /\ report'.returned = TRUE
      BY <2>1 DEF StartJobs
    <3>2. pending' = <<>>
      <4>1. Len(pending) = 0
        BY <2>1
      <4>2. pending' \in Seq(Nested) /\ Len(pending') = 0
        BY <1>1, <1>2, <4>1, FunctionIsSeq, SeqMonotonic, ElementOfSeq, CountedAre DEF Waiting
      <4>. QED BY <4>2, EmptySeq
    <3>. QED BY <3>1, <3>2 DEF ReturnedOK
  <2>2. CASE pending # <<>>
    <3>1. pc' \in {"serial", "spawning"} /\ report' = report
      BY <2>2 DEF StartJobs
    <3>. QED BY <1>1, <3>1 DEF BatchInv, ReturnedOK
  <2>. QED BY <2>1, <2>2
<1>. QED BY <1>6, <1>7, <1>8 DEF BatchInv

-----------------------------------------------------------------------------
(* The parent, once the jobs are sorted.                                   *)

\* a step of the parent that moves no job and counts nothing
LEMMA ParentBooks ==
  ASSUME IInv, BatchInv, UNCHANGED <<pending, converted, skipped, use_solid_pass, staging, world>>,
         pc \notin {"staging", "serial_cleanup"}, pc' \notin {"staging", "serial_cleanup"},
         ReturnedOK'
  PROVE  BatchInv'
<1>. USE DEF staging, world
<1>1. Waiting' = Waiting /\ InHand = {} /\ InHand' = {} /\ Counted' = Counted
  BY DEF Waiting, InHand, Counted
<1>2. ASSUME NEW n \in Nested PROVE EntryOK(n)'
  BY <1>1, EntryKept DEF BatchInv
<1>3. TallyOK'
  BY <1>1, TallyKept DEF BatchInv, Unstaged
<1>. QED BY <1>2, <1>3 DEF BatchInv

LEMMA ReturnBooks ==
  ASSUME IInv, BatchInv, SerialReturn \/ SerialPanic \/ ScopeEnd \/ SpawnDone \/ SchedulerLoop
  PROVE  BatchInv'
<1>1. CASE SerialReturn
  <2>1. ReturnedOK'
    BY <1>1 DEF SerialReturn, Report, ReturnedOK
  <2>. QED BY <1>1, <2>1, ParentBooks DEF SerialReturn, counters, args
<1>2. CASE SerialPanic
  <2>1. ReturnedOK'
    BY <1>2 DEF SerialPanic, ReturnedOK, BatchInv
  <2>. QED BY <1>2, <2>1, ParentBooks DEF SerialPanic, counters, args
<1>3. CASE ScopeEnd
  <2>1. ReturnedOK'
    BY <1>3 DEF ScopeEnd, Report, ReturnedOK, IInv, NeverStalls
  <2>. QED BY <1>3, <2>1, ParentBooks DEF ScopeEnd, counters, args
<1>4. CASE SpawnDone
  <2>1. ReturnedOK'
    BY <1>4 DEF SpawnDone, ReturnedOK, BatchInv
  <2>. QED BY <1>4, <2>1, ParentBooks DEF SpawnDone, counters, args
<1>5. CASE SchedulerLoop
  <2>1. pc = "scheduling" /\ pc' \in {"draining", "receiving", "spawning"}
    BY <1>5 DEF SchedulerLoop
  <2>2. ReturnedOK'
    BY <1>5, <2>1 DEF SchedulerLoop, ReturnedOK, BatchInv
  <2>. QED BY <1>5, <2>1, <2>2, ParentBooks DEF SchedulerLoop, counters, args
<1>. QED BY <1>1, <1>2, <1>3, <1>4, <1>5

\* what is known of the job at the front of the deque
LEMMA FrontFacts ==
  ASSUME IInv, BatchInv, pc \notin {"staging", "sorting"}, pending # <<>>
  PROVE  /\ Head(pending) \in Nested /\ Head(pending) \in Waiting
         /\ worker[Head(pending)] = "none" /\ Tail(pending) \in Seq(Nested)
         /\ Waiting = {Tail(pending)[i] : i \in 1 .. Len(Tail(pending))} \cup {Head(pending)}
         /\ EntryOK(Head(pending))
         /\ worker \in [Nested -> WorkerStates]
         /\ result \in [Nested -> {"none", "ok", "err", "unstaged"}]
<1>. DEFINE n == Head(pending)
            rest == Tail(pending)
<1>1. /\ n \in Nested /\ n = pending[1] /\ rest \in Seq(Nested)
      /\ Len(pending) \in Nat /\ Len(pending) >= 1 /\ Len(rest) = Len(pending) - 1
      /\ \A i \in 1 .. Len(rest) : i + 1 \in 1 .. Len(pending) /\ rest[i] = pending[i + 1]
  BY TailFacts DEF IInv, TypeOK
<1>2. 1 \in 1 .. Len(pending)
  BY <1>1
<1>3. n \in Waiting /\ worker[n] = "none"
  BY <1>1, <1>2 DEF Waiting, IInv, PendingOK
<1>4. \A i \in 1 .. Len(pending) : i = 1 \/ (i - 1 \in 1 .. Len(rest) /\ (i - 1) + 1 = i)
  BY <1>1
<1>5. Waiting = {rest[i] : i \in 1 .. Len(rest)} \cup {n}
  <2>1. ASSUME NEW x \in Waiting PROVE x \in {rest[i] : i \in 1 .. Len(rest)} \cup {n}
    <3>1. PICK i \in 1 .. Len(pending) : x = pending[i]
      BY DEF Waiting
    <3>2. CASE i = 1
      BY <1>1, <3>1, <3>2
    <3>3. CASE i # 1
      <4>1. i - 1 \in 1 .. Len(rest) /\ rest[i - 1] = x
        BY <1>1, <1>4, <3>1, <3>3
      <4>. QED BY <4>1
    <3>. QED BY <3>2, <3>3
  <2>2. \A x \in {rest[i] : i \in 1 .. Len(rest)} : x \in Waiting
    BY <1>1 DEF Waiting
  <2>. QED BY <1>3, <2>1, <2>2
<1>6. EntryOK(n)
  BY <1>1 DEF BatchInv
<1>. QED BY <1>1, <1>3, <1>5, <1>6 DEF IInv, TypeOK

LEMMA SerialConvertBooks == IInv /\ BatchInv /\ SerialConvert => BatchInv'
<1>. SUFFICES ASSUME IInv, BatchInv, SerialConvert PROVE BatchInv'
  OBVIOUS
<1>. DEFINE n == Head(pending)
<1>1. /\ pc = "serial" /\ pc' = "serial_cleanup" /\ pending # <<>>
      /\ Convert(n) /\ Count(result'[n])
      /\ UNCHANGED <<pending, worker, staged, report, cursor, stage_skipped, use_solid_pass>>
  BY DEF SerialConvert, staging, args
<1>2. /\ n \in Nested /\ n \in Waiting /\ worker[n] = "none" /\ EntryOK(n)
      /\ result \in [Nested -> {"none", "ok", "err", "unstaged"}]
  BY <1>1, FrontFacts
<1>3. Waiting' = Waiting /\ InHand = {} /\ InHand' = {n} /\ Counted' = Counted \cup {n}
  BY <1>1 DEF Waiting, InHand, Counted
<1>4. result[n] = "none" /\ n \notin Counted
  BY <1>1, <1>2, <1>3 DEF EntryOK, Counted
<1>5. /\ result'[n] \in {"ok", "err"}
      /\ \A m \in Nested : m # n => result'[m] = result[m] /\ (m \in outer' <=> m \in outer)
      /\ n \in outer' <=> result'[n] = "ok"
  BY <1>1, <1>2, <1>4 DEF Convert, EntryOK
<1>6. ASSUME NEW m \in Nested PROVE EntryOK(m)'
  <2>1. CASE m = n
    BY <1>1, <1>2, <1>3, <1>5, <2>1 DEF EntryOK
  <2>2. CASE m # n
    BY <1>1, <1>3, <1>5, <2>2, EntryKept DEF BatchInv
  <2>. QED BY <2>1, <2>2
<1>7. Unstaged' = Unstaged
  BY <1>4, <1>5 DEF Unstaged
<1>8. \A m \in Counted : result'[m] = result[m]
  BY <1>4, <1>5, CountedAre
<1>9. TallyOK'
  BY <1>1, <1>2, <1>3, <1>4, <1>5, <1>7, <1>8, TallyGrows DEF BatchInv
<1>10. ReturnedOK'
  BY <1>1 DEF BatchInv, ReturnedOK
<1>. QED BY <1>6, <1>9, <1>10 DEF BatchInv

LEMMA SerialCleanupBooks == IInv /\ BatchInv /\ SerialCleanup => BatchInv'
<1>. SUFFICES ASSUME IInv, BatchInv, SerialCleanup PROVE BatchInv'
  OBVIOUS
<1>. DEFINE n == Head(pending)
<1>1. /\ pc = "serial_cleanup" /\ pc' = "serial" /\ pending # <<>> /\ pending' = Tail(pending)
      /\ staged' = staged \ ({n} \ Stuck) /\ worker' = [worker EXCEPT ![n] = "received"]
      /\ UNCHANGED <<converted, skipped, stage_skipped, cursor, result, outer, report,
                     use_solid_pass>>
  BY DEF SerialCleanup, staging, counters, args, IInv, ThreadsOK
<1>2. /\ n \in Nested /\ n \in Waiting /\ worker[n] = "none" /\ EntryOK(n)
      /\ worker \in [Nested -> WorkerStates] /\ Waiting = Waiting' \cup {n}
  BY <1>1, FrontFacts DEF Waiting
<1>3. InHand = {n} /\ InHand' = {} /\ Counted' = Counted
  BY <1>1, <1>2 DEF InHand, Counted
<1>4. ASSUME NEW m \in Nested PROVE EntryOK(m)'
  <2>1. CASE m = n
    BY <1>1, <1>2, <1>3, <2>1 DEF EntryOK
  <2>2. CASE m # n
    BY <1>1, <1>2, <1>3, <2>2, EntryKept DEF BatchInv
  <2>. QED BY <2>1, <2>2
<1>5. TallyOK'
  BY <1>1, <1>3, TallyKept DEF BatchInv, Unstaged
<1>6. ReturnedOK'
  BY <1>1 DEF BatchInv, ReturnedOK
<1>. QED BY <1>4, <1>5, <1>6 DEF BatchInv

LEMMA SpawnBooks == IInv /\ BatchInv /\ Spawn => BatchInv'
<1>. SUFFICES ASSUME IInv, BatchInv, Spawn PROVE BatchInv'
  OBVIOUS
<1>. DEFINE n == Head(pending)
<1>1. /\ pc = "spawning" /\ pc' = pc /\ pending # <<>> /\ pending' = Tail(pending)
      /\ worker' = [worker EXCEPT ![n] = "converting"]
      /\ UNCHANGED <<converted, skipped, stage_skipped, cursor, result, staged, outer, report,
                     use_solid_pass>>
  BY DEF Spawn, staging, args
<1>2. /\ n \in Nested /\ n \in Waiting /\ worker[n] = "none" /\ EntryOK(n)
      /\ worker \in [Nested -> WorkerStates] /\ Waiting = Waiting' \cup {n}
  BY <1>1, FrontFacts DEF Waiting
<1>3. InHand = {} /\ InHand' = {} /\ Counted' = Counted
  BY <1>1, <1>2 DEF InHand, Counted
<1>4. ASSUME NEW m \in Nested PROVE EntryOK(m)'
  <2>1. CASE m = n
    BY <1>1, <1>2, <1>3, <2>1 DEF EntryOK
  <2>2. CASE m # n
    BY <1>1, <1>2, <1>3, <2>2, EntryKept DEF BatchInv
  <2>. QED BY <2>1, <2>2
<1>5. TallyOK'
  BY <1>1, <1>3, TallyKept DEF BatchInv, Unstaged
<1>6. ReturnedOK'
  BY <1>1 DEF BatchInv, ReturnedOK
<1>. QED BY <1>4, <1>5, <1>6 DEF BatchInv

LEMMA ReceiveBooks == IInv /\ BatchInv /\ Receive => BatchInv'
<1>. SUFFICES ASSUME IInv, BatchInv, Receive PROVE BatchInv'
  OBVIOUS
<1>. DEFINE n == Head(channel)
<1>1. /\ pc = "receiving" /\ pc' = "spawning" /\ channel # <<>>
      /\ worker' = [worker EXCEPT ![n] = "received"] /\ Count(result[n])
      /\ UNCHANGED <<pending, stage_skipped, cursor, result, staged, outer, report,
                     use_solid_pass>>
  BY DEF Receive, staging, args
<1>2. n \in Nested /\ n = channel[1] /\ 1 \in 1 .. Len(channel)
  BY <1>1, TailFacts DEF IInv, TypeOK
<1>3. worker[n] = "sent" /\ worker \in [Nested -> WorkerStates]
  BY <1>2 DEF IInv, ChannelOK, TypeOK
<1>4. InHand = {} /\ InHand' = {} /\ Counted' = Counted \cup {n} /\ n \notin Counted
  BY <1>1, <1>2, <1>3 DEF InHand, Counted
<1>5. Waiting' = Waiting /\ Unstaged' = Unstaged
  BY <1>1 DEF Waiting, Unstaged
<1>6. EntryOK(n) /\ result[n] \in {"ok", "err"}
  BY <1>2, <1>3 DEF BatchInv, EntryOK
<1>7. ASSUME NEW m \in Nested PROVE EntryOK(m)'
  <2>1. CASE m = n
    BY <1>1, <1>2, <1>3, <1>4, <1>5, <1>6, <2>1 DEF EntryOK, Partial
  <2>2. CASE m # n
    BY <1>1, <1>3, <1>4, <1>5, <2>2, EntryKept DEF BatchInv
  <2>. QED BY <2>1, <2>2
<1>8. TallyOK'
  BY <1>1, <1>2, <1>4, <1>5, <1>6, TallyGrows DEF BatchInv
<1>9. ReturnedOK'
  BY <1>1 DEF BatchInv, ReturnedOK
<1>. QED BY <1>7, <1>8, <1>9 DEF BatchInv

-----------------------------------------------------------------------------
(* The threads.                                                            *)

LEMMA WorkerBooks ==
  ASSUME IInv, BatchInv, NEW n \in Nested, WorkerStep(n) \/ WorkerPanic(n)
  PROVE  BatchInv'
<1>. DEFINE moved == worker'[n]
<1>1. /\ worker \in [Nested -> WorkerStates]
      /\ result \in [Nested -> {"none", "ok", "err", "unstaged"}] /\ EntryOK(n)
  BY DEF IInv, TypeOK, BatchInv
<1>2. /\ worker' = [worker EXCEPT ![n] = moved]
      /\ worker[n] \in {"converting", "removing", "sending"}
      /\ moved \in {"removing", "sending", "sent", "panicked"}
      /\ UNCHANGED <<pc, pending, converted, skipped, stage_skipped, cursor, report,
                     use_solid_pass>>
      /\ staged' \in SUBSET staged
  BY <1>1 DEF WorkerStep, WorkerConvert, WorkerRemove, WorkerSend, WorkerPanic, counters, staging,
              args
<1>3. /\ \A m \in Nested : m # n => result'[m] = result[m] /\ (m \in outer' <=> m \in outer)
      /\ result[n] # "unstaged" /\ result'[n] # "unstaged"
  BY <1>1, <1>2 DEF WorkerStep, WorkerConvert, Convert, WorkerRemove, WorkerSend, WorkerPanic,
                    EntryOK
<1>4. /\ Parallel
      /\ InHand = {} /\ InHand' = {} /\ Waiting' = Waiting /\ Counted' = Counted
      /\ n \notin Counted
  <2>1. n \in InFlight
    BY <1>2 DEF InFlight
  <2>2. Parallel
    BY <2>1 DEF IInv, ThreadsOK
  <2>3. InHand = {} /\ InHand' = {}
    BY <1>2, <2>2 DEF InHand, Parallel
  <2>. QED BY <1>1, <1>2, <2>2, <2>3 DEF Waiting, Counted
<1>5. EntryOK(n)'
  <2>1. CASE WorkerConvert(n)
    BY <1>1, <1>2, <1>4, <2>1 DEF WorkerConvert, Convert, EntryOK, Partial
  <2>2. CASE WorkerRemove(n)
    BY <1>1, <1>2, <1>4, <2>2 DEF WorkerRemove, EntryOK, Partial
  <2>3. CASE WorkerSend(n)
    BY <1>1, <1>2, <1>4, <2>3 DEF WorkerSend, EntryOK, Partial
  <2>4. CASE WorkerPanic(n)
    BY <1>1, <1>2, <1>4, <2>4 DEF WorkerPanic, EntryOK, Partial
  <2>. QED BY <2>1, <2>2, <2>3, <2>4 DEF WorkerStep
<1>6. ASSUME NEW m \in Nested PROVE EntryOK(m)'
  <2>1. CASE m # n
    BY <1>1, <1>2, <1>3, <1>4, <2>1, EntryKept DEF BatchInv
  <2>. QED BY <1>5, <2>1
<1>7. TallyOK'
  <2>1. Unstaged' = Unstaged
    BY <1>3 DEF Unstaged
  <2>2. \A m \in Counted : result'[m] = result[m]
    BY <1>3, <1>4, CountedAre
  <2>. QED BY <1>2, <1>4, <2>1, <2>2, TallyKept DEF BatchInv
<1>8. ReturnedOK'
  BY <1>2 DEF BatchInv, ReturnedOK
<1>. QED BY <1>6, <1>7, <1>8 DEF BatchInv

-----------------------------------------------------------------------------
(***************************************************************************)
(* The books are kept: BatchInv holds in every state of the batch of       *)
(* src/pipeline/mod.rs, whichever runner it chose.                         *)
(***************************************************************************)
THEOREM BooksAreKept == Spec => []BatchInv
<1>1. IInv /\ BatchInv /\ [Next]_vars => BatchInv'
  <2>. SUFFICES ASSUME IInv, BatchInv, [Next]_vars PROVE BatchInv'
    OBVIOUS
  <2>1. CASE Staging
    BY <2>1, StageBooks, StageSkipBooks, StagingDoneBooks, StartJobsBooks DEF Staging
  <2>2. CASE Serial \/ SerialPanic
    BY <2>2, SerialConvertBooks, SerialCleanupBooks, ReturnBooks DEF Serial
  <2>3. CASE Scheduler
    BY <2>3, SpawnBooks, ReceiveBooks, ReturnBooks DEF Scheduler
  <2>4. CASE \E n \in Nested : WorkerStep(n) \/ WorkerPanic(n)
    BY <2>4, WorkerBooks
  <2>5. CASE Terminated \/ UNCHANGED vars
    <3>. USE <2>5 DEF Terminated, vars, args, staging, counters, world
    <3>1. Waiting' = Waiting /\ InHand' = InHand /\ Counted' = Counted
      BY DEF Waiting, InHand, Counted
    <3>2. ASSUME NEW n \in Nested PROVE EntryOK(n)'
      BY <3>1, EntryKept DEF BatchInv
    <3>3. TallyOK'
      BY <3>1, TallyKept DEF BatchInv, Unstaged
    <3>4. ReturnedOK'
      BY DEF BatchInv, ReturnedOK
    <3>. QED BY <3>2, <3>3, <3>4 DEF BatchInv
  <2>. QED BY <2>1, <2>2, <2>3, <2>4, <2>5 DEF Next
<1>. QED BY <1>1, BatchInit, Invariance, PTL DEF Spec

(***************************************************************************)
(* When convert_nested_size_aware returns, no worker thread is left that   *)
(* could hold the outer writer, no outcome is unread, and the source file  *)
(* of every job has been removed unless its removal failed: what else is   *)
(* left comes from extractions that failed.                                *)
(***************************************************************************)
THEOREM NothingIsLeftBehind == Spec => []NothingLeftBehind
<1>1. IInv /\ BatchInv => NothingLeftBehind
  <2>. SUFFICES ASSUME IInv, BatchInv, report.returned
                PROVE  Live = {} /\ channel = <<>> /\ staged \subseteq Stuck \cup Partial
    BY DEF NothingLeftBehind
  <2>1. pc = "returned" /\ pending = <<>>
    BY DEF BatchInv, ReturnedOK
  <2>2. InFlight = {} /\ Live = {}
    BY <2>1, LiveInFlight DEF IInv, ThreadsOK, Parallel
  <2>3. channel = <<>>
    <3>1. ASSUME NEW i \in 1 .. Len(channel) PROVE FALSE
      <4>1. channel[i] \in Nested /\ worker[channel[i]] = "sent"
        BY ElementOfSeq DEF IInv, TypeOK, ChannelOK
      <4>. QED BY <2>2, <4>1 DEF InFlight
    <3>2. channel \in Seq(Nested) /\ Len(channel) \in Nat
      BY DEF IInv, TypeOK
    <3>3. Len(channel) = 0
      BY <3>1, <3>2
    <3>. QED BY <3>2, <3>3, EmptySeq
  <2>4. \A n \in Nested : n \in staged => n \in Stuck \cup Partial
    <3>1. Waiting = {}
      BY <2>1 DEF Waiting
    <3>2. ASSUME NEW n \in Nested, n \in staged PROVE n \in Stuck \cup Partial
      <4>1. EntryOK(n)
        BY DEF BatchInv
      <4>2. worker[n] \in {"none", "received"}
        BY <2>2 DEF InFlight
      <4>. QED BY <3>1, <3>2, <4>1, <4>2 DEF EntryOK
    <3>. QED BY <3>2
  <2>. QED BY <2>2, <2>3, <2>4 DEF IInv, TypeOK
<1>. QED BY <1>1, Invariance, BooksAreKept, PTL

-----------------------------------------------------------------------------
(***************************************************************************)
(* The refinement of NestedBatch.                                          *)
(***************************************************************************)
Dropped == {n \in Nested : result[n] \in {"err", "unstaged"}}

\* the instance has a copy of its own of the operator of FiniteSets
LEMMA SameCardinality == \A S : Batch!Cardinality(S) = Cardinality(S)
BY DEF Cardinality, Batch!Cardinality

LEMMA UnseenBatch ==
  ASSUME UNCHANGED <<outer, result, report>>
  PROVE  UNCHANGED Batch!vars
BY DEF Batch!vars

\* an entry without an outcome gets one
LEMMA ResolveStep ==
  ASSUME IInv, BatchInv, NEW n \in Nested, result[n] = "none", report' = report,
         \/ result' = [result EXCEPT ![n] = "ok"] /\ outer' = outer \cup {n}
         \/ /\ result' = [result EXCEPT ![n] = "err"] \/ result' = [result EXCEPT ![n] = "unstaged"]
            /\ outer' = outer
  PROVE  Batch!Next
<1>1. result \in [Nested -> {"none", "ok", "err", "unstaged"}] /\ n \notin outer
  BY DEF IInv, TypeOK, BatchInv, EntryOK
<1>2. n \in Batch!Unresolved
  BY <1>1 DEF Batch!Unresolved
<1>3. CASE result' = [result EXCEPT ![n] = "ok"] /\ outer' = outer \cup {n}
  <2>1. Dropped' = Dropped
    BY <1>1, <1>3 DEF Dropped
  <2>2. Batch!Convert(n)
    BY <1>2, <1>3, <2>1 DEF Batch!Convert, Dropped
  <2>. QED BY <2>2 DEF Batch!Next
<1>4. CASE /\ result' = [result EXCEPT ![n] = "err"] \/ result' = [result EXCEPT ![n] = "unstaged"]
           /\ outer' = outer
  <2>1. Dropped' = Dropped \cup {n}
    BY <1>1, <1>4 DEF Dropped
  <2>2. Batch!Skip(n)
    BY <1>2, <1>4, <2>1 DEF Batch!Skip, Dropped
  <2>. QED BY <2>2 DEF Batch!Next
<1>. QED BY <1>3, <1>4

\* with the deque empty and no thread in flight every entry has its outcome, and the counts are those
LEMMA ReturnStep ==
  ASSUME IInv, BatchInv, pending = <<>>, InFlight = {}, pc \notin {"staging", "serial_cleanup", "returned"},
         UNCHANGED <<outer, result>>,
         report' = [converted |-> converted, skipped |-> skipped + stage_skipped, returned |-> TRUE]
  PROVE  Batch!Next
<1>1. Waiting = {} /\ Counted = {n \in Nested : worker[n] = "received"}
  BY DEF Waiting, Counted, InHand
<1>2. ASSUME NEW n \in Nested
      PROVE  /\ n \in outer <=> result[n] = "ok"
             /\ worker[n] = "received" => result[n] \in {"ok", "err"}
             /\ worker[n] # "received" => result[n] = "unstaged"
  <2>1. EntryOK(n) /\ worker[n] \in {"none", "received"}
    BY DEF BatchInv, InFlight
  <2>. QED BY <1>1, <2>1 DEF EntryOK
<1>3. Seen("ok") = outer
  BY <1>1, <1>2 DEF Seen, IInv, TypeOK
<1>4. Dropped = Seen("err") \cup Unstaged /\ Seen("err") \cap Unstaged = {}
  BY <1>1, <1>2 DEF Dropped, Seen, Unstaged
<1>5. Cardinality(Dropped) = Cardinality(Seen("err")) + Cardinality(Unstaged)
  <2>1. /\ IsFiniteSet(Seen("err")) /\ Cardinality(Seen("err")) \in Nat
        /\ IsFiniteSet(Unstaged) /\ Cardinality(Unstaged) \in Nat
    BY CountedAre, NestedFinite DEF Seen, Unstaged
  <2>2. Cardinality(Seen("err") \cup Unstaged)
          = Cardinality(Seen("err")) + Cardinality(Unstaged) - Cardinality(Seen("err") \cap Unstaged)
    BY <2>1, FS_Union
  <2>3. Cardinality(Seen("err") \cap Unstaged) = 0
    BY <1>4, FS_EmptySet
  <2>. QED BY <1>4, <2>1, <2>2, <2>3
<1>6. report' = [converted |-> Cardinality(outer), skipped |-> Cardinality(Dropped), returned |-> TRUE]
  BY <1>3, <1>5 DEF BatchInv, TallyOK
<1>7. Batch!Unresolved = {}
  BY <1>2 DEF Batch!Unresolved
<1>8. ~report.returned
  BY DEF BatchInv, ReturnedOK
<1>9. Dropped' = Dropped
  BY DEF Dropped
<1>10. Batch!Return
  <2>1. report' = [converted |-> Cardinality(outer),
                   skipped |-> Cardinality({n \in Nested : result[n] \in {"err", "unstaged"}}),
                   returned |-> TRUE]
    BY <1>6 DEF Dropped
  <2>2. UNCHANGED <<outer, {n \in Nested : result[n] \in {"err", "unstaged"}}>>
    BY <1>9 DEF Dropped
  <2>. QED BY <1>7, <1>8, <2>1, <2>2, SameCardinality DEF Batch!Return
<1>. QED BY <1>10 DEF Batch!Next

LEMMA StartJobsRefines ==
  ASSUME IInv, BatchInv, StartJobs
  PROVE  Batch!Next \/ UNCHANGED Batch!vars
<1>1. /\ pc = "sorting" /\ UNCHANGED <<outer, result>> /\ InFlight = {}
      /\ \A n \in Nested : worker[n] = "none"
  BY DEF StartJobs, world, IInv, ThreadsOK, Parallel
<1>2. CASE pending = <<>>
  <2>1. Counted = {} /\ Seen("ok") = {} /\ Seen("err") = {}
    BY <1>1 DEF Counted, InHand, Seen
  <2>2. converted = 0 /\ skipped = 0 /\ stage_skipped \in Nat
    BY <2>1, FS_EmptySet DEF BatchInv, TallyOK, IInv, TypeOK
  <2>3. report' = [converted |-> 0, skipped |-> stage_skipped, returned |-> TRUE]
    BY <1>2 DEF StartJobs
  <2>4. 0 + stage_skipped = stage_skipped
    BY <2>2
  <2>. QED BY <1>1, <1>2, <2>2, <2>3, <2>4, ReturnStep
<1>3. CASE pending # <<>>
  BY <1>1, <1>3, UnseenBatch DEF StartJobs
<1>. QED BY <1>2, <1>3

(***************************************************************************)
(* The size-aware scheduler and its serial sibling resolve every nested    *)
(* entry exactly once and report the counts of what they did, for any      *)
(* sizes, budget, number of workers and order of the threads.              *)
(***************************************************************************)
THEOREM SchedulerRefines == Spec => RefinesBatch
<1>1. Init => Batch!Init
  <2>. SUFFICES ASSUME Init PROVE Batch!Init
    OBVIOUS
  <2>1. Dropped = {}
    BY DEF Init, Dropped
  <2>. QED BY <2>1 DEF Init, Batch!Init, Dropped, NoReport, Batch!NoReport
<1>2. IInv /\ BatchInv /\ [Next]_vars => [Batch!Next]_(Batch!vars)
  <2>. SUFFICES ASSUME IInv, BatchInv, [Next]_vars PROVE Batch!Next \/ UNCHANGED Batch!vars
    OBVIOUS
  <2>. USE DEF world
  <2>1. CASE Stage \/ StagingDone
    BY <2>1, UnseenBatch DEF Stage, StagingDone
  <2>2. CASE StageSkip
    <3>1. cursor \in Nested /\ cursor \in Nat
      BY <2>2, NestCountAssumption DEF StageSkip, IInv, TypeOK, Nested
    <3>2. cursor \notin Waiting
      <4>1. \A i \in 1 .. Len(pending) : pending[i] < cursor
        BY <2>2 DEF StageSkip, IInv, PendingOK
      <4>. QED BY <3>1, <4>1 DEF Waiting
    <3>3. result[cursor] = "none"
      BY <2>2, <3>1, <3>2 DEF StageSkip, BatchInv, EntryOK, IInv, ThreadsOK
    <3>. QED BY <2>2, <3>1, <3>3, ResolveStep DEF StageSkip
  <2>3. CASE StartJobs
    BY <2>3, StartJobsRefines
  <2>4. CASE SerialConvert
    <3>1. /\ Head(pending) \in Nested /\ worker[Head(pending)] = "none"
          /\ Head(pending) \in Waiting /\ EntryOK(Head(pending))
      BY <2>4, FrontFacts DEF SerialConvert
    <3>2. result[Head(pending)] = "none"
      BY <2>4, <3>1 DEF SerialConvert, EntryOK, InHand
    <3>3. Convert(Head(pending)) /\ report' = report
      BY <2>4 DEF SerialConvert
    <3>4. Batch!Next
      BY <3>1, <3>2, <3>3, ResolveStep DEF Convert
    <3>. QED BY <3>4
  <2>5. CASE SerialReturn
    <3>1. /\ pending = <<>> /\ pc = "serial" /\ UNCHANGED <<outer, result>>
          /\ report' = [converted |-> converted, skipped |-> skipped + stage_skipped,
                        returned |-> TRUE]
      BY <2>5 DEF SerialReturn, Report
    <3>2. InFlight = {}
      BY <3>1 DEF IInv, ThreadsOK, Parallel
    <3>. QED BY <3>1, <3>2, ReturnStep
  <2>6. CASE SerialCleanup \/ SerialPanic
    BY <2>6, UnseenBatch DEF SerialCleanup, SerialPanic
  <2>7. CASE Spawn \/ SpawnDone \/ SchedulerLoop \/ Receive
    BY <2>7, UnseenBatch DEF Spawn, SpawnDone, SchedulerLoop, Receive
  <2>8. CASE ScopeEnd
    <3>1. InFlight = {}
      BY <2>8, NestedFinite, FS_EmptySet DEF ScopeEnd, InFlight, IInv, CountersExact
    <3>2. /\ pending = <<>> /\ pc = "draining" /\ UNCHANGED <<outer, result>>
          /\ report' = [converted |-> converted, skipped |-> skipped + stage_skipped,
                        returned |-> TRUE]
      BY <2>8 DEF ScopeEnd, Report, IInv, NeverStalls
    <3>. QED BY <3>1, <3>2, ReturnStep
  <2>9. ASSUME NEW n \in Nested, WorkerConvert(n) PROVE Batch!Next
    <3>1. result[n] = "none"
      BY <2>9 DEF WorkerConvert, BatchInv, EntryOK
    <3>. QED BY <2>9, <3>1, ResolveStep DEF WorkerConvert, Convert
  <2>10. ASSUME NEW n \in Nested, WorkerRemove(n) \/ WorkerSend(n) \/ WorkerPanic(n)
         PROVE  UNCHANGED Batch!vars
    BY <2>10, UnseenBatch DEF WorkerRemove, WorkerSend, WorkerPanic
  <2>11. CASE Terminated \/ UNCHANGED vars
    BY <2>11, UnseenBatch DEF Terminated, vars
  <2>. QED BY <2>1, <2>2, <2>3, <2>4, <2>5, <2>6, <2>7, <2>8, <2>9, <2>10, <2>11
           DEF Next, Staging, Serial, Scheduler, WorkerStep
<1>. QED BY <1>1, <1>2, Invariance, BooksAreKept, PTL DEF Spec, RefinesBatch, Batch!Spec

=============================================================================
