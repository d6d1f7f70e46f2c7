----------------------------- MODULE SizePolicy -----------------------------
(***************************************************************************)
(* The size-aware admission policy of nested jobs and the u64 arithmetic   *)
(* of the counters it reads (src/util/size_parse.rs).  Sizes and budgets   *)
(* are u64 in the code; MaxU64 stands for 2^64 - 1 so that the boundary    *)
(* cases can be reached with small numbers.                                *)
(***************************************************************************)
EXTENDS Naturals

CONSTANT MaxU64     \* the largest value of an unsigned word

ASSUME MaxU64Assumption == MaxU64 \in Nat \ {0}

U64 == 0 .. MaxU64

\* mutant: the sum is kept in a wider integer
WrappingAdd_Unbounded(a, b) == a + b

\* u64::saturating_add, u64::saturating_sub, and `+=` of a release build
SaturatingAdd(a, b) == IF a + b > MaxU64 THEN MaxU64 ELSE a + b
SaturatingSub(a, b) == IF a < b THEN 0 ELSE a - b
WrappingAdd(a, b)   == IF a + b > MaxU64 THEN a + b - (MaxU64 + 1) ELSE a + b

\* mutants: the test leaves out the new job's size, or is off by one
CanAdmitNested_IgnoresJob(running_sum, running_count, job_size, budget, max_workers) ==
  /\ max_workers # 0
  /\ running_count < max_workers
  /\ running_count = 0 \/ budget = 0 \/ running_sum <= budget

CanAdmitNested_OneTooMany(running_sum, running_count, job_size, budget, max_workers) ==
  /\ max_workers # 0
  /\ running_count <= max_workers
  /\ \/ running_count = 0
     \/ budget = 0
     \/ SaturatingAdd(running_sum, job_size) <= budget

(***************************************************************************)
(* can_admit_nested: may a job of size job_size start now?  A zero budget  *)
(* means that only the number of workers is limited, and an idle scheduler *)
(* admits a job of any size.                                               *)
(***************************************************************************)
CanAdmitNested(running_sum, running_count, job_size, budget, max_workers) ==
  /\ max_workers # 0
  /\ running_count < max_workers
  /\ \/ running_count = 0
     \/ budget = 0
     \/ SaturatingAdd(running_sum, job_size) <= budget

=============================================================================
