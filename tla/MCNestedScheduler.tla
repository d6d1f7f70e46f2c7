------------------------- MODULE MCNestedScheduler -------------------------
(***************************************************************************)
(* Instances of NestedScheduler for TLC: four nested archives of sizes     *)
(* 3, 1, 2, 1 (the third one's size is not in the listing), so that ties,  *)
(* reordering by the sort, budgets below the largest size, and a sum that  *)
(* wraps around MaxU64 = 5 all happen.                                     *)
(***************************************************************************)
EXTENDS NestedScheduler, FiniteSetsExt

MCListedSize == <<3, 1, 0, 1>>
MCDiskSize   == <<1, 1, 2, 3>>

MCWeight == [S \in SUBSET Nested |-> MapThenSumSet(JobSize, S)]

=============================================================================
