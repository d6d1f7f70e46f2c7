---------------------------- MODULE NestedBatch ----------------------------
(***************************************************************************)
(* What the conversion of the nested archives of one job promises, with no *)
(* word about staging, ordering, workers or channels: every nested entry   *)
(* is resolved once, either by appending its converted archive to the      *)
(* outer archive or by skipping it, and the counts reported in the end are *)
(* the counts of what happened.                                            *)
(***************************************************************************)
EXTENDS Naturals, FiniteSets

CONSTANT Nested        \* the nested entries of the plan

VARIABLES
  outer,     \* entries whose converted archive was appended to the outer one
  dropped,   \* entries that were logged and skipped
  report     \* NoReport, or the counts the batch returned

vars == <<outer, dropped, report>>

NoReport == [converted |-> 0, skipped |-> 0, returned |-> FALSE]

\* Type invariant: entries are resolved one way or the other, and the report holds counts.
TypeOK ==
  /\ outer \in SUBSET Nested
  /\ dropped \in SUBSET Nested
  /\ report \in [converted : Nat, skipped : Nat, returned : BOOLEAN]

Unresolved == Nested \ (outer \cup dropped)

Init ==
  /\ outer = {}
  /\ dropped = {}
  /\ report = NoReport

Convert(n) ==
  /\ n \in Unresolved
  /\ outer' = outer \cup {n}
  /\ UNCHANGED <<dropped, report>>

Skip(n) ==
  /\ n \in Unresolved
  /\ dropped' = dropped \cup {n}
  /\ UNCHANGED <<outer, report>>

Return ==
  /\ ~report.returned
  /\ Unresolved = {}
  /\ report' = [converted |-> Cardinality(outer),
                skipped   |-> Cardinality(dropped),
                returned  |-> TRUE]
  /\ UNCHANGED <<outer, dropped>>

Next ==
  \/ \E n \in Nested : Convert(n) \/ Skip(n)
  \/ Return

Spec == Init /\ [][Next]_vars

=============================================================================
