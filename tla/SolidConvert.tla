---------------------------- MODULE SolidConvert ----------------------------
(***************************************************************************)
(* What the native streaming conversion of one solid archive promises,     *)
(* with no word about threads or queues: the kept members are written one  *)
(* by one in the order of the source archive, and the conversion succeeds  *)
(* only when every one of them is in the output.                           *)
(***************************************************************************)
EXTENDS Naturals, Sequences

CONSTANT
  Keep             \* the members (by their index in the source) that are kept

VARIABLES
  written,         \* the members in the output, in order
  outcome,         \* "running", then "ok" (the archive is sealed) or "err"
  refuse_empty     \* whether an output without members is an error

vars == <<written, outcome, refuse_empty>>

Init ==
  /\ written = <<>>
  /\ outcome = "running"
  /\ refuse_empty \in BOOLEAN

Missing == Keep \ {written[i] : i \in 1 .. Len(written)}

Write ==
  /\ outcome = "running"
  /\ \E m \in Missing :
        /\ \A k \in Missing : m <= k
        /\ written' = Append(written, m)
  /\ UNCHANGED <<outcome, refuse_empty>>

Succeed ==
  /\ outcome = "running"
  /\ Missing = {}
  /\ refuse_empty => written # <<>>
  /\ outcome' = "ok"
  /\ UNCHANGED <<written, refuse_empty>>

Fail ==
  /\ outcome = "running"
  /\ outcome' = "err"
  /\ UNCHANGED <<written, refuse_empty>>

Next == Write \/ Succeed \/ Fail

Spec == Init /\ [][Next]_vars

=============================================================================
