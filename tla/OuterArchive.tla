---------------------------- MODULE OuterArchive ----------------------------
(***************************************************************************)
(* What the outer archive builder promises to the threads that share it:   *)
(* a member is appended whole or not at all, what was appended stays, and  *)
(* a sealed archive holds every member whose append returned Ok and        *)
(* nothing else.                                                           *)
(***************************************************************************)
CONSTANT Members        \* the members that may be appended

VARIABLES
  archive,    \* the members a reader finds
  sealed      \* the archive is complete: its end header is written

vars == <<archive, sealed>>

Init ==
  /\ archive = {}
  /\ sealed = FALSE

Append(m) ==
  /\ ~sealed
  /\ archive' = archive \cup {m}
  /\ UNCHANGED sealed

Seal ==
  /\ ~sealed
  /\ archive # {}
  /\ sealed' = TRUE
  /\ UNCHANGED archive

Next ==
  \/ \E m \in Members : Append(m)
  \/ Seal

Spec == Init /\ [][Next]_vars

=============================================================================
