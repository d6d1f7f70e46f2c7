------------------------- MODULE MCConvertPipeline -------------------------
(***************************************************************************)
(* Instances of ConvertPipeline for TLC: four members, two of them nested  *)
(* archives; the two passthrough members have the same base name, and so   *)
(* have the two nested ones.                                               *)
(***************************************************************************)
EXTENDS ConvertPipeline

NestedMembers == {2, 4}
Names         == <<"readme.txt", "data.7z", "readme.txt", "data.7z">>

\* members may fail; or anything may, except that a bulk extract is complete
MemberFaults == {"bulk", "omit", "extract", "convert"}
AnyFault     == {MemberFaults, FaultKinds \ {"omit"}}
OnlyMembers  == {MemberFaults}

=============================================================================
