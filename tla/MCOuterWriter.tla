--------------------------- MODULE MCOuterWriter ---------------------------
(***************************************************************************)
(* Instances of OuterWriter for TLC: three producers of members of two, no *)
(* and four blocks, of which one has no creation time.                     *)
(***************************************************************************)
EXTENDS OuterWriter

UnrelatedNames == << <<"a">>, <<"b", "a">>, <<"b", "c">> >>
Sizes          == <<2, 0, 4>>
CTimes         == <<NoTime, 7, 8>>

=============================================================================
