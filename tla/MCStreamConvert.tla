-------------------------- MODULE MCStreamConvert ---------------------------
(***************************************************************************)
(* The instance of StreamConvert for TLC: an archive of seven entries of   *)
(* which one is rejected, converted in each of the three ways, with every  *)
(* fault possible at every member.  The six kept ones overflow the window  *)
(* of Phase 3 (2 + 2 + 1) and that of decode-ahead (2 + 2).                *)
(***************************************************************************)
EXTENDS StreamConvert

KeepSix  == {1, 2, 4, 5, 6, 7}
AllModes == {"sequential", "ahead", "parallel"}

=============================================================================
