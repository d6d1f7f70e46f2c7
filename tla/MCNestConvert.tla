---------------------------- MODULE MCNestConvert ----------------------------
(***************************************************************************)
(* Instances of NestConvert for TLC: five members under a directory that   *)
(* occurs at two depths, and filters of up to three rules.                 *)
(***************************************************************************)
EXTENDS NestConvert

N(stem, ext, upper) == [stem |-> stem, ext |-> ext, upper |-> upper]
junk == N("junk", "", FALSE)
yard == N("junkyard", "", FALSE)
sub  == N("sub", "", FALSE)

\* a directory at the root and below, a name that only begins like it, two spellings of .tmp
Tree == << <<N("a", "tmp", FALSE)>>, <<junk, N("b", "", FALSE)>>, <<yard>>,
           <<sub, N("a", "tmp", TRUE)>>, <<sub, junk, N("c", "", FALSE)>> >>
Prefixed == {<<"junk", "junkyard">>}

Rule(syntax, include, shape, text, fold) ==
  [syntax |-> syntax, include |-> include, shape |-> shape, text |-> text, fold |-> fold]

tmp == <<N("", "tmp", FALSE)>>
AnyTmp      == Rule("regex", FALSE, "suffix", tmp, TRUE)
UnderJunk   == Rule("regex", FALSE, "under", <<junk>>, FALSE)
RsyncTmp    == Rule("rsync", FALSE, "suffix", tmp, FALSE)
JunkDir     == Rule("rsync", FALSE, "dir", <<junk>>, FALSE)
JunkTree    == Rule("rsync", FALSE, "tree", <<junk>>, FALSE)
EveryThing  == Rule("rsync", FALSE, "star", <<sub>>, FALSE)
PlusTmp     == Rule("rsync", TRUE, "suffix", tmp, FALSE)
PlusPath    == Rule("rsync", TRUE, "name", <<sub, junk>>, FALSE)
PlusSub     == Rule("regex", TRUE, "prefix", <<sub>>, FALSE)
LikeJunk    == Rule("regex", FALSE, "prefix", <<junk>>, FALSE)

\* filters that the globs can express, and filters applied after the extraction
SafeFilters ==
  [rules : {<<>>, <<AnyTmp>>, <<JunkTree, AnyTmp>>, <<RsyncTmp>>, <<RsyncTmp, JunkDir>>,
            <<PlusTmp, JunkDir, EveryThing>>, <<PlusPath, JunkDir>>, <<AnyTmp, RsyncTmp>>,
            <<PlusSub, JunkDir, LikeJunk>>},
   basename_match : BOOLEAN]
  \cup {[rules |-> <<UnderJunk, AnyTmp>>, basename_match |-> FALSE]}

\* `exclude __MACOSX/', which is mapped to globs as well
MappedFilters == {[rules |-> <<JunkDir>>, basename_match |-> FALSE]}
=============================================================================
