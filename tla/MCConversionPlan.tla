-------------------------- MODULE MCConversionPlan --------------------------
(***************************************************************************)
(* Instances of ConversionPlan and OuterStaging for TLC: archives of three *)
(* or four members with awkward paths, filters and lists of renames.       *)
(***************************************************************************)
EXTENDS OuterStaging

N(stem, ext)  == [stem |-> stem, ext |-> ext, upper |-> FALSE]
File(path)    == [path |-> path, rest |-> path, is_dir |-> FALSE, packed |-> TRUE, summary |-> FALSE,
                  dated |-> TRUE]
Dir(path)     == [File(path) EXCEPT !.is_dir = TRUE]
InBlock(path) == [File(path) EXCEPT !.packed = FALSE]

a == Plain("a")
b == Plain("b")
x == N("x", "7z")
y == N("y", "txt")
evil   == Plain("evil")
track  == N("track", "7z")
track1 == N("01 track", "7z")

Ordinary == <<Dir(<<a>>), File(<<a, x>>), File(<<b, x>>), InBlock(<<y>>)>>
Awkward  == << <<Blank, a, x>>, <<Dot, Dot, a, Blank, x>>, <<a, DotDot, y>>, <<Dot, Blank>> >>
Unsafe   == << <<DotDot, y>>, <<Drive, y>>, <<b, x>>, <<y>> >>
SameTail == << <<b, x>>, <<a, x>>, <<y>> >>

\* two solid members whose names begin with a number, one that reads like a summary
Numbered ==
  <<[InBlock(<<track1>>) EXCEPT !.rest = <<track>>], InBlock(<<track>>),
    [File(<<Plain("2 files"), Plain("1 folders")>>) EXCEPT !.summary = TRUE]>>

\* one path twice, once more in another spelling; a file in the way of another;
\* members without times
Twice   == <<File(<<y>>), [File(<<a, x>>) EXCEPT !.dated = FALSE], File(<<a, x>>), File(<<y>>)>>
Respelt == <<File(<<y>>), File(<<Dot, y>>), [File(<<b, x>>) EXCEPT !.dated = FALSE]>>
InWay   == <<File(<<a>>), File(<<a, x>>), File(<<b, a>>)>>

\* a directory with the path of a file; a file that is found by its name for another
Shadowed == <<File(<<a>>), File(<<y>>), Dir(<<a>>)>>
ByName   == <<[InBlock(<<Plain("01 a"), y>>) EXCEPT !.rest = <<a, y>>], File(<<b, y>>), File(<<x>>)>>

Files0(paths) == [k \in DOMAIN paths |-> File(paths[k])]

\* a `./' behind a slash, in the archive and after a rename
Hidden  == <<File(<<Blank, Dot, b>>), File(<<a, Dot, y>>), File(<<y>>)>>

SmallArchives == {Hidden, Ordinary, Files0(Awkward), Files0(Unsafe), Files0(SameTail), Numbered,
                  <<Numbered[3]>>, Twice, Respelt, InWay, Shadowed, ByName}
NumberedOnly  == {Numbered}

Exclude(shape, text) ==
  [syntax |-> "regex", include |-> FALSE, shape |-> shape, text |-> text, fold |-> FALSE]

NoFilter == [rules |-> <<>>, basename_match |-> FALSE]
SmallFilters ==
  {NoFilter, [rules |-> <<Exclude("under", <<a>>)>>, basename_match |-> FALSE],
   [rules |-> <<Exclude("suffix", <<N("", "txt")>>)>>, basename_match |-> TRUE],
   [rules |-> <<[Exclude("dir", <<b>>) EXCEPT !.syntax = "rsync"]>>, basename_match |-> FALSE]}
JustNoFilter == {NoFilter}

Rename(shape, from, to) == [shape |-> shape, from |-> from, to |-> to]
SmallRenames ==
  {<<>>,
   <<Rename("prefix", <<a>>, <<>>)>>,
   <<Rename("prefix", <<a>>, <<b>>)>>,
   <<Rename("prefix", <<a>>, <<Blank>>)>>,
   <<Rename("prefix", <<a>>, <<b, Blank>>), Rename("prefix", <<b>>, <<Plain("c")>>)>>,
   <<Rename("prefix", <<a>>, <<Plain("c"), Blank>>), Rename("prefix", <<b>>, <<Plain("c")>>)>>,
   <<Rename("flatten", <<>>, <<>>)>>,
   <<Rename("whole", <<y>>, <<>>)>>,
   <<Rename("last", <<y>>, <<DotDot, evil>>)>>,
   <<Rename("whole", <<y>>, <<DotDot, evil>>), Rename("last", <<x>>, <<DotDot, DotDot, evil>>)>>}
NoRename == {<<>>}

\* one thread with and without the single pass, and two threads
OneThread == [solid |-> TRUE, solid_single_pass |-> TRUE, nested_concurrency |-> 1,
              threads |-> 0, cpus |-> 2]
SmallSettings == {OneThread, [OneThread EXCEPT !.solid_single_pass = FALSE],
                  [OneThread EXCEPT !.solid = FALSE, !.nested_concurrency = 0, !.threads = 2],
                  [OneThread EXCEPT !.nested_concurrency = 0, !.solid_single_pass = FALSE]}
OneSetting == {OneThread}
=============================================================================
