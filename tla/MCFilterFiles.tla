--------------------------- MODULE MCFilterFiles ---------------------------
(***************************************************************************)
(* Instances of FilterFiles for TLC: small trees of filter files, a set of *)
(* patterns that is complete up to three characters, and the patterns that *)
(* the shapes of MemberFilter are written as.                              *)
(***************************************************************************)
EXTENDS FilterFiles

MCAlphabet == <<" ", "!", "*", "-", ".", "/", "?", "X", "[", "\\", "]", "^",
                "a", "b", "c", "x", "e-acute">>
MCWide == {"e-acute"}

Line(key, body)   == [key |-> key, space |-> body # <<>> /\ key # "", body |-> body]
Stuck(key, body)  == [key |-> key, space |-> FALSE, body |-> body]

Letters == {"a", "b", "c"}

\* merged twice, with a clear below; comments, ignored, hidden and bare lines
Diamond ==
  ( <<"f">> :> <<Line("+", <<"a">>), Line("merge", <<"g">>), Line("#", <<"a">>),
                 Line("-", <<"b">>), Line(".", <<"h">>)>> @@
    <<"g">> :> <<Line("H", <<"a">>), Stuck("merge", <<>>), Line("merge", <<"c">>)>> @@
    <<"h">> :> <<Line("P", <<"b">>), Line(":", <<"c">>), Line("", <<"b">>)>> @@
    <<"c">> :> <<Stuck("+", <<"c">>), Stuck("clear", <<>>), Stuck("H", <<"a">>),
                 Line("include", <<"b">>)>> )

\* relative to the file that merges; both trees have a file of the same name
Below ==
  ( <<"f">> :> <<Line("merge", <<"s", "/", "g">>), Line("-", <<"a">>)>> @@
    <<"s", "g">> :> <<Line("merge", <<"h">>), Line("merge", <<"..", "/", "h">>),
                      Line("merge", <<"/", "s", "/", ".", "/", "h">>)>> @@
    <<"h">> :> <<Line("-", <<"b">>)>> @@
    <<"s", "h">> :> <<Line("+", <<"c">>)>> )

\* a cycle that does not go through the first file, under two spellings; a missing file
Broken ==
  ( <<"f">> :> <<Line("-", <<"a">>), Line("merge", <<"s", "/", "g">>)>> @@
    <<"s", "g">> :> <<Line("#", <<>>), Line("merge", <<"..", "/", "h">>)>> @@
    <<"h">> :> <<Line("merge", <<"s", "/", "..", "/", "s", "/", "g">>)>> @@
    <<"g">> :> <<Line("merge", <<"x">>)>> @@
    <<"c">> :> <<Line("+", <<"[", "a">>)>> )

\* a merged file with a bare line that begins with a wide character, before a line that is
\* not valid; a merged file that is not text
Foreign ==
  ( <<"f">> :> <<Line("-", <<"e-acute", "a">>), Line("merge", <<"c">>), Stuck("+", <<>>)>> @@
    <<"g">> :> <<Line("", <<"b">>), Line("merge", <<"h">>)>> @@
    <<"h">> :> <<Line("+", <<"a">>), Stuck(NotText, <<>>), Line("merge", <<"c">>)>> @@
    <<"c">> :> <<Line("", <<"e-acute", "b">>)>> )

NoOptions == [filter_from |-> <<>>, filter |-> <<>>, include_from |-> <<>>,
              exclude_from |-> <<>>, regex_includes |-> <<>>, regex_excludes |-> <<>>]

Good == [text |-> <<"a">>, compiles |-> TRUE]
Bad  == [Good EXCEPT !.compiles = FALSE]

FileLists == {<<>>, << <<"f">> >>, << <<"g">> >>, << <<"c">> >>, << <<"h">>, <<"f">> >>}
SideLists == {<<>>, << <<"c">> >>, << <<"h">> >>}

FromFiles ==
  {[NoOptions EXCEPT !.filter_from = files, !.filter = lines,
                     !.include_from = inc, !.exclude_from = exc, !.regex_excludes = regexes] :
     files \in FileLists,
     lines \in {<<>>, <<Line("-", <<"c">>)>>, <<Stuck("!", <<>>), Line("", <<"a">>)>>,
                <<Stuck(".", <<"g">>)>>, <<Line("", <<"e-acute", "a">>)>>},
     inc \in SideLists, exc \in SideLists,
     regexes \in {<<>>, <<Good>>}}
  \cup {[NoOptions EXCEPT !.regex_includes = <<Good>>, !.regex_excludes = <<Bad>>]}

Excluding(text) == [NoOptions EXCEPT !.filter = <<[key |-> "-", space |-> TRUE, body |-> text]>>]

Texts(chars, n) == UNION {[1 .. k -> chars] : k \in 1 .. n}

LongPatterns ==
  { <<"a", "/", "*", "*", "/", "b">>, <<"*", "*", "/", "a">>, <<"a", "*", "*", "b">>,
    <<"/", "*", "/", "a">>, <<"a", "/", "*", "*", "*">>, <<"/", "a", "/", "*", "*", "*">>,
    <<"*", "*", "*", "*">>, <<"a", "*", "?", "/">>, <<"a", "/", "b", "/">>,
    <<"[", "a", "-", "b", "]">>, <<"[", "b", "-", "a", "]", "*">>, <<"[", "!", "a", "]">>,
    <<"[", "]", "a", "]">>, <<"[", "a", "-", "]">>, <<"[", "^", "a", "]", "/">>,
    <<"[", "a", "/", "]", "b">>, <<"\\", "*">>, <<"a", "\\">>, <<"[", "a">>,
    <<"\\", "a", "/", "b">> }

MemberTexts ==
  {path \in Texts({"a", "b", "/"}, 4) \cup Texts({"a", "*", "-", "]"}, 2) :
     /\ path[1] # "/" /\ Last(path) # "/"
     /\ \A k \in 1 .. Len(path) - 1 : path[k] # "/" \/ path[k + 1] # "/"}

N(stem, ext, upper) == [stem |-> stem, ext |-> ext, upper |-> upper]
SmallNames  == {N("a", "", FALSE), N("b", "", FALSE), N("a", "x", FALSE), N("a", "x", TRUE)}
SmallPaths  == UNION {[1 .. k -> SmallNames] : k \in 1 .. 3}
ShapeTexts  == UNION {[1 .. k -> SmallNames] : k \in 1 .. 2}

Shape(shape, text) ==
  [syntax |-> "rsync", include |-> FALSE, shape |-> shape, text |-> text, fold |-> FALSE]
SmallShapes ==
  {Shape("star", <<>>), Shape("suffix", <<N("", "x", FALSE)>>)}
    \cup {Shape(shape, text) :
            shape \in {"name", "rooted", "dir", "rooted_dir", "tree", "rooted_tree"},
            text \in ShapeTexts}

Patterns == Texts({"a", "/", "*", "?"}, 3) \cup LongPatterns
              \cup {Written(rule) : rule \in SmallShapes}

SmallSetups ==
  [tree : {Diamond, Below, Broken, Foreign}, cli : FromFiles]
    \cup [tree : {Broken}, cli : {Excluding(text) : text \in Patterns}]
=============================================================================
