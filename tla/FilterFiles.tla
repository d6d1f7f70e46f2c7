---------------------------- MODULE FilterFiles ----------------------------
(***************************************************************************)
(* How the rules of one member filter are put together: from_cli() of      *)
(* src/filter/mod.rs and the filter files of src/filter/rsync.rs.          *)
(*                                                                         *)
(* The sources are read in a fixed order: filter files, --filter lines,    *)
(* include and exclude files, regexes.  A filter file may merge others,    *)
(* which are read in place, relative to the file that names them, and may  *)
(* clear what was collected so far, in whatever file that was.             *)
(*                                                                         *)
(* A line is a record [key, space, body]: the word or sign it begins with  *)
(* ("" if none that matters), whether white space follows it, and the rest *)
(* of its characters.  A file is named by a path, a sequence of names; in  *)
(* the text of a merge line each name is one character.  A file that has a *)
(* line with the key NotText stands for one that exists and that           *)
(* fs::read_to_string does not read: it is not UTF-8, or not permitted.    *)
(***************************************************************************)
EXTENDS MemberFilter, RsyncPattern

CONSTANTS
  Wide,       \* the characters of more than one byte
  Setups,     \* the inputs of this instance: [tree: from paths to lines, cli: options]
  Paths,      \* texts of members
  Named,      \* members as MemberFilter has them, sequences of names
  Shaped      \* rules as MemberFilter has them

TextLine == [key : STRING, space : BOOLEAN, body : Seq(STRING)]
Options  == [filter_from : Seq(Seq(STRING)), filter : Seq(TextLine),
             include_from : Seq(Seq(STRING)), exclude_from : Seq(Seq(STRING)),
             regex_includes : Seq([text : Seq(STRING), compiles : BOOLEAN]),
             regex_excludes : Seq([text : Seq(STRING), compiles : BOOLEAN])]

\* A tree is finite, and its files have the paths that fs::canonicalize returns.
ASSUME SetupAssumption ==
  /\ \A setup \in Setups :
       /\ setup.cli \in Options
       /\ IsFiniteSet(DOMAIN setup.tree)
       /\ \A file \in DOMAIN setup.tree :
            /\ file \in Seq(STRING) /\ file # <<>> /\ ToSet(file) \cap {".", ".."} = {}
            /\ setup.tree[file] \in Seq(TextLine)
  /\ \A path \in Paths : path \in Seq(STRING) /\ path # <<>>

VARIABLES
  tree, cli,    \* the inputs
  pc,
  next,         \* the piece of the current source that is read next
  open,         \* the filter files being read, innermost last: [path, line]
  visiting,     \* the canonical paths of the open files
  loaded,       \* the lines load_filter_file has collected
  rules

inputs == <<tree, cli>>
vars == <<inputs, pc, next, open, visiting, loaded, rules>>

Sources == <<"filter_from", "filter", "include_from", "exclude_from",
             "regex_includes", "regex_excludes">>

\* how the loading ends when it does not return a filter: in the errors FilterFileNotFound,
\* "read filter file" and InvalidFilter (of a cycle, or of a text), or in a panic
Refusals == {"not_found", "unreadable", "recursive", "invalid", "panicked"}

-----------------------------------------------------------------------------
(***************************************************************************)
(* parse_filter_line.                                                      *)
(***************************************************************************)
Text(line) == (IF line.key = "" THEN <<>> ELSE <<line.key>>)
                \o (IF line.space THEN <<" ">> ELSE <<>>) \o line.body

Signs == [include |-> {"+"}, exclude |-> {"-"}, merge |-> {".", ":"}]
Words == [include |-> {"S", "include", "show"}, exclude |-> {"H", "exclude", "hide"},
          merge |-> {"merge", "dir-merge"}, ignore |-> {"P", "R", "C", "protect", "risk"}]
Others == {"", "#", ";", "!", "clear", " "}

\* What a line may begin with, other than a character of its text, is ASCII.
ASSUME WideAssumption ==
  /\ Wide \cap Others = {}
  /\ \A kind \in DOMAIN Signs : Wide \cap Signs[kind] = {}
  /\ \A kind \in DOMAIN Words : Wide \cap Words[kind] = {}

StartsWide(line) == Text(line) # <<>> /\ Head(Text(line)) \in Wide

\* split_rule_prefix: a sign needs no space after it, a letter or a word does; the text
\* after the first byte is sliced in any case, which panics inside a character
RuleKind(line) ==
  CASE StartsWide(line) -> "panicked"
    [] \E kind \in DOMAIN Signs : line.key \in Signs[kind] ->
         CHOOSE kind \in DOMAIN Signs : line.key \in Signs[kind]
    [] line.space /\ \E kind \in DOMAIN Words : line.key \in Words[kind] ->
         CHOOSE kind \in DOMAIN Words : line.key \in Words[kind]
    [] OTHER -> "bare"

Nothing    == [kind |-> "none"]
Clear      == [kind |-> "clear"]
Merge(p)   == [kind |-> "merge", path |-> p]
Invalid    == [kind |-> "invalid"]
Panic      == [kind |-> "panicked"]
Rule(text, include) ==
  LET rule == parse(text, include)
  IN  IF text = <<>> \/ IsMalformed(rule) THEN Invalid ELSE [kind |-> "rule", rule |-> rule]

IsComment(line) == Text(line) = <<>> \/ line.key \in {"#", ";"}

\* the lines that end the loading
Rejected == {"invalid", "panicked"}

\* a bare pattern excludes; protect and risk rules do nothing here
parse_filter_line(line) ==
  LET kind == RuleKind(line)
  IN  CASE IsComment(line)                                  -> Nothing
        [] line.key \in {"!", "clear"} /\ line.body = <<>>  -> Clear
        [] kind = "panicked"                                 -> Panic
        [] kind = "merge" -> IF line.body = <<>> THEN Invalid ELSE Merge(line.body)
        [] kind = "ignore"                                   -> Nothing
        [] OTHER -> Rule(IF kind = "bare" THEN Text(line) ELSE line.body, kind = "include")

\* a line of load_side_file: only `+' and `-' mean something
ParseSideLine(line, include) ==
  IF IsComment(line) THEN Nothing
  ELSE IF line.key \in {"+", "-"} THEN Rule(line.body, line.key = "+")
                                  ELSE Rule(Text(line), include)

-----------------------------------------------------------------------------
\* the elements of the sequence that are not c
Without(c, seq) ==
  FlattenSeq([k \in DOMAIN seq |-> IF seq[k] = c THEN <<>> ELSE <<seq[k]>>])

\* a name in the directory that `at' leads to; a `..' that leads out of the tree stays
Entered(at, name) ==
  CASE name = "."                                      -> at
    [] name = ".." /\ at # <<>> /\ Last(at) # ".."     -> Front(at)
    [] OTHER                                           -> Append(at, name)

Directory(names) ==
  LET At[k \in 0 .. Len(names)] == IF k = 0 THEN <<>> ELSE Entered(At[k - 1], names[k])
  IN  At[Len(names)]

\* fs::canonicalize of a file's path, for trees without links (external)
Canonical(path) == IF path = <<>> THEN path ELSE Append(Directory(Front(path)), Last(path))

Exists(path) == Canonical(path) \in DOMAIN tree

NotText == "not text"
IsText(lines)     == \A line \in ToSet(lines) : line.key # NotText
Unreadable(path)  == Exists(path) /\ ~IsText(tree[Canonical(path)])

\* base.join(rel): an absolute path replaces the base (the root is the working directory)
Joined(path, text) ==
  (IF Head(text) = "/" THEN <<>> ELSE Front(path)) \o Without("/", text)

\* the loop of add_filter_from, and add_filter_line
Collect(collected, line) ==
  IF line.kind = "clear" THEN <<>> ELSE Append(collected, line.rule)

Collected(start, lines) ==
  LET Of[k \in 0 .. Len(lines)] == IF k = 0 THEN start ELSE Collect(Of[k - 1], lines[k])
  IN  Of[Len(lines)]

-----------------------------------------------------------------------------
\* The files being read exist, are distinct, and are what visiting says.
TypeOK ==
  /\ \E setup \in Setups : tree = setup.tree /\ cli = setup.cli
  /\ pc \in ToSet(Sources) \cup {"done"} \cup Refusals
  /\ pc \in ToSet(Sources) => next \in 1 .. Len(cli[pc]) + 1
  /\ \A k \in DOMAIN open :
        /\ Exists(open[k].path)
        /\ open[k].line \in 1 .. Len(tree[Canonical(open[k].path)]) + 1
  /\ visiting = {Canonical(open[k].path) : k \in DOMAIN open}
  /\ Cardinality(visiting) = Len(open)
  /\ \A k \in DOMAIN loaded : loaded[k].kind \in {"rule", "clear"}
  /\ open = <<>> => loaded = <<>>

Init ==
  /\ \E setup \in Setups : tree = setup.tree /\ cli = setup.cli
  /\ pc = "filter_from"
  /\ next = 1
  /\ open = <<>>
  /\ visiting = {}
  /\ loaded = <<>>
  /\ rules = <<>>

Reading == pc = "filter_from" /\ open # <<>>
Frame   == Last(open)
Lines   == tree[Canonical(Frame.path)]
AtLine  == Reading /\ Frame.line <= Len(Lines)
Parsed  == parse_filter_line(Lines[Frame.line])

Fail(refusal) == pc' = refusal /\ UNCHANGED <<inputs, next, open, visiting, loaded, rules>>

Stepped == [open EXCEPT ![Len(open)].line = @ + 1]

\* load_filter_file_inner up to its loop
Enter(path, frames) ==
  /\ open' = Append(frames, [path |-> path, line |-> 1])
  /\ visiting' = visiting \cup {Canonical(path)}
  /\ UNCHANGED <<inputs, pc, next, loaded, rules>>

\* mutant: a cycle of merges is noticed only at the file the loading began with
Refused_RootOnly(path) ==
  \/ ~Exists(path) \/ Unreadable(path)
  \/ open # <<>> /\ Canonical(path) = Canonical(Head(open).path)

Refused(path) == ~Exists(path) \/ Unreadable(path) \/ Canonical(path) \in visiting

\* fs::read_to_string fails
NotRead(path) ==
  \/ ~Exists(path)    /\ Fail("not_found")
  \/ Unreadable(path) /\ Fail("unreadable")

\* "recursive merge in filter file", or there is nothing to read
Refuse(path) ==
  \/ Canonical(path) \in visiting /\ Fail("recursive")
  \/ Canonical(path) \notin visiting /\ NotRead(path)

OpenFile ==
  /\ pc = "filter_from" /\ open = <<>> /\ next <= Len(cli.filter_from)
  /\ IF Refused(cli.filter_from[next]) THEN Refuse(cli.filter_from[next])
                                    ELSE Enter(cli.filter_from[next], <<>>)

ReadNothing ==
  /\ AtLine /\ Parsed.kind = "none"
  /\ open' = Stepped
  /\ UNCHANGED <<inputs, pc, next, visiting, loaded, rules>>

ReadRule ==
  /\ AtLine /\ Parsed.kind \in {"rule", "clear"}
  /\ loaded' = Append(loaded, Parsed)
  /\ open' = Stepped
  /\ UNCHANGED <<inputs, pc, next, visiting, rules>>

ReadMerge ==
  /\ AtLine /\ Parsed.kind = "merge"
  /\ LET path == Joined(Frame.path, Parsed.path)
     IN  IF Refused(path) THEN Refuse(path) ELSE Enter(path, Stepped)

\* the line is not valid, or splitting it panics
ReadRejected == AtLine /\ Parsed.kind \in Rejected /\ Fail(Parsed.kind)

AtEnd == Reading /\ Frame.line > Len(Lines)

\* mutant: the file stays in visiting
LeaveMerged_StaysVisiting ==
  /\ AtEnd /\ Len(open) > 1
  /\ open' = Front(open)
  /\ UNCHANGED <<inputs, pc, next, visiting, loaded, rules>>

LeaveMerged ==
  /\ AtEnd /\ Len(open) > 1
  /\ open' = Front(open)
  /\ visiting' = visiting \ {Canonical(Frame.path)}
  /\ UNCHANGED <<inputs, pc, next, loaded, rules>>

\* mutant: `clear' drops the rules of its own file only
LeaveFile_ClearsItsOwn ==
  /\ AtEnd /\ Len(open) = 1
  /\ rules' = rules \o Collected(<<>>, loaded)
  /\ open' = <<>>
  /\ visiting' = {}
  /\ loaded' = <<>>
  /\ next' = next + 1
  /\ UNCHANGED <<inputs, pc>>

\* load_filter_file returns and add_filter_from takes what it collected
LeaveFile ==
  /\ AtEnd /\ Len(open) = 1
  /\ rules' = Collected(rules, loaded)
  /\ open' = <<>>
  /\ visiting' = {}
  /\ loaded' = <<>>
  /\ next' = next + 1
  /\ UNCHANGED <<inputs, pc>>

\* add_filter_line: there is nothing a --filter could merge relative to
FilterLine ==
  /\ pc = "filter" /\ next <= Len(cli.filter)
  /\ LET line == parse_filter_line(cli.filter[next])
     IN  IF line.kind = "merge" THEN Fail("invalid")
         ELSE IF line.kind \in Rejected THEN Fail(line.kind)
         ELSE /\ rules' = IF line.kind = "none" THEN rules ELSE Collect(rules, line)
              /\ next' = next + 1
              /\ UNCHANGED <<inputs, pc, open, visiting, loaded>>

\* load_side_file and the loop that adds its patterns
SideFile ==
  /\ pc \in {"include_from", "exclude_from"} /\ next <= Len(cli[pc])
  /\ IF ~Exists(cli[pc][next]) \/ Unreadable(cli[pc][next]) THEN NotRead(cli[pc][next])
     ELSE LET lines  == tree[Canonical(cli[pc][next])]
              parsed == [k \in DOMAIN lines |-> ParseSideLine(lines[k], pc = "include_from")]
          IN  IF Invalid \in ToSet(parsed) THEN Fail("invalid")
              ELSE /\ rules' = Collected(rules, Without(Nothing, parsed))
                   /\ next' = next + 1
                   /\ UNCHANGED <<inputs, pc, open, visiting, loaded>>

\* add_include, add_exclude: a regex is a record [text, compiles]
Regex ==
  /\ pc \in {"regex_includes", "regex_excludes"} /\ next <= Len(cli[pc])
  /\ IF ~cli[pc][next].compiles THEN Fail("invalid")
     ELSE /\ rules' = Append(rules, [syntax |-> "regex", original |-> cli[pc][next].text,
                                     include |-> pc = "regex_includes"])
          /\ next' = next + 1
          /\ UNCHANGED <<inputs, pc, open, visiting, loaded>>

NextSource == (Append(Sources, "done"))[1 + CHOOSE k \in DOMAIN Sources : Sources[k] = pc]

SourceDone ==
  /\ pc \in ToSet(Sources) /\ open = <<>> /\ next > Len(cli[pc])
  /\ pc' = NextSource
  /\ next' = 1
  /\ UNCHANGED <<inputs, open, visiting, loaded, rules>>

Ended      == pc \in {"done"} \cup Refusals
Terminated == Ended /\ UNCHANGED vars

Load ==
  \/ OpenFile \/ ReadNothing \/ ReadRule \/ ReadMerge \/ ReadRejected
  \/ LeaveMerged \/ LeaveFile
  \/ FilterLine \/ SideFile \/ Regex \/ SourceDone

Next == Load \/ Terminated

Spec == Init /\ [][Next]_vars

-----------------------------------------------------------------------------
(***************************************************************************)
(* Properties.                                                             *)
(***************************************************************************)
Target(file, line) == Canonical(Joined(file, line.body))

\* what a line of the file stands for, when `merged' is what the files stand for
Piece(merged, file, line) ==
  LET parsed == parse_filter_line(line)
  IN  CASE parsed.kind = "merge" ->
             IF Target(file, line) \in DOMAIN tree THEN merged[Target(file, line)] ELSE <<>>
        [] parsed.kind \in {"rule", "clear"} -> <<parsed>>
        [] OTHER                             -> <<>>

\* the lines of each file with its merges, down to some depth, replaced by what they merge
Unfolded ==
  LET Of[depth \in 0 .. Cardinality(DOMAIN tree)] == [file \in DOMAIN tree |->
        IF depth = 0 THEN <<>>
        ELSE FlattenSeq([k \in DOMAIN tree[file] |->
                           Piece(Of[depth - 1], file, tree[file][k])])]
  IN  Of[Cardinality(DOMAIN tree)]

FilterLines == [i \in DOMAIN cli.filter |-> parse_filter_line(cli.filter[i])]

SideLines(lines, include) ==
  Without(Nothing, [k \in DOMAIN lines |-> ParseSideLine(lines[k], include)])

SideFiles(files, include) ==
  FlattenSeq([i \in DOMAIN files |-> SideLines(tree[Canonical(files[i])], include)])

AllLines ==
  FlattenSeq([i \in DOMAIN cli.filter_from |-> Unfolded[Canonical(cli.filter_from[i])]])
    \o Without(Nothing, FilterLines)
    \o SideFiles(cli.include_from, TRUE) \o SideFiles(cli.exclude_from, FALSE)

\* the rules of the lines after the last `clear'
Uncleared(lines) ==
  LET cleared == Max({0} \cup {k \in DOMAIN lines : lines[k] = Clear})
  IN  [k \in 1 .. Len(lines) - cleared |-> lines[cleared + k].rule]

RegexRules(regexes, include) ==
  [i \in DOMAIN regexes |-> [syntax |-> "regex", original |-> regexes[i].text,
                             include |-> include]]

(***************************************************************************)
(* The rules of a filter are the lines of all sources, in the order that   *)
(* README.md:185 gives, each merged file in the place of its merge line,   *)
(* without those that a later `clear' anywhere dropped.                    *)
(***************************************************************************)
RulesAreTheUnfoldedLines ==
  pc = "done" =>
    rules = Uncleared(AllLines) \o RegexRules(cli.regex_includes, TRUE)
                                \o RegexRules(cli.regex_excludes, FALSE)

\* the lines that can be read of the file
LinesOf(file) ==
  IF file \in DOMAIN tree /\ IsText(tree[file]) THEN ToSet(tree[file]) ELSE {}

MergedBy(file) ==
  {Target(file, line) : line \in {l \in LinesOf(file) : parse_filter_line(l).kind = "merge"}}

\* the files, those they merge, and so on: the least set that has what its files merge
Reach(files) ==
  LET all    == files \cup DOMAIN tree \cup UNION {MergedBy(f) : f \in DOMAIN tree}
      closed == {S \in SUBSET all : files \subseteq S /\ \A f \in S : MergedBy(f) \subseteq S}
  IN  {f \in all : \A S \in closed : f \in S}

\* there is no such file, or it is not text
NoLines(file, refusal) ==
  IF file \notin DOMAIN tree THEN refusal = "not_found"
                             ELSE refusal = "unreadable" /\ ~IsText(tree[file])

\* the file has no lines to read, merges itself over others, or has a line that is not valid
\* or that panics
Faulty(file, refusal) ==
  \/ NoLines(file, refusal)
  \/ refusal = "recursive" /\ file \in Reach(MergedBy(file))
  \/ refusal \in Rejected /\ \E line \in LinesOf(file) : parse_filter_line(line).kind = refusal

FaultySide(file, include, refusal) ==
  \/ NoLines(file, refusal)
  \/ refusal = "invalid" /\ \E line \in LinesOf(file) : ParseSideLine(line, include) = Invalid

Cause(refusal) ==
  \/ \E file \in Reach({Canonical(path) : path \in ToSet(cli.filter_from)}) :
       Faulty(file, refusal)
  \/ \E line \in ToSet(cli.filter) :
       \/ refusal = "invalid" /\ parse_filter_line(line).kind = "merge"
       \/ refusal \in Rejected /\ parse_filter_line(line).kind = refusal
  \/ \E path \in ToSet(cli.include_from) : FaultySide(Canonical(path), TRUE, refusal)
  \/ \E path \in ToSet(cli.exclude_from) : FaultySide(Canonical(path), FALSE, refusal)
  \/ /\ refusal = "invalid"
     /\ \E regex \in ToSet(cli.regex_includes \o cli.regex_excludes) : ~regex.compiles

(***************************************************************************)
(* A filter is made when nothing stands against it, and refused for what   *)
(* does: a file is missing or not text, merges itself over others, or some *)
(* piece is not valid; or the loader panics at a line of a filter file or  *)
(* of --filter that begins with a wide character.  A file that is merged   *)
(* twice on different ways is no cycle.                                    *)
(***************************************************************************)
RefusedForCause ==
  Ended => IF pc = "done" THEN \A refusal \in Refusals : ~Cause(refusal) ELSE Cause(pc)

RsyncRules == {k \in DOMAIN rules : rules[k].syntax = "rsync"}

(***************************************************************************)
(* The matcher, with its tokens and its backtracking, matches what the     *)
(* documentation of rsync patterns describes.                              *)
(***************************************************************************)
MatchesAsDescribed ==
  pc = "done" =>
    \A k \in RsyncRules : HasMeaning(rules[k].original) =>
      \A path \in Paths, is_dir \in BOOLEAN :
        matches(rules[k], path, is_dir) = Meaning(rules[k].original, path, is_dir)

\* the text of a path of MemberFilter (an extension is one character) and of a rule
Spelled(path) ==
  FlattenSeq([k \in DOMAIN path |->
    (IF k > 1 THEN <<"/">> ELSE <<>>)
      \o (IF path[k].stem = "" THEN <<>> ELSE <<path[k].stem>>)
      \o (IF path[k].ext = "" THEN <<>>
          ELSE <<".", IF path[k].upper THEN "X" ELSE path[k].ext>>)])

Written(rule) ==
  LET text == Spelled(rule.text)
      root == IF rule.shape \in {"rooted", "rooted_dir", "rooted_tree"} THEN <<"/">> ELSE <<>>
      rest == CASE rule.shape \in {"star", "suffix"}      -> <<"*">> \o text
                [] rule.shape \in {"name", "rooted"}      -> text
                [] rule.shape \in {"dir", "rooted_dir"}   -> Append(text, "/")
                [] rule.shape \in {"tree", "rooted_tree"} -> text \o <<"/", "*", "*", "*">>
  IN  root \o rest

(***************************************************************************)
(* The shapes of rules that MemberFilter reasons with stand for their      *)
(* texts: a shaped rule matches a path exactly when the pattern written    *)
(* out for it matches the path written out.                                *)
(***************************************************************************)
ShapesReadLikeText ==
  pc = "done" =>
    \A k \in RsyncRules : \A shaped \in {r \in Shaped : Written(r) = rules[k].original} :
      \A path \in Named, is_dir \in BOOLEAN :
        RsyncMatches(shaped, path, is_dir) = matches(rules[k], Spelled(path), is_dir)

=============================================================================
