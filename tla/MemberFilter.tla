---------------------------- MODULE MemberFilter ----------------------------
(***************************************************************************)
(* The member filter of src/filter/: ordered include and exclude           *)
(* rules, regex and rsync ones, of which the first that matches decides;   *)
(* rsync excludes of a directory prune what is below it.  Also the map of  *)
(* exclude rules to `7z -x!' globs and how the native backend reads such   *)
(* globs.                                                                  *)
(*                                                                         *)
(* A name of a path is a record [stem, ext, upper] (`upper': the extension *)
(* is written in capitals) and a path is a sequence of names: the data the *)
(* shapes of rules below tell apart.  A rule is a record                   *)
(*   [syntax, include, shape, text, fold]                                  *)
(* whose text is a path.  The shapes (p a path, n a name, e an extension): *)
(*   regex   suffix \.e$ (fold: (?i))    prefix ^p     under ^p/           *)
(*           whole ^p$                   exact ^n\.e$                      *)
(*   rsync   star *     suffix *.e       name n or p   rooted /p           *)
(*           dir n/ or p/   rooted_dir /p/   tree and rooted_tree, the same*)
(*           followed by three stars                                       *)
(***************************************************************************)
EXTENDS Naturals, Sequences, SequencesExt

CONSTANT Extends   \* <<s, t>>: the text of stem t begins with, and is not, s

SameExt(name, text, fold) ==
  /\ name.ext = text.ext
  /\ fold \/ name.upper = text.upper

BeginsWith(name, text) ==
  \/ name = text
  \/ text.ext = "" /\ (name.stem = text.stem \/ <<text.stem, name.stem>> \in Extends)

\* FilterRule::Regex: `target' is the path, or its basename alone
RegexMatches(rule, path, basename_only) ==
  LET target == IF basename_only THEN <<Last(path)>> ELSE path
  IN  \/ rule.shape = "suffix" /\ SameExt(Last(target), rule.text[1], rule.fold)
      \/ /\ rule.shape = "prefix"
         /\ Len(target) >= Len(rule.text)
         /\ IsPrefix(Front(rule.text), target)
         /\ BeginsWith(target[Len(rule.text)], Last(rule.text))
      \/ rule.shape = "under" /\ IsStrictPrefix(rule.text, target)
      \/ rule.shape \in {"whole", "exact"} /\ target = rule.text

\* RsyncPattern::matches: a pattern without an inner or leading slash is for basenames
RsyncMatches(rule, path, is_dir) ==
  LET Here == IF Len(rule.text) = 1 THEN Last(path) = rule.text[1] ELSE path = rule.text
  IN  \/ rule.shape = "star"
      \/ rule.shape = "suffix" /\ SameExt(Last(path), rule.text[1], FALSE)
      \/ rule.shape = "name" /\ Here
      \/ rule.shape = "rooted" /\ path = rule.text
      \/ rule.shape = "dir" /\ is_dir /\ Here
      \/ rule.shape = "rooted_dir" /\ is_dir /\ path = rule.text
      \/ rule.shape \in {"tree", "rooted_tree"} /\ IsPrefix(rule.text, path)

Matches(rule, path, is_dir, basename_only) ==
  IF rule.syntax = "regex" THEN RegexMatches(rule, path, basename_only)
                           ELSE RsyncMatches(rule, path, is_dir)

\* first_match: hits are the rules that match; none does, or the first one includes
Kept(rules, hits) == hits = {} \/ rules[Min(hits)].include

\* the rules that match a file, and the rsync rules that match a directory
FileHits(rules, path, basename_only) ==
  {k \in DOMAIN rules : Matches(rules[k], path, FALSE, basename_only)}

DirHits(rules, dir) ==
  {k \in DOMAIN rules : rules[k].syntax = "rsync" /\ RsyncMatches(rules[k], dir, TRUE)}

Directories(path) == {SubSeq(path, 1, k) : k \in 1 .. Len(path) - 1}

\* mutant: the rules are not asked about the directories of the path
ShouldKeep_NoPrune(rules, path, basename_only) ==
  Kept(rules, FileHits(rules, path, basename_only))

\* should_keep_path for a file: each directory against the rsync rules, then the file
ShouldKeep(rules, path, basename_only) ==
  /\ \A dir \in Directories(path) : Kept(rules, DirHits(rules, dir))
  /\ Kept(rules, FileHits(rules, path, basename_only))

-----------------------------------------------------------------------------
\* regex_to_7z_globs and rsync_exclude_to_7z_globs: the globs of a rule.  The forms
\* `*/name', `*/*.ext' and `prefix/*/*' they also return are left out: read by
\* glob_match_simple they match no path.
Globs(rule) ==
  LET exact == [kind |-> "exact", text |-> rule.text]
      under == [kind |-> "under", text |-> rule.text]
  IN  IF rule.syntax = "regex"
      THEN CASE rule.shape = "suffix" -> {[kind |-> "suffix", text |-> rule.text]}
             [] rule.shape = "exact"  -> {exact}
             [] OTHER                 -> {exact, under}
      ELSE CASE rule.shape \in {"tree", "dir", "rooted_dir"} -> {exact, under}
             [] rule.shape = "rooted_tree" -> {[kind |-> "rooted", text |-> rule.text]}
             [] rule.shape = "name" /\ Len(rule.text) = 1 -> {exact}
             [] OTHER -> {}

\* mutant: a rule that has no globs does not stop the others from being mapped
MapsToGlobs_SkipsUnmapped(rules) ==
  /\ \A k \in DOMAIN rules : ~rules[k].include
  /\ \E k \in DOMAIN rules : Globs(rules[k]) # {}

\* try_7z_exclude_globs returns a list that is not empty
MapsToGlobs(rules) ==
  /\ rules # <<>>
  /\ \A k \in DOMAIN rules : ~rules[k].include /\ Globs(rules[k]) # {}

\* glob_match_simple
GlobHits(glob, path) ==
  \/ glob.kind = "suffix" /\ SameExt(Last(path), glob.text[1], TRUE)
  \/ glob.kind = "under" /\ IsPrefix(glob.text, path)
  \/ glob.kind = "exact" /\ IsSuffix(glob.text, path)

\* some -x! glob of the filter is for this path
GlobExcluded(rules, path) ==
  \E k \in DOMAIN rules : \E glob \in Globs(rules[k]) : GlobHits(glob, path)
=============================================================================
