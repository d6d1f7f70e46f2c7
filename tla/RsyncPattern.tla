---------------------------- MODULE RsyncPattern ----------------------------
(***************************************************************************)
(* One rsync pattern: how its text is parsed into tokens and how a path is *)
(* matched (src/filter/rsync.rs).  Beside it, what the documentation says  *)
(* a pattern means, written without the matcher's recursion.               *)
(*                                                                         *)
(* Texts are sequences of characters.                                      *)
(***************************************************************************)
EXTENDS Naturals, Sequences, SequencesExt

CONSTANT Alphabet   \* the characters of classes, in the order of their codes

ASSUME AlphabetAssumption ==
  /\ Alphabet \in Seq(STRING) /\ IsInjective(Alphabet)
  /\ {"/", "*", "?", "[", "]", "!", "^", "-", "\\"} \subseteq ToSet(Alphabet)

Span(a, b) ==
  LET Code(c) == CHOOSE k \in DOMAIN Alphabet : Alphabet[k] = c
  IN  {c \in ToSet(Alphabet) : \/ Code(a) <= Code(c) /\ Code(c) <= Code(b)
                               \/ Code(b) <= Code(c) /\ Code(c) <= Code(a)}

\* Tok: `of' are the characters of a literal or of a class
Lit(c)    == [kind |-> "lit", of |-> {c}]
Ques      == [kind |-> "ques", of |-> {}]
Star      == [kind |-> "star", of |-> {}]
GlobStar  == [kind |-> "globstar", of |-> {}]
Malformed == [kind |-> "malformed", of |-> {}]

(***************************************************************************)
(* parse_class from the `[' at `start': the token, and where the text goes *)
(* on (0 when the class is not closed).  A `]' that comes first and a `-'  *)
(* that comes last stand for themselves.                                   *)
(***************************************************************************)
parse_class(pat, start) ==
  LET negated == start < Len(pat) /\ pat[start + 1] \in {"!", "^"}
      first   == IF negated THEN start + 2 ELSE start + 1
      IsRange(i) == i + 2 <= Len(pat) /\ pat[i + 1] = "-" /\ pat[i + 2] # "]"
      Rest[i \in 1 .. Len(pat) + 1] ==
        CASE i > Len(pat) -> [of |-> {}, next |-> 0]
          [] i <= Len(pat) /\ pat[i] = "]" /\ i # first -> [of |-> {}, next |-> i + 1]
          [] OTHER ->
               LET chars == IF IsRange(i) THEN Span(pat[i], pat[i + 2]) ELSE {pat[i]}
                   rest  == Rest[IF IsRange(i) THEN i + 3 ELSE i + 1]
               IN  [of |-> chars \cup rest.of, next |-> rest.next]
  IN  [next |-> Rest[first].next,
       tok  |-> [kind |-> IF negated THEN "negated" ELSE "class", of |-> Rest[first].of]]

\* where the stars from i on end
PastStars(pat, i) == Max({k \in i .. Len(pat) + 1 : \A j \in i .. k - 1 : pat[j] = "*"})

\* two stars or more are one `**'; a Malformed token stands for the error
tokenize(pat) ==
  LET From[i \in 1 .. Len(pat) + 1] ==
        IF i > Len(pat) THEN <<>>
        ELSE CASE pat[i] = "\\" ->
                    IF i = Len(pat) THEN <<Malformed>> ELSE <<Lit(pat[i + 1])>> \o From[i + 2]
               [] pat[i] = "?" -> <<Ques>> \o From[i + 1]
               [] pat[i] = "*" ->
                    <<IF PastStars(pat, i) = i + 1 THEN Star ELSE GlobStar>>
                      \o From[PastStars(pat, i)]
               [] pat[i] = "[" ->
                    LET class == parse_class(pat, i)
                    IN  IF class.next = 0 THEN <<Malformed>> ELSE <<class.tok>> \o From[class.next]
               [] OTHER -> <<Lit(pat[i])>> \o From[i + 1]
  IN  From[1]

-----------------------------------------------------------------------------
Trailing(c, pat) == Max({0} \cup {k \in 1 .. Len(pat) :
                                    \A i \in Len(pat) - k + 1 .. Len(pat) : pat[i] = c})
Chop(k, pat)     == SubSeq(pat, 1, Len(pat) - k)
HasGlobStar(pat) == \E i \in 1 .. Len(pat) - 1 : pat[i] = "*" /\ pat[i + 1] = "*"

\* mutant: a pattern with a slash inside is matched against basenames too
parse_AlwaysBasename(pattern, include) ==
  LET triple  == Trailing("*", pattern) >= 3
      starred == IF triple THEN Chop(3 * (Trailing("*", pattern) \div 3), pattern) ELSE pattern
      trimmed == Chop(Trailing("/", starred), starred)
      rooted  == trimmed # <<>> /\ Head(trimmed) = "/"
      body    == IF rooted THEN Tail(trimmed) ELSE trimmed
  IN  [syntax |-> "rsync", original |-> pattern, include |-> include, tokens |-> tokenize(body),
       basename_only |-> ~rooted /\ ~triple /\ ~HasGlobStar(body),
       dir_only |-> ~triple /\ starred # trimmed, triple_star |-> triple]

\* RsyncPattern::parse of a text that is not empty
parse(pattern, include) ==
  LET triple  == Trailing("*", pattern) >= 3
      starred == IF triple THEN Chop(3 * (Trailing("*", pattern) \div 3), pattern) ELSE pattern
      trimmed == Chop(Trailing("/", starred), starred)
      rooted  == trimmed # <<>> /\ Head(trimmed) = "/"
      body    == IF rooted THEN Tail(trimmed) ELSE trimmed
  IN  [syntax |-> "rsync", original |-> pattern, include |-> include, tokens |-> tokenize(body),
       basename_only |-> /\ ~rooted /\ ~triple
                         /\ ~Contains(body, "/") /\ ~HasGlobStar(body),
       dir_only |-> ~triple /\ starred # trimmed, triple_star |-> triple]

IsMalformed(rule) == Malformed \in ToSet(rule.tokens)

-----------------------------------------------------------------------------
OneMatches(tok, c) ==
  CASE tok.kind = "lit"     -> c \in tok.of
    [] tok.kind = "ques"    -> c # "/"
    [] tok.kind = "class"   -> c # "/" /\ c \in tok.of
    [] tok.kind = "negated" -> c # "/" /\ c \notin tok.of

\* mutant: a star runs over slashes
match_tokens_StarCrosses(pat, text) ==
  LET From[pi \in 1 .. Len(pat) + 1] == [ti \in 1 .. Len(text) + 1 |->
        IF pi > Len(pat) THEN ti > Len(text)
        ELSE IF pat[pi].kind \in {"star", "globstar"}
             THEN \E k \in ti .. Len(text) + 1 : From[pi + 1][k]
             ELSE ti <= Len(text) /\ OneMatches(pat[pi], text[ti]) /\ From[pi + 1][ti + 1]]
  IN  From[1][1]

\* match_from(pat, pi, text, ti), with places counted from 1; `**/' may match nothing
match_tokens(pat, text) ==
  LET From[pi \in 1 .. Len(pat) + 1] == [ti \in 1 .. Len(text) + 1 |->
        IF pi > Len(pat) THEN ti > Len(text)
        ELSE CASE pat[pi].kind = "globstar" ->
                    \E k \in ti .. Len(text) + 1 :
                      \/ From[pi + 1][k]
                      \/ /\ pi < Len(pat) /\ pat[pi + 1] = Lit("/")
                         /\ k = ti \/ text[k - 1] = "/"
                         /\ From[pi + 2][k]
               [] pat[pi].kind = "star" ->
                    \E k \in ti .. Len(text) + 1 :
                      /\ \A j \in ti .. k - 1 : text[j] # "/"
                      /\ From[pi + 1][k]
               [] OTHER -> /\ ti <= Len(text) /\ OneMatches(pat[pi], text[ti])
                           /\ From[pi + 1][ti + 1]]
  IN  From[1][1]

Slashes(path)         == {i \in DOMAIN path : path[i] = "/"}
member_basename(path) == SubSeq(path, Max({0} \cup Slashes(path)) + 1, Len(path))

\* triple_prefix: only the literals of the pattern are put together
triple_prefix(tokens) ==
  FlattenSeq([i \in DOMAIN tokens |-> IF tokens[i].kind = "lit" THEN SetToSeq(tokens[i].of)
                                                                ELSE <<>>])

\* matches(), for a path in normal form
matches(rule, path, is_dir) ==
  /\ path # <<>>
  /\ rule.dir_only => is_dir
  /\ LET prefix == triple_prefix(rule.tokens)
     IN  IF rule.triple_star
         THEN prefix = <<>> \/ path = prefix \/ IsPrefix(Append(prefix, "/"), path)
         ELSE match_tokens(rule.tokens,
                           IF rule.basename_only THEN member_basename(path) ELSE path)

-----------------------------------------------------------------------------
(***************************************************************************)
(* What README.md 173-181 and the head of rsync.rs say a pattern means.  A *)
(* text is matched when it can be cut into one piece for each token, each  *)
(* piece one that its token stands for; `**/' may stand for no directory   *)
(* at all, that is, its slash for nothing.  So that no cut is guessed, the *)
(* places where the pieces of the first tokens can end are carried along.  *)
(***************************************************************************)
StandsFor(tok, piece) ==
  CASE tok.kind = "globstar" -> TRUE
    [] tok.kind = "star"     -> ~Contains(piece, "/")
    [] OTHER                 -> Len(piece) = 1 /\ OneMatches(tok, piece[1])

Described(tokens, text) ==
  LET Ends[i \in 0 .. Len(tokens)] ==
        IF i = 0 THEN {0}
        ELSE LET begins == Ends[i - 1]
             IN  {end \in 0 .. Len(text) :
                    \/ \E begin \in begins :
                         begin <= end /\ StandsFor(tokens[i], SubSeq(text, begin + 1, end))
                    \/ /\ end \in begins /\ i > 1 /\ tokens[i - 1] = GlobStar /\ tokens[i] = Lit("/")
                       /\ end \in Ends[i - 2] \/ text[end] = "/"}
  IN  Len(text) \in Ends[Len(tokens)]

\* the path itself, and the directories it is in
Ancestry(path) == {path} \cup {SubSeq(path, 1, i - 1) : i \in Slashes(path)}

(***************************************************************************)
(* A pattern with a slash, other than one that ends it, is for whole       *)
(* paths, one without for names; a slash at the end is for directories     *)
(* only; `dir/***' is for dir and everything under it, `***' for all.      *)
(***************************************************************************)
Meaning(pattern, path, is_dir) ==
  LET stars    == Trailing("*", pattern)
      slashes  == Trailing("/", pattern)
      dir      == Chop(stars, pattern)
      trimmed  == Chop(slashes, pattern)
      below    == Chop(Trailing("/", dir), dir)
      Plain(p) == IF p # <<>> /\ Head(p) = "/" THEN tokenize(Tail(p)) ELSE tokenize(p)
  IN  IF stars >= 3
      THEN below = <<>> \/ \E q \in Ancestry(path) : Described(Plain(below), q)
      ELSE /\ slashes > 0 => is_dir
           /\ IF Contains(trimmed, "/") \/ HasGlobStar(trimmed)
              THEN Described(Plain(trimmed), path)
              ELSE Described(Plain(trimmed), member_basename(path))

(***************************************************************************)
(* The patterns for which the documented meaning is claimed: with wildcards*)
(* before `***' the code matches the text without them, and of a longer run*)
(* of stars it takes three at a time, see the README.                      *)
(***************************************************************************)
HasMeaning(pattern) ==
  Trailing("*", pattern) >= 3 =>
    /\ Trailing("*", pattern) % 3 = 0
    /\ ToSet(Chop(Trailing("*", pattern), pattern)) \cap {"*", "?", "[", "\\"} = {}
=============================================================================
