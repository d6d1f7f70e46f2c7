SPECIFICATION Spec

CONSTANTS
  Extends = {}
  Alphabet <- MCAlphabet
  Wide <- MCWide
  Setups <- SmallSetups
  Paths <- MemberTexts
  Named <- SmallPaths
  Shaped <- SmallShapes

INVARIANTS
  TypeOK
  RulesAreTheUnfoldedLines
  RefusedForCause
  MatchesAsDescribed
  ShapesReadLikeText
