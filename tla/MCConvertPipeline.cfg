SPECIFICATION FairSpec

CONSTANTS
  MemberCount = 4
  Nested <- NestedMembers
  BaseName <- Names
  Formats = {"sevenz", "tar", "dir"}
  FaultSets <- AnyFault
  MaxKills = 1

INVARIANTS
  TypeOK
  StatsAreTrue
  BytesMatchNames
  FailsOnlyWhenEmpty

PROPERTIES
  OutputReplacedLast
  JobEnds
