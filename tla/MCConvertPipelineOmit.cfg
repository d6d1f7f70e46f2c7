SPECIFICATION Spec

CONSTANTS
  MemberCount = 4
  Nested <- NestedMembers
  BaseName <- Names
  Formats = {"sevenz"}
  FaultSets <- OnlyMembers
  MaxKills = 0

INVARIANTS
  MissingMemberIsSkipped
