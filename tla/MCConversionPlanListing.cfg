SPECIFICATION StagingSpec

CONSTANTS
  Extends = {}
  Settings <- OneSetting
  Archives <- NumberedOnly
  Filters <- JustNoFilter
  Renames <- NoRename

INVARIANTS
  ListingIsExact
