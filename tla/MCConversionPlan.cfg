SPECIFICATION StagingSpec

CONSTANTS
  Extends = {}
  Settings <- SmallSettings
  Archives <- SmallArchives
  Filters <- SmallFilters
  Renames <- SmallRenames

INVARIANTS
  StagingTypeOK
  PlanIsTheFilteredArchive
  DestinationsDistinct
  RefusedForNamesOnly
  MetaGoesWithBytes
  StagedIsPlanned
