SPECIFICATION Spec

CONSTANTS
  Members <- Tree
  Extends <- Prefixed
  Filters <- MappedFilters

INVARIANTS
  MappedSafely
