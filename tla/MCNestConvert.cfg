SPECIFICATION Spec

CONSTANTS
  Members <- Tree
  Extends <- Prefixed
  Filters <- SafeFilters

INVARIANTS
  TypeOK
  
  DamageIsSeen
  KeepIsTheWalk
