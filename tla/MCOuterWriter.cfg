SPECIFICATION Spec

CONSTANTS
  Producers = {1, 2, 3}
  Free = Free
  Formats = {"sevenz", "tar", "dir"}
  Name <- UnrelatedNames
  Size <- Sizes
  CTime <- CTimes
  NoTime = NoTime
  ByteBits = 2
  StreamFails = {1, 3}
  PushPanics = {1}

INVARIANTS
  TypeOK
  ReadsBack
  HeaderReadsBack

PROPERTIES
  PoisonIsFinal
  AppendsAtomically
