SPECIFICATION FairSpec
CONSTANTS
  NumDocs = 2
  MaxLength = 6
  Texts <- AllTexts
  Sizes <- SizesToTry
  Overlaps <- OverlapsToTry
INVARIANTS PassagesWhole ChunksFit
PROPERTIES CursorAdvances Terminates
CHECK_DEADLOCK FALSE
