SPECIFICATION Spec
CONSTANTS
  Programs <- MCPrograms
  Files <- MCFiles
  Dirs <- MCDirs
  Names <- MCNames
  Begins <- MCBegins
  Chunk = 2
  Locks = 2
  Lows = 8
  Tokens = 7
  Ids = 2
  MaxRefusals = 1
INVARIANTS MovesFaithful AnswersTrue SearchComplete Resident
PROPERTY CallsEnd
CHECK_DEADLOCK FALSE
