SPECIFICATION FairSpec
CONSTANTS
  Edits = {"edit1", "edit2", "edit3"}
  MaxMishaps = 3
CHECK_DEADLOCK FALSE
INVARIANTS
  TypeOK
  WorkKept
  WorkSeen
  PriorKept
  JournalTrue
PROPERTIES
  Published
  RolledBack
