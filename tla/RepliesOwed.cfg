SPECIFICATION Spec
CONSTANTS
  Slots = {p, q}
  Free = Free
  Stamps = {t1, t2}
  Replies = {r1, r2}
  Proposals = {r2}
  MaxMishaps = 2
CHECK_DEADLOCK FALSE
INVARIANTS
  TypeOK
  NothingLost
  DuplicatesPaidFor
PROPERTIES
  KeepsReplies
SYMMETRY Symmetry
