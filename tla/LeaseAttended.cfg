SPECIFICATION FairSpec
CONSTANTS
  Slots = {p, q}
  Free = Free
  Stamps = {t1, t2}
  Replies = {}
  Proposals = {}
  MaxMishaps = 3
CHECK_DEADLOCK FALSE
INVARIANTS
  OneOwner
PROPERTIES
  Attended
