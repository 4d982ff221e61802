SPECIFICATION FairSpec
CONSTANTS
  Slots = {p}
  Free = Free
  Stamps = {t1, t2}
  Replies = {r1}
  Proposals = {}
  MaxMishaps = 2
CHECK_DEADLOCK FALSE
PROPERTIES
  NotWedged
