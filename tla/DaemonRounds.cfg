SPECIFICATION FairSpec
CONSTANTS
  Daemons = {d1, d2}
  Kept = {d1}
  Jobs = {daily, reminder}
  Once = {reminder}
  MaxTick = 2
  MaxMishaps = 1
  MaxChanges = 1
INVARIANTS
  TypeOK
  RunsOnce
  LossesPaidFor
  NightsPaidFor
PROPERTIES
  NotMissed
