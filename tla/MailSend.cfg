SPECIFICATION FairSpec
CONSTANTS
  Remotes = {r1, r2}
  NoRemote = NoRemote
  MaxMishaps = 3
INVARIANTS
  TypeOK
  PostedOnce
  SentOnce
  HonestReceipt
  StraysPaidFor

  
