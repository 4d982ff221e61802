SPECIFICATION FairSpec
CONSTANTS
  Jobs = {j1, j2, j3}
  Workers = {w1, w2}
  Stop = Stop
  MaxReports = 1
  MaxMishaps = 1
INVARIANTS
  TypeOK
  LegalHistory
  SlotsKept
  ReceiptsPaidFor
PROPERTIES
  AnswerFinal
  Completes
  Stops
CHECK_DEADLOCK FALSE
