SPECIFICATION Spec
CONSTANTS
  Surfaces = {s1, s2}
  Helpers = {h1, h2, h3}
  NoOne = NoOne
  Categories = {"plain", "cron", "mail_send", "office"}
  Continued = {FALSE, TRUE}
  MaxMishaps = 2
  TornAppends = TRUE
CHECK_DEADLOCK FALSE
INVARIANTS
  TypeOK
  OneEffect
  OneRunner
  HonestStatus
  ContinuedOnce
PROPERTIES
  LegalAppends
  CommitNotRefused
  KeepsPromise
SYMMETRY Symmetry
