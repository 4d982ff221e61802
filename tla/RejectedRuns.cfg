SPECIFICATION Spec
CONSTANTS
  Surfaces = {s1, s2}
  Helpers = {h1, h2}
  NoOne = NoOne
  Categories = {"plain"}
  Continued = {FALSE}
  MaxMishaps = 1
  TornAppends = FALSE
CHECK_DEADLOCK FALSE
INVARIANTS
  RejectedNeverRuns
SYMMETRY Symmetry
