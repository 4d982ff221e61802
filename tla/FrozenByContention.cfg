SPECIFICATION Spec
CONSTANTS
  Surfaces = {s1, s2}
  Helpers = {h1}
  NoOne = NoOne
  Categories = {"plain"}
  Continued = {FALSE}
  MaxMishaps = 0
  TornAppends = FALSE
CHECK_DEADLOCK FALSE
INVARIANTS
  NeverFrozen
SYMMETRY Symmetry
