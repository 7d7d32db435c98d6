SPECIFICATION Spec
CONSTANTS
  Request = {r1, r2}
  Deployments = {TRUE, FALSE}
  MaxAsked = 2
  MaxBoots = 2
  MaxPosts = 3
  MaxBreaks = 2
SYMMETRY RequestSymmetry
CHECK_DEADLOCK FALSE
INVARIANT StaleCleared
