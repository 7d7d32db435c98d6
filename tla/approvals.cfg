SPECIFICATION Spec
CONSTANTS
  Request = {r1, r2}
  Deployments = {TRUE, FALSE}
  MaxAsked = 3
  MaxBoots = 2
  MaxPosts = 3
  MaxBreaks = 2
SYMMETRY RequestSymmetry
INVARIANT TypeOK
INVARIANT ClosedStaysClosed
INVARIANT WaitingIsOpen
INVARIANT BadgeExact
INVARIANT RecoveryCloses
CHECK_DEADLOCK FALSE
