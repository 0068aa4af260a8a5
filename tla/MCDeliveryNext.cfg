SPECIFICATION Spec
CONSTANTS
  p1 = p1
  p2 = p2
  Run      = {p1, p2}
  Nobody   = Nobody
  Options <- MCOptions
  Window   = 1
  Horizon  = 1
  ATTEMPTS = 2
  MAX_WAIT = 120
CHECK_DEADLOCK FALSE
INVARIANT NextRunDelivers
