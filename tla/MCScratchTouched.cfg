SPECIFICATION Spec
CONSTANTS
  p1 = p1
  p2 = p2
  old = old
  Pid        = {p1, p2, old}
  Live       = {p1, p2}
  Nobody     = Nobody
  StaleAfter = 2
  Silence    = 2
  Horizon    = 4
SYMMETRY Symmetry
INVARIANT ConcurrentNeverTouched
