SPECIFICATION Spec
CONSTANTS
  p1 = p1
  p2 = p2
  old = old
  Pid        = {p1, p2, old}
  Live       = {p1, p2}
  Nobody     = Nobody
  StaleAfter = 2
  Silence    = 1
  Horizon    = 3
SYMMETRY Symmetry
INVARIANTS
  TypeOK
  ScratchIsThere
  LeftoversExplained
PROPERTIES
  SweepCollects
