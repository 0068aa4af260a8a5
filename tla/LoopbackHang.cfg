SPECIFICATION Spec
CONSTANTS
  s1 = s1
  s2 = s2
  Stream   = {s1, s2}
  Only     = s1
  Kinds    = {"parallel"}
  Buffer   = 2
  MaxTries = 3
CHECK_DEADLOCK FALSE
PROPERTIES
  BlockedSubtestReturns
