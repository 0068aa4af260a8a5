SPECIFICATION Spec
CONSTANTS
  Bench      = {"cpu", "network", "gpu"}
  Selections <- MCSelections
  Subtests   <- MCSubtests
  Ungraded   = {"network", "gpu"}
  ReadsZero  = {"network"}
  Warmups    = 1
  Timed      = 2
  Soaks      = {TRUE, FALSE}
  MaxSamples = 4
CHECK_DEADLOCK FALSE
INVARIANT CancelYieldsNoResult
