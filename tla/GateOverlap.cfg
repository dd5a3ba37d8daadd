\* One gate, resolved by one Host while another opens it.
SPECIFICATION GatesSpec
CONSTANTS
  MaxRev = 4
  MaxTime = 2
  MaxCalls = 2
  Skew = 0
  NoRecord = none
  Gate = {g}
  MaxEpoch = 2
  MinRemnantAge = 1
  MaxOpenSpan = 0
  Overlap = TRUE
INVARIANT OpenGateHasDeadline
CHECK_DEADLOCK FALSE
