\* One command and two grants, of which the first may open after the second.
SPECIFICATION Spec
CONSTANTS
  Command = {c1}
  NoCommand = none
  MaxEpoch = 2
  MaxLog = 4
  MaxTime = 2
  MaxCalls = 1
  MaxClaimTTL = 1
  Skew = 0
  Deadline = {1}
  Applier = {1}
  LateOpeners = TRUE
INVARIANTS RejectedLeavesNoEffect
CHECK_DEADLOCK FALSE
