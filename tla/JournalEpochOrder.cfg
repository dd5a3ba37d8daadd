SPECIFICATION Spec
CONSTANTS
  MaxEpoch = 2
  MaxLog = 2
  Content = {x}
  NoContent = none
INVARIANT EpochOrderIsLedgerOrder
CHECK_DEADLOCK FALSE
