\* Three grants over one ledger, with lapses, lost replies and late appends.
SPECIFICATION Spec
CONSTANTS
  MaxEpoch = 3
  MaxLog = 4
  Content = {x}
  NoContent = none
INVARIANTS
  AcknowledgedIsOwn
  LiveWriterKnowsItsRecords
  FencedMeansSuperseded
PROPERTIES
  ImplementsFencedLog
\* Grants and records are bounded: the system may stop.
CHECK_DEADLOCK FALSE
