\* Two commands that share an attempt id, and frames that claim grants that
\* are not their writer's.
SPECIFICATION Spec
CONSTANTS
  Command = {c1, c2}
  AttemptId = {a1}
  NoAttemptId = none
  MaxClaimTTL = 1
  MaxCalls = 2
  Deadline = {1}
  MaxTime = 1
  Skew = 0
  MaxResidency = 1
  MaxJournalEpoch = 2
  AttemptJournal = {1, 2}
  ForeignLease = {1, 2}
INVARIANTS
  SettledByOwnDisposition
  SettledByTrueAuthor
\* The clock, the grants and the journal are bounded: the system may stop.
CHECK_DEADLOCK FALSE
