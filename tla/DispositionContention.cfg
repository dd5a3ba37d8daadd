\* One command, two Hosts' residencies and two attempt ids, two calls in
\* flight, a skewed clock; every call free to stall or die.
SPECIFICATION FairSpec
CONSTANTS
  Command = {c1}
  AttemptId = {a1, a2}
  NoAttemptId = none
  MaxClaimTTL = 2
  MaxCalls = 2
  Deadline = {1}
  MaxTime = 3
  Skew = 1
  MaxResidency = 2
  MaxJournalEpoch = 2
  AttemptJournal = {1}
  ForeignLease = {}
INVARIANTS
  AttemptIsTheOnlyAuthority
  GuardsAdmitEncodable
PROPERTIES
  MarkFollowsTheProvider
  LiveClaimExcludes
  ImplementsLedger
  UnattemptedCommandCloses
  AttemptCloses
\* The clock, the grants and the calls are bounded: the system may stop.
CHECK_DEADLOCK FALSE
