\* One command, two grants that apply and may die, one that recovers, in
\* order; a skewed clock and two calls in flight.
SPECIFICATION FairSpec
CONSTANTS
  Command = {c1}
  NoCommand = none
  MaxEpoch = 3
  MaxLog = 4
  MaxTime = 3
  MaxCalls = 2
  MaxClaimTTL = 2
  Skew = 1
  Deadline = {1}
  Applier = {1, 2}
  LateOpeners = FALSE
INVARIANTS
  AppliedByItsOwnEffect
PROPERTIES
  LiveClaimExcludes
  ImplementsCommandEffects
  EveryCommandIsSettled
\* The clock, the journal and the calls are bounded: the system may stop.
CHECK_DEADLOCK FALSE
