\* One component's rows of a session: three writers' calls, one revision.
SPECIFICATION Spec
CONSTANTS
  MaxRev = 5
  MaxTime = 3
  MaxCalls = 2
  Skew = 1
  NoRecord = none
  MaxMark = 2
  MaxOrder = 2
  MaxPage = 2
  Holder = {h1, h2}
  MaxClaimTTL = 2
  Creation = {k0}
  Request = {k1, k2}
  Outcome = {graceful, forced}
  MaxEpoch = 2
  MaxSeq = 1
  MaxGeneration = 4
  Launch = {l1, l2}
  Proposal = {p1, p2}
  Plain = plain
SYMMETRY Symmetry
INVARIANTS ToldStands NoCommandPassedOver OneReplicaReconciles RequestAppliedOnce ToldOutcomesStand CreateConverges
PROPERTIES NeitherHalfUndone
\* The rows are out of revisions.
CHECK_DEADLOCK FALSE
