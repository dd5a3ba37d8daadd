\* Two Hosts, each of two processes in turn, with pages of one row and passes
\* of two; or one gate, two Hosts in turn, and a sweep.
SPECIFICATION FairSpec
CONSTANTS
  MaxRev = 4
  MaxTime = 2
  MaxCalls = 2
  Skew = 0
  NoRecord = none
  Host = {1, 2}
  MaxGeneration = 2
  MaxTTL = 1
  Limit = 1
  MaxPages = 2
  MaxAdverts = 2
  Gate = {g}
  MaxEpoch = 2
  MinRemnantAge = 1
  MaxOpenSpan = 0
  Overlap = FALSE
INVARIANTS OpenGateHasDeadline SuccessorFencesGates
PROPERTIES AdvertisementStands LapsedIsWithdrawn RemnantsAreRetired
\* The clock and the revisions run out.
CHECK_DEADLOCK FALSE
