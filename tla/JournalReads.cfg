\* Two commands, two grants opening in any order, Hosts that obey nothing; and
\* pages of any limits in stores of two byte budgets.
SPECIFICATION ReadsSpec
CONSTANTS
  Command = {c1, c2}
  NoCommand = none
  MaxEpoch = 2
  MaxLog = 5
  MaxLimit = 2
  ByteBudget = {1, 3}
  MaxDamage = 1
INVARIANTS WalkReadsItsSnapshot OneFramePerEnvelope
PROPERTIES FindingsHold PagesTile
\* The journal is bounded.
CHECK_DEADLOCK FALSE
