\* Two grants; a stream with two readers; two puts; a grant beside a
\* put, and beside a writer.
SPECIFICATION FairSpec
CONSTANTS
  Grant = {g, h}
  Writer = {w}
  Reader = {r}
  Length = 1
  Put = {p, q}
  Generation = {1, 2}
  Mix = {{g, h}, {r}, {p, q}, {g, p}, {w, g}}
INVARIANTS ProviderOutlivesItsUse LeaseReleasedOnce ObjectsAreWhole
PROPERTIES CloseCompletes
\* The Store has been closed.
CHECK_DEADLOCK FALSE
