\* Two calls on four sessions whose names collide.
SPECIFICATION Spec
CONSTANTS
  t1 = t1
  t2 = t2
  t3 = t3
  s1 = s1
  s2 = s2
  s3 = s3
  s4 = s4
  Tenant = {t1, t2, t3}
  Session = {s1, s2, s3, s4}
  TenantOf <- MCTenantOf
  TenantToken <- MCTenantToken
  SessionToken <- MCSessionToken
  Call = {k1, k2}
  None = none
SYMMETRY Calls
INVARIANTS BoundIsDurable OldSessionStaysLegacy RefusedForCause
\* Every call ends.
CHECK_DEADLOCK FALSE
