------------------------- MODULE MCProtocolBinding -------------------------
(***************************************************************************)
(* Four sessions of three tenants.  The first two have one session digest   *)
(* and differ in their tenants'; the third shares only the first one's      *)
(* tenant digest; the fourth, of the third's tenant, shares both.           *)
(***************************************************************************)
EXTENDS ProtocolBinding, TLC

CONSTANTS t1, t2, t3, s1, s2, s3, s4

MCTenantOf == [s \in Session |-> IF s = s1 THEN t1 ELSE IF s = s2 THEN t2 ELSE t3]
MCTenantToken == [t \in Tenant |-> IF t = t2 THEN t2 ELSE t1]
MCSessionToken == [s \in Session |-> IF s = s3 THEN s3 ELSE s1]

\* No definition tells one call from another.
Calls == Permutations(Call)
=============================================================================
