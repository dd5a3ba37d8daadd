------------------------ MODULE ReconciliationClaim ------------------------
(***************************************************************************)
(* A session's reconciliation claim: replicas that share nothing but the   *)
(* store divide the work of reconciling sessions by it.  A claim lapses    *)
(* with its expiry or is released early, and is then anyone's; its holder  *)
(* may take it again at any time.                                          *)
(***************************************************************************)
EXTENDS OrderedIndex

CONSTANTS Holder,      \* the replicas
          MaxClaimTTL  \* how far ahead of a clock a claim may lapse

ASSUME ClaimAssumption == MaxClaimTTL \in Nat

ReconciliationClaimRecord == [holder : Holder, expires : Nat]
ClaimPart == DOMAIN rows = {"claim"}

\* A holder was told that it holds the claim until told[h].
ClaimTypeOK ==
    /\ IndexTypeOK
    /\ Found("claim") => Record("claim") \in ReconciliationClaimRecord
    /\ \A w \in calls : w.rec \in ReconciliationClaimRecord
    /\ told \in [Holder -> Nat]

ClaimInit ==
    /\ rows = [i \in {"claim"} |-> Absent]
    /\ calls = {}
    /\ now = 0
    /\ told = [h \in Holder |-> 0]

-----------------------------------------------------------------------------
\* Mutant: the reader allows for a clock one tick behind its own.
HeldWithGrace(t) == Found("claim") /\ t + 1 < Record("claim").expires
HeldAt(t) == Found("claim") /\ t < Record("claim").expires

Own(h) == Found("claim") /\ Record("claim").holder = h

\* The clock is read once, before the row.  A holder that asks again counts on
\* the lesser of what it had and what it asks for until it is answered.
AcquireReconciliationClaim(h, t, x) ==
    /\ ClaimPart
    /\ t < x /\ x <= t + MaxClaimTTL
    /\ ~Own(h) => ~HeldAt(t)
    /\ Offer("claim", [holder |-> h, expires |-> x])
    /\ told' = [told EXCEPT ![h] = IF x < @ THEN x ELSE @]

\* A holder that gives the claim back counts on it no longer.
ReleaseReconciliationClaim(h, t) ==
    /\ ClaimPart
    /\ Own(h)
    /\ IF HeldAt(t) THEN Offer("claim", [holder |-> h, expires |-> t])
       ELSE UNCHANGED <<rows, calls, now>>
    /\ told' = [told EXCEPT ![h] = 0]

\* A holder that lost its answers, and has no call under way, reads what it has.
GetReconciliationClaim(h, t) ==
    /\ ClaimPart
    /\ Own(h) /\ HeldAt(t)
    /\ \A w \in calls : w.rec.holder # h
    /\ told' = [told EXCEPT ![h] = Record("claim").expires]
    /\ UNCHANGED <<rows, calls, now>>

\* A release wrote an instant that is not ahead of its clock.
ClaimCommit(w) ==
    /\ Land(w)
    /\ told' \in {told, [told EXCEPT ![w.rec.holder] = w.rec.expires]}

ClaimNext ==
    \/ Tick
    \/ \E h \in Holder : \E t \in Reading :
          \/ \E x \in 1..(t + MaxClaimTTL) : AcquireReconciliationClaim(h, t, x)
          \/ ReleaseReconciliationClaim(h, t) \/ GetReconciliationClaim(h, t)
    \/ \E w \in calls : ClaimCommit(w) \/ Lose(w)

-----------------------------------------------------------------------------
(* Safety.                                                                 *)

\* No clock is past x.
AheadOfEveryClock(x) == now + Skew < x

\* Two replicas never both count on the claim while no clock is past what
\* either was told: whatever stalled, was lost, was repeated or was given back.
\* (AcquireReconciliationClaim takes a claim only once it lapsed.)
OneReplicaReconciles ==
    ClaimPart => \A g, h \in Holder :
        AheadOfEveryClock(told[g]) /\ AheadOfEveryClock(told[h]) => g = h
=============================================================================
