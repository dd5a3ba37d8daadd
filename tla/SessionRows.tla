---------------------------- MODULE SessionRows ----------------------------
(***************************************************************************)
(* The rows of a session that one revision each guards.  The components    *)
(* do not interact, so a behaviour has the rows of one, chosen at its       *)
(* start: the checker explores their sum and not their product.            *)
(***************************************************************************)
EXTENDS CommandConsumption, ReconciliationClaim, Placement, PublicCreate

Init == FencedInit \/ ConsumptionInit \/ ClaimInit \/ PlacementInit \/ CreateInit
Next ==
    \/ FencedPart /\ FencedNext
    \/ ConsumptionPart /\ ConsumptionNext
    \/ ClaimPart /\ ClaimNext
    \/ PlacementPart /\ PlacementNext
    \/ CreatePart /\ CreateNext

Spec == Init /\ [][Next]_vars

\* Every row, every write on its way and everything told is what the code can
\* store and say.
TypeOK ==
    \/ FencedPart /\ FencedTypeOK
    \/ ConsumptionPart /\ ConsumptionTypeOK
    \/ ClaimPart /\ ClaimTypeOK
    \/ PlacementPart /\ PlacementTypeOK
    \/ CreatePart /\ CreateTypeOK
=============================================================================
