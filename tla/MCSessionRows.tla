--------------------------- MODULE MCSessionRows ---------------------------
(* An instance of SessionRows.  Nothing tells its replicas, the outcomes of *)
(* a generation, launches or proposals apart.                               *)
EXTENDS SessionRows, TLC

Symmetry ==
    Permutations(Holder) \cup Permutations(Outcome) \cup Permutations(Request)
        \cup Permutations(Launch) \cup Permutations(Proposal)
=============================================================================
