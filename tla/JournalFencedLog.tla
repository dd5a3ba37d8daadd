-------------------------- MODULE JournalFencedLog --------------------------
(***************************************************************************)
(* The journal's writers implement the fenced log.                         *)
(***************************************************************************)
EXTENDS JournalWriter

FencedEntries ==
    [i \in DOMAIN log |->
        [by |-> log[i].by, opens |-> log[i].frame.kind = "opening_fence"]]
FencedTold == {<<a.seq, a.by>> : a \in acked}

Fenced == INSTANCE FencedLog WITH
    Grant <- Epoch, entries <- FencedEntries, told <- FencedTold

\* Every grant's records are one unbroken run behind its opening fence, and no
\* record of a grant follows another grant's fence, though leases lapse
\* unnoticed, appends land late and openings fail half way.  (OpenJournal's
\* fence at the tip it read, and Append's count of its own records alone.)
ImplementsFencedLog == Fenced!LogSpec
=============================================================================
