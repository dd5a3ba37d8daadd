--------------------------- MODULE OrderedIndex ---------------------------
(***************************************************************************)
(* What the store's rows have in common.  A row is created once and then   *)
(* replaced by compare-and-swap on its revision; nothing is ever deleted   *)
(* outright.  An operation reads a row, perhaps on a clock it read         *)
(* earlier, and prepares a write for the revision it read; the write lands *)
(* later, or never, and its caller may or may not be told.                 *)
(***************************************************************************)
EXTENDS Naturals, FiniteSets

CONSTANTS MaxRev,    \* bound: a row's revisions
          MaxTime,   \* bound: the clock
          MaxCalls,  \* bound: writes in flight at once
          Skew,      \* how far a replica's clock may run ahead
          NoRecord   \* what an absent row holds

ASSUME IndexAssumption ==
    MaxRev \in Nat /\ MaxTime \in Nat /\ MaxCalls \in Nat /\ Skew \in Nat

VARIABLES rows,   \* row -> revision and record
          calls,  \* the writes that operations in flight have prepared
          now,    \* the clock
          told    \* what callers were told; no definition of the code reads it

vars == <<rows, calls, now, told>>

Absent == [rev |-> 0, rec |-> NoRecord]
Found(i) == rows[i].rev # 0
Record(i) == rows[i].rec

\* A clock reading may be as old as the call that took it is slow.
Reading == 0..(now + Skew)

IndexTypeOK ==
    /\ \A i \in DOMAIN rows : rows[i].rev \in 0..MaxRev /\ (~Found(i) => rows[i] = Absent)
    /\ \A w \in calls : w.id \in DOMAIN rows /\ w.rev <= rows[w.id].rev
    /\ now \in 0..MaxTime

Tick ==
    /\ now < MaxTime
    /\ now' = now + 1
    /\ UNCHANGED <<rows, calls, told>>

\* A write of `rec` that names revision `rev` of row i: zero creates it.
OfferAt(i, rev, rec) ==
    /\ rev < MaxRev
    /\ Cardinality(calls) < MaxCalls
    /\ calls' = calls \cup {[id |-> i, rev |-> rev, rec |-> rec]}
    /\ UNCHANGED <<rows, now>>
Offer(i, rec) == OfferAt(i, rows[i].rev, rec)

\* Mutant: the write names no revision.
CurrentWhatever(w) == TRUE
Current(w) == rows[w.id].rev = w.rev

Land(w) ==
    /\ Current(w)
    /\ rows' = [rows EXCEPT ![w.id] = [rev |-> rows[w.id].rev + 1, rec |-> w.rec]]
    /\ calls' = calls \ {w}
    /\ UNCHANGED now

\* Refused by the provider, lost on the way, or its caller stopped.
Lose(w) ==
    /\ calls' = calls \ {w}
    /\ UNCHANGED <<rows, now, told>>
=============================================================================
