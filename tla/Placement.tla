----------------------------- MODULE Placement -----------------------------
(***************************************************************************)
(* A session's catalog row and the record of how its dedicated workload    *)
(* ended.  One revision guards two halves of the catalog row: a Host       *)
(* writes one under its lease epoch, a Factory the other under an          *)
(* expected revision and an idempotency key, of which only the last is     *)
(* remembered.  Every accepted desired write is a generation; controllers  *)
(* record one outcome for a generation, and only the latest is kept.       *)
(***************************************************************************)
EXTENDS OrderedIndex

CONSTANTS Creation,       \* the creations of the row, each with its own key
          Request,        \* the desired writes, each with its own key
          Outcome,        \* how a generation may end: kind, reason and epoch
          MaxEpoch,       \* bound: lease epochs of its Hosts
          MaxSeq,         \* bound: journal tips
          MaxGeneration   \* the generation that has no successor

ASSUME PlacementAssumption ==
    /\ Creation \cap Request = {}
    /\ MaxEpoch \in Nat /\ MaxSeq \in Nat /\ MaxGeneration \in Nat \ {0}

Generation == 1..MaxGeneration
PlacementPart == DOMAIN rows = {"catalog", "termination"}

\* What a Host published is told apart by its epoch and tip, what a Factory
\* desires by its key.
CatalogRecord == [epoch : 0..MaxEpoch, seq : 0..MaxSeq, key : Creation \cup Request, gen : Generation]
PlacementTermination == [gen : Generation, outcome : Outcome]

\* asked: the revision a desired write expects; retries repeat it.
\* installed: the generations each desired write became.
\* ended: what controllers were told about generations.
PlacementTypeOK ==
    /\ IndexTypeOK
    /\ Found("catalog") => Record("catalog") \in CatalogRecord
    /\ Found("termination") => Record("termination") \in PlacementTermination
    /\ told.asked \in [Request -> 0..MaxRev]
    /\ told.installed \subseteq Request \X Nat
    /\ told.ended \subseteq PlacementTermination

\* The session is new, or has a past of which only the generation is left.
PlacementInit ==
    /\ rows \in {[i \in {"catalog", "termination"} |-> Absent]} \cup
         {[i \in {"catalog", "termination"} |->
              IF i = "catalog" THEN [rev |-> g, rec |-> [epoch |-> 0, seq |-> 0, key |-> k, gen |-> g]]
              ELSE Absent] : g \in Generation \cap (1..MaxRev), k \in Creation}
    /\ calls = {}
    /\ now = 0
    /\ told = [asked |-> [k \in Request |-> 0], installed |-> {}, ended |-> {}]

-----------------------------------------------------------------------------
(* The catalog row.                                                        *)

\* Whoever created the row first did; the others are shown its row.
CreateCatalogEntry(k) ==
    /\ PlacementPart
    /\ OfferAt("catalog", 0, [epoch |-> 0, seq |-> 0, key |-> k, gen |-> 1])
    /\ UNCHANGED told

\* A legacy session's row; a disposition session has none of a Host's state.
\* Mutant: the tip is taken as given.
HostFenceOfEpoch(e, s) == Record("catalog").epoch <= e
HostFence(e, s) == Record("catalog").epoch <= e /\ Record("catalog").seq <= s

UpdateCatalogHostState(e, s) ==
    /\ PlacementPart
    /\ Found("catalog") /\ HostFence(e, s)
    /\ Offer("catalog", [Record("catalog") EXCEPT !.epoch = e, !.seq = s])
    /\ UNCHANGED told

HasNext(gen) == gen # MaxGeneration
NextDesiredGeneration(gen) == (gen + 1) % (MaxGeneration + 1)

\* Mutant: the expected revision is not compared.
ExpectsAnything(k, exp) == TRUE
Expects(k, exp) == exp = rows["catalog"].rev

\* The key is compared before the revision.  A retry expects what its first
\* try did.
UpdateCatalogDesiredState(k, exp) ==
    /\ PlacementPart
    /\ Found("catalog")
    /\ told.asked[k] \in {0, exp}
    /\ Record("catalog").key # k
    /\ Expects(k, exp)
    /\ HasNext(Record("catalog").gen)
    /\ Offer("catalog", [Record("catalog") EXCEPT !.key = k, !.gen = NextDesiredGeneration(@)])
    /\ told' = [told EXCEPT !.asked[k] = exp]

-----------------------------------------------------------------------------
(* How a generation ended.                                                 *)

\* Mutant: a repeat is compared by its generation.
RepeatsByGeneration(r) == Record("termination").gen = r.gen
Repeats(r) == Record("termination") = r

\* The catalog may be read a while before the other row: its generation has
\* only risen since.
RecordPlacementTermination(r) ==
    /\ PlacementPart
    /\ Found("catalog") /\ r.gen <= Record("catalog").gen
    /\ IF Found("termination") /\ Record("termination").gen >= r.gen
       THEN /\ Repeats(r)
            /\ told' = [told EXCEPT !.ended = @ \cup {r}]
            /\ UNCHANGED <<rows, calls, now>>
       ELSE Offer("termination", r) /\ UNCHANGED told

GetPlacementTermination(g) ==
    /\ PlacementPart
    /\ Found("termination") /\ Record("termination").gen = g
    /\ told' = [told EXCEPT !.ended = @ \cup {Record("termination")}]
    /\ UNCHANGED <<rows, calls, now>>

PlacementCommit(w) ==
    /\ Land(w)
    /\ told' \in IF w.id = "catalog"
                 THEN {[told EXCEPT !.installed =
                           IF w.rec.key \in Request THEN @ \cup {<<w.rec.key, w.rec.gen>>} ELSE @]}
                 ELSE {told, [told EXCEPT !.ended = @ \cup {w.rec}]}

PlacementNext ==
    \/ \E k \in Creation : CreateCatalogEntry(k)
    \/ \E e \in 1..MaxEpoch, s \in 0..MaxSeq : UpdateCatalogHostState(e, s)
    \/ \E k \in Request, exp \in 1..MaxRev : UpdateCatalogDesiredState(k, exp)
    \/ \E r \in PlacementTermination : RecordPlacementTermination(r)
    \/ \E g \in Generation : GetPlacementTermination(g)
    \/ \E w \in calls : PlacementCommit(w) \/ Lose(w)

-----------------------------------------------------------------------------
(* Safety.                                                                 *)

\* Two writers share a revision and neither undoes the other's half: a Host's
\* mark and tip never fall, also not by a Factory's write, and a generation
\* names one desired state for good, also not by a Host's: none is reused,
\* none is rewritten, and the count does not wrap.  (hostEpochFence,
\* holdsJournalTip, nextDesiredGeneration and the one revision.)
NeitherHalfUndone ==
    [][PlacementPart /\ Found("catalog") =>
          LET c == Record("catalog")
              d == Record("catalog")'
          IN  /\ c.epoch <= d.epoch /\ c.seq <= d.seq
              /\ c.gen <= d.gen /\ (c.gen = d.gen => c.key = d.key)]_vars

\* However often a desired write is retried, it becomes one generation, though
\* only the last key is remembered: what the key no longer catches, the
\* expected revision does.
RequestAppliedOnce ==
    PlacementPart => \A p, q \in told.installed : p[1] = q[1] => p = q

\* What any controller was told of a generation's end stays what is recorded,
\* until a later generation ended.
ToldOutcomesStand ==
    PlacementPart => \A r \in told.ended :
        Found("termination") /\ (Record("termination") = r \/ r.gen < Record("termination").gen)
=============================================================================
