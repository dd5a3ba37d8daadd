------------------------------- MODULE Gates -------------------------------
(***************************************************************************)
(* A session's open gates stand in its catalog row.  For each there is a   *)
(* deadline intent, a row of its own in the order of deadlines, by which a *)
(* sweep finds it.  No write covers both: opening writes the intent first, *)
(* resolving clears the projection first, and a sweep retires what either  *)
(* left behind, which it tells from a gate being opened by its age alone.  *)
(***************************************************************************)
EXTENDS OrderedIndex

CONSTANTS Gate,         \* gate ids
          MaxEpoch,     \* bound: the epochs, or residencies, of its Hosts
          MinRemnantAge,\* how old an intent must be to be a remnant
          MaxOpenSpan,  \* how long an OpenGate may last
          Overlap       \* may a gate be resolved while it is being opened?

ASSUME GateAssumption ==
    /\ "catalog" \notin Gate
    /\ {MaxEpoch, MinRemnantAge, MaxOpenSpan} \subseteq Nat
    /\ MaxOpenSpan + Skew < MinRemnantAge
    /\ Overlap \in BOOLEAN

GatesPart == told.part = "gates"
Epoch == 1..MaxEpoch

\* An intent is due, parked, where a sweep does not see it, or dead for good.
Filing == {"due", "parked", "dead"}
GateIntent == [at : Nat, filing : Filing]
CatalogRecord == [mode : {"legacy", "disposition"}, mark : 0..MaxEpoch, open : SUBSET Gate]

\* A call of OpenGate, ResolveGate or RetireGateDeadlineIntent and how far it
\* is: the revisions it read, and where it goes once the intent is committed.
Stage == {"begun", "intent", "restamp", "project", "fence", "clear", "retire", "delete", "aged", "closed", "done"}
GateCall == [kind : {"open", "resolve", "retire"}, gate : Gate, by : 0..MaxEpoch, stage : Stage,
             then : Stage, at : Nat, began : Nat, catalog : Nat, intent : Nat]

\* told.mark: the highest epoch whose gate write succeeded.
GatesTypeOK ==
    /\ Record("catalog") \in CatalogRecord
    /\ \A g \in Gate : Found(g) => Record(g) \in GateIntent
    /\ calls \subseteq GateCall
    /\ told.mark \in 0..MaxEpoch

GatesInit ==
    /\ rows \in {[i \in {"catalog"} \cup Gate |->
                    IF i = "catalog" THEN [rev |-> 1, rec |-> [mode |-> m, mark |-> 0, open |-> {}]]
                    ELSE Absent] : m \in {"legacy", "disposition"}}
    /\ calls = {}
    /\ now = 0
    /\ told = [part |-> "gates", mark |-> 0]

-----------------------------------------------------------------------------
Catalog == Record("catalog")
Disposition == Catalog.mode = "disposition"
Open(g) == g \in Catalog.open
GateEpochFence(e) == Catalog.mark <= e

Finish(c) ==
    /\ calls' = calls \ {c}
    /\ UNCHANGED told
\* A call goes on as d.  When d is done its caller may rely on its mark.
Proceed(c, d) ==
    IF d.stage = "done"
    THEN calls' = calls \ {c} /\ told' = [told EXCEPT !.mark = IF @ < c.by THEN c.by ELSE @]
    ELSE calls' = (calls \ {c}) \cup {d} /\ UNCHANGED told
\* A compare-and-swap at the revision the call read.
Swap(i, rev, rec) ==
    /\ rows[i].rev = rev /\ rev < MaxRev
    /\ rows' = [rows EXCEPT ![i] = [rev |-> rev + 1, rec |-> rec]]
SwapCatalog(c, open) == Swap("catalog", c.catalog, [Catalog EXCEPT !.mark = c.by, !.open = open])

\* A Host has one call about a gate at a time.
MayBegin(kind, g, e) ==
    /\ Cardinality({c \in calls : c.kind # "retire"}) < MaxCalls
    /\ \A c \in calls : c.gate = g /\ c.kind # "retire" =>
          c.by # e /\ (Overlap \/ (c.kind = "open" /\ kind = "open"))

NewCall(kind, g, e) ==
    [kind |-> kind, gate |-> g, by |-> e, stage |-> "begun", then |-> "done",
     at |-> 0, began |-> 0, catalog |-> 0, intent |-> 0]

\* Mutant: a gate write that changes no gate leaves the mark.
AfterNoChangeNothing(c, next) == next
\* A write that changes no gate raises the mark of a disposition session.
AfterNoChange(c, next) == IF Disposition /\ Catalog.mark < c.by THEN "fence" ELSE next

-----------------------------------------------------------------------------
(* Opening.                                                                *)

\* The clock is read first.  Bound: a gate is opened while there is time left
\* for what it leaves to age.
BeginOpenGate(g, e, t) ==
    /\ MayBegin("open", g, e)
    /\ now + MinRemnantAge <= MaxTime
    /\ calls' = calls \cup {[NewCall("open", g, e) EXCEPT !.at = t, !.began = now]}
    /\ UNCHANGED <<rows, now, told>>

\* The catalog is read.  A gate that stands open is opened again: its intent is
\* committed as a new one's, its projection is not written.
OpenGate(c) ==
    /\ c.kind = "open" /\ c.stage = "begun"
    /\ GateEpochFence(c.by)
    /\ Proceed(c, [c EXCEPT !.stage = "intent", !.catalog = rows["catalog"].rev,
                            !.then = IF Open(c.gate) THEN AfterNoChange(c, "done") ELSE "project"])
    /\ UNCHANGED <<rows, now>>

\* Mutant: only a first attempt is recorded.
RestampsParked(c) == Record(c.gate).filing = "parked"
\* A later attempt restarts the age; a parked intent is filed again.
Restamps(c) == Record(c.gate).filing = "parked" \/ Record(c.gate).at < c.at

\* The intent is created or, when it is there, read; a dead one refuses.
CommitGateIntent(c) ==
    /\ c.stage = "intent"
    /\ \/ /\ ~Found(c.gate)
          /\ Swap(c.gate, 0, [at |-> c.at, filing |-> "due"])
          /\ Proceed(c, [c EXCEPT !.stage = c.then])
       \/ /\ Found(c.gate) /\ Record(c.gate).filing # "dead"
          /\ IF Restamps(c)
             THEN Proceed(c, [c EXCEPT !.stage = "restamp", !.intent = rows[c.gate].rev])
             ELSE Proceed(c, [c EXCEPT !.stage = c.then])
          /\ UNCHANGED rows
    /\ UNCHANGED now

\* The recorded instant only moves forward.  (Bound: a sweep keeps a revision.)
RestampGateIntent(c) ==
    /\ c.stage = "restamp"
    /\ c.intent + 1 < MaxRev
    /\ Swap(c.gate, c.intent, [at |-> IF c.at < Record(c.gate).at THEN Record(c.gate).at ELSE c.at,
                               filing |-> "due"])
    /\ Proceed(c, [c EXCEPT !.stage = c.then])
    /\ UNCHANGED now

Project(c) ==
    /\ c.stage = "project"
    /\ now <= c.began + MaxOpenSpan
    /\ SwapCatalog(c, Catalog.open \cup {c.gate})
    /\ Proceed(c, [c EXCEPT !.stage = "done"])
    /\ UNCHANGED now

FenceWithoutChange(c) ==
    /\ c.stage = "fence"
    /\ SwapCatalog(c, Catalog.open)
    /\ Proceed(c, [c EXCEPT !.stage = IF c.kind = "open" THEN "done" ELSE "retire"])
    /\ UNCHANGED now

-----------------------------------------------------------------------------
(* Resolving.                                                              *)

BeginResolveGate(g, e) ==
    /\ MayBegin("resolve", g, e)
    /\ calls' = calls \cup {NewCall("resolve", g, e)}
    /\ UNCHANGED <<rows, now, told>>

ResolveGate(c) ==
    /\ c.kind = "resolve" /\ c.stage = "begun"
    /\ GateEpochFence(c.by)
    /\ Proceed(c, [c EXCEPT !.catalog = rows["catalog"].rev,
                            !.stage = IF Open(c.gate) THEN "clear" ELSE AfterNoChange(c, "retire")])
    /\ UNCHANGED <<rows, now>>

ClearProjection(c) ==
    /\ c.stage = "clear"
    /\ SwapCatalog(c, Catalog.open \ {c.gate})
    /\ Proceed(c, [c EXCEPT !.stage = "retire"])
    /\ UNCHANGED now

\* The intent is read, and deleted at the revision read.
RetireGateIntent(c) ==
    /\ c.stage = "retire"
    /\ IF Found(c.gate) /\ Record(c.gate).filing # "dead"
       THEN Proceed(c, [c EXCEPT !.stage = "delete", !.intent = rows[c.gate].rev])
       ELSE Proceed(c, [c EXCEPT !.stage = "done"])
    /\ UNCHANGED <<rows, now>>

DeleteGateIntent(c) ==
    /\ c.stage = "delete"
    /\ Swap(c.gate, c.intent, [Record(c.gate) EXCEPT !.filing = "dead"])
    /\ Proceed(c, [c EXCEPT !.stage = "done"])
    /\ UNCHANGED now

\* A call is refused, fails, or stops for good where it is.  Of a retirement,
\* which writes last, it makes no difference where.
Stop(c) ==
    /\ c.kind # "retire" \/ c.stage = "begun"
    /\ Finish(c)
    /\ UNCHANGED <<rows, now>>

\* A legacy Host projects its gates anew.  One that it drops leaves its intent;
\* one that it opens here never had any and is not modelled.
UpdateCatalogHostState(e, open) ==
    /\ ~Disposition /\ GateEpochFence(e)
    /\ open \subseteq Catalog.open
    /\ Swap("catalog", rows["catalog"].rev, [Catalog EXCEPT !.mark = e, !.open = open])
    /\ UNCHANGED <<calls, now, told>>

-----------------------------------------------------------------------------
(* The sweep.                                                              *)

Remnant(g) == GatesPart /\ Found(g) /\ Record(g).filing = "due" /\ ~Open(g)

\* ListDueGates reports a remnant, at a revision, and the sweep retires it.
ListDueGates(g) ==
    /\ Remnant(g)
    /\ \A c \in calls : c.kind = "retire" => c.gate # g
    /\ calls' = calls \cup {[NewCall("retire", g, 0) EXCEPT !.intent = rows[g].rev]}
    /\ UNCHANGED <<rows, now, told>>

OldEnough(g, t) == t >= Record(g).at + MinRemnantAge

\* The intent is read again and its age judged by a clock read before; one that
\* is no longer due was retired by someone else.
JudgeAge(c, t) ==
    /\ c.kind = "retire" /\ c.stage = "begun"
    /\ IF Record(c.gate).filing = "due"
       THEN OldEnough(c.gate, t) /\ Proceed(c, [c EXCEPT !.stage = "aged"])
       ELSE Finish(c)
    /\ UNCHANGED <<rows, now>>

RefuseIfGateIsStillOpen(c) ==
    /\ c.stage = "aged"
    /\ IF Open(c.gate) THEN Finish(c) ELSE Proceed(c, [c EXCEPT !.stage = "closed"])
    /\ UNCHANGED <<rows, now>>

\* Mutant: a parked intent stays due.
RetiredStaysDue == IF Disposition THEN "due" ELSE "dead"
Retired == IF Disposition THEN "parked" ELSE "dead"

\* At the revision that was listed, or not at all.
RetireGateDeadlineIntent(c) ==
    /\ c.stage = "closed"
    /\ IF rows[c.gate].rev = c.intent
       THEN Swap(c.gate, c.intent, [Record(c.gate) EXCEPT !.filing = Retired])
       ELSE UNCHANGED rows
    /\ Finish(c)
    /\ UNCHANGED now

GatesNext ==
    \/ Tick
    \/ \E g \in Gate :
          \/ \E e \in Epoch : BeginResolveGate(g, e) \/ \E t \in now..(now + Skew) : BeginOpenGate(g, e, t)
          \/ ListDueGates(g)
    \/ \E e \in Epoch, open \in SUBSET Gate : UpdateCatalogHostState(e, open)
    \/ \E c \in calls :
          \/ OpenGate(c) \/ CommitGateIntent(c) \/ RestampGateIntent(c) \/ Project(c) \/ FenceWithoutChange(c)
          \/ ResolveGate(c) \/ ClearProjection(c) \/ RetireGateIntent(c) \/ DeleteGateIntent(c)
          \/ \E t \in Reading : JudgeAge(c, t)
          \/ RefuseIfGateIsStillOpen(c) \/ RetireGateDeadlineIntent(c) \/ Stop(c)

GatesSpec == GatesInit /\ [][GatesNext]_vars
-----------------------------------------------------------------------------
(* Properties.                                                             *)

\* "The opposite state, a gate publicly open with no durable record of its
\* deadline, is never produced": an open gate is due, whatever crashed between
\* the two rows, whoever opens it again, and however long ago a sweep judged
\* its intent a remnant.  (The order of both operations, the age window, its
\* restamp, and the revision each write names.)
OpenGateHasDeadline ==
    GatesPart => \A g \in Gate : Open(g) => Found(g) /\ Record(g).filing = "due"

\* A Host whose gate write succeeded on a disposition session shuts out its
\* predecessors, also when it changed no gate.  (fenceWithoutChange.)
SuccessorFencesGates == GatesPart /\ Disposition => told.mark <= Catalog.mark

\* What a crash left between the two rows does not stay due for ever: an intent
\* with no open gate is retired, or its gate opens.  (ListDueGates and
\* RetireGateDeadlineIntent.)
RemnantsAreRetired ==
    \A g \in Gate : Remnant(g) ~> ~Remnant(g)
=============================================================================
