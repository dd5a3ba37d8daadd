----------------------------- MODULE FencedRow -----------------------------
(***************************************************************************)
(* The rows of a session that a Host writes under a number that only       *)
(* rises: its registration, a pointer to a checkpoint, and the cursor of   *)
(* the commands it has consumed.  A behaviour has one such row.  Nothing   *)
(* tells a Host that it was superseded: a write under an older mark must   *)
(* be refused even after a clear, which leaves a tombstone carrying it.    *)
(***************************************************************************)
EXTENDS OrderedIndex

CONSTANTS MaxMark,   \* bound: the lease epochs
          MaxOrder   \* bound: the journal sequences and acceptance orders

ASSUME FencedAssumption == MaxMark \in Nat /\ MaxOrder \in Nat

FencedKind == {"registration", "pointer", "cursor"}
FencedPart == DOMAIN rows \subseteq FencedKind /\ DOMAIN told = {"mark", "order"}
Mark == 1..MaxMark
Order == 0..MaxOrder

\* A registration has no order.  Its expiry is no writer's concern.  What is not
\* live is a tombstone; a cursor is never cleared.
HostRegistration == [mark : Mark, order : {0}, live : BOOLEAN]
SessionPointer == [mark : Mark, order : Order, live : BOOLEAN]
DispositionCommandCursor == [mark : Mark, order : Order \ {0}, live : {TRUE}]
FencedRecord == [registration |-> HostRegistration, pointer |-> SessionPointer,
                 cursor |-> DispositionCommandCursor]

FencedTypeOK ==
    /\ IndexTypeOK
    /\ \A i \in DOMAIN rows : Found(i) => Record(i) \in FencedRecord[i]
    /\ \A w \in calls : w.rec \in FencedRecord[w.id]
    /\ told \in [mark : 0..MaxMark, order : Order]

FencedInit ==
    /\ rows \in {[i \in {kind} |-> Absent] : kind \in FencedKind}
    /\ calls = {}
    /\ now = 0
    /\ told = [mark |-> 0, order |-> 0]

Highest(a, b) == IF a < b THEN b ELSE a
\* A caller that succeeded knows that its mark and order are in the row.
Tell(mark, order) ==
    told' = [told EXCEPT !.mark = Highest(@, mark), !.order = Highest(@, order)]

-----------------------------------------------------------------------------
(* The fences.                                                             *)

\* Mutant: only a live row fences.
EpochFenceOfLive(i, mark) == Record(i).live => Record(i).mark <= mark
EpochFence(i, mark) == Record(i).mark <= mark
SequenceFence(i, order) == Record(i).order <= order

-----------------------------------------------------------------------------
(* The rows.                                                               *)

Has(i) == i \in DOMAIN rows
\* A row that is not there admits every mark.
Write(i, rec) == Offer(i, rec) /\ UNCHANGED told
\* A reader is shown a live row.
Show(i) ==
    /\ Has(i) /\ Found(i) /\ Record(i).live
    /\ Tell(Record(i).mark, Record(i).order)
    /\ UNCHANGED <<rows, calls, now>>

PutHostRegistration(mark) ==
    /\ Has("registration")
    /\ Found("registration") => EpochFence("registration", mark)
    /\ Write("registration", [mark |-> mark, order |-> 0, live |-> TRUE])

\* Of a live registration the reader's clock may still refuse the route.
GetHostRegistration == Show("registration")

AlreadyCleared(i, mark) == ~Record(i).live /\ Record(i).mark = mark
\* A repeated clear writes nothing; another tombstone keeps the order.
Clear(i, mark) ==
    /\ Has(i) /\ Found(i) /\ EpochFence(i, mark)
    /\ IF AlreadyCleared(i, mark)
       THEN Tell(mark, Record(i).order) /\ UNCHANGED <<rows, calls, now>>
       ELSE Write(i, [mark |-> mark, order |-> Record(i).order, live |-> FALSE])

ClearHostRegistration(mark) == Clear("registration", mark)

SetSessionPointer(mark, order) ==
    /\ Has("pointer")
    /\ Found("pointer") => EpochFence("pointer", mark) /\ SequenceFence("pointer", order)
    /\ Write("pointer", [mark |-> mark, order |-> order, live |-> TRUE])

GetSessionPointer == Show("pointer")

ClearSessionPointer(mark) == Clear("pointer", mark)

OrderFence(order) == Record("cursor").order <= order

\* The head of the stream is no position.
SaveDispositionCommandCursor(mark, order) ==
    /\ Has("cursor") /\ order # 0
    /\ Found("cursor") => EpochFence("cursor", mark) /\ OrderFence(order)
    /\ Write("cursor", [mark |-> mark, order |-> order, live |-> TRUE])

LoadDispositionCommandCursor == Show("cursor")

\* The caller whose write landed may not learn of it.
Commit(w) ==
    /\ Land(w)
    /\ Tell(w.rec.mark, w.rec.order) \/ UNCHANGED told

FencedNext ==
    \/ \E mark \in Mark :
          \/ PutHostRegistration(mark) \/ ClearHostRegistration(mark) \/ ClearSessionPointer(mark)
          \/ \E order \in Order : SetSessionPointer(mark, order) \/ SaveDispositionCommandCursor(mark, order)
    \/ GetHostRegistration \/ GetSessionPointer \/ LoadDispositionCommandCursor
    \/ \E w \in calls : Commit(w) \/ Lose(w)

-----------------------------------------------------------------------------
(* Safety.                                                                 *)

\* What a Host was told it had published, consumed or cleared, and what a
\* reader was shown, stays so until one at least as new writes again: no
\* delayed, repeated or superseded call brings back an older mark, an older
\* checkpoint or a smaller order, across clears too.  (epochFence,
\* pointerSequenceFence, dispositionCursorOrderFence and the repeat rule of both
\* clears.)
ToldStands ==
    FencedPart /\ told.mark # 0 =>
        \A i \in DOMAIN rows : Found(i) /\ told.mark <= Record(i).mark /\ told.order <= Record(i).order
=============================================================================
