--------------------------- MODULE JournalReader ---------------------------
(***************************************************************************)
(* Pages of a session's journal.  The first page captures the tip, and its *)
(* cursor pins every later one to it, while the journal grows.  A page     *)
(* ends at a number of records, of bytes or of examined records, each page *)
(* its own, or at that tip; a stream that ends anywhere else is refused.   *)
(*                                                                         *)
(* The journal is InboxRecovery's.  A behaviour has either walks of that   *)
(* module or pages, as neither sees the other; a page does not tell what   *)
(* is withheld apart.                                                      *)
(***************************************************************************)
EXTENDS InboxRecovery, Enumeration

CONSTANTS MaxLimit,   \* bound: the records of a page, and the examined ones
          ByteBudget  \* a store's budgets for a page, in bytes of a control record

ASSUME ReaderAssumption == MaxLimit \in Nat \ {0} /\ ByteBudget \subseteq Nat

VARIABLE pages  \* a caller's read: its projection, where it began, what it has

readerVars == <<journal, scan, pages>>

ReaderInit ==
    /\ Init
    /\ \E phase \in {"unused", "idle"} :
          pages = [phase |-> phase, kind |-> "public", budget |-> 0,
                   start |-> 0, next |-> 0, tip |-> 0, got |-> << >>]

-----------------------------------------------------------------------------
\* A public page withholds the records of the runtime.
Selects(kind, seq) == kind = "runtime" \/ journal[seq].kind = "public_event"
Selected(kind, first, last) == Enumerate({seq \in first..last : Selects(kind, seq)})

\* The body of a public event counts twice.
Bytes(s) == Len(s) + Cardinality({i \in DOMAIN s : journal[s[i]].kind = "public_event"})

WithinBytes(s) == Len(s) <= 1 \/ Bytes(s) <= pages.budget

\* scanLimit zero examines without limit.
Fits(kind, first, last, limit, scanLimit) ==
    LET s == Selected(kind, first, last)
    IN  /\ Len(s) <= limit /\ WithinBytes(s)
        /\ scanLimit = 0 \/ last - first < scanLimit

\* The last record before one that does not fit.
Stop(kind, first, tip, limit, scanLimit) ==
    CHOOSE n \in (first - 1)..tip :
        /\ n >= first => Fits(kind, first, n, limit, scanLimit)
        /\ n < tip => ~Fits(kind, first, n + 1, limit, scanLimit)

\* Mutant: a drained stream is a finished page.
EndsWhereItSaysAnywhere(covered, tip, truncated) == TRUE
\* A page that has not reached its tip must have stopped on purpose.
EndsWhereItSays(covered, tip, truncated) == covered >= tip \/ truncated

ResumesAt(read, covered) == covered + 1

\* A cursor is past no tip but the one it captured, which the journal has.
Resumes(next, tip) == next >= 1 /\ next <= tip + 1 /\ tip <= Len(journal)

-----------------------------------------------------------------------------
\* A new read begins at a sequence, or within the last `limit` of them.
PlanJournalRead(kind, budget, first) ==
    /\ pages.phase = "idle"
    /\ pages' = [pages EXCEPT !.phase = IF first > Len(journal) THEN "done" ELSE "paging",
                              !.kind = kind, !.budget = budget, !.start = first, !.next = first, !.tip = Len(journal)]
    /\ UNCHANGED vars

\* The provider hands out records as far as `end`, of a journal that may be
\* longer than the captured tip by now.
WalkJournal(limit, scanLimit, end) ==
    LET stop == Stop(pages.kind, pages.next, pages.tip, limit, scanLimit)
        covered == IF end < stop THEN end ELSE stop
        truncated == covered = stop /\ stop < pages.tip /\ (end > stop \/ stop + 1 - pages.next = scanLimit)
    IN  /\ pages.phase = "paging"
        /\ pages.kind = "runtime" => scanLimit = 0
        /\ Resumes(pages.next, pages.tip)
        /\ EndsWhereItSays(covered, pages.tip, truncated)
        /\ pages' = [pages EXCEPT !.phase = IF truncated THEN "paging" ELSE "done",
                                  !.next = ResumesAt(pages, covered),
                                  !.got = @ \o Selected(pages.kind, pages.next, covered)]
        /\ UNCHANGED vars

ReaderNext ==
    \/ pages.phase = "unused" /\ Next /\ UNCHANGED pages
    \/ pages.phase # "unused" /\ UNCHANGED pages
       /\ (OpenJournal(1) \/ \E kind \in {"public_event", "control"} : AppendOther(kind))
    \/ \E kind \in {"public", "runtime"}, budget \in ByteBudget, first \in 1..(Len(journal) + 1) :
          PlanJournalRead(kind, budget, first)
    \/ \E limit \in 1..MaxLimit, scanLimit \in 0..MaxLimit, end \in (pages.next - 1)..Len(journal) :
          WalkJournal(limit, scanLimit, end)

-----------------------------------------------------------------------------
\* The pages of a read are consecutive: together they hold every selected
\* record from the start through what is covered, in order and once, and the
\* last reaches the tip that the first captured, whatever limits each page has,
\* while the journal grows and streams end early; and no limits stop a page
\* before its first record.  (planJournalRead, walkJournal.)
PagesTile ==
    [][pages.phase = "paging" =>
          /\ \A limit \in 1..MaxLimit, scanLimit \in 0..MaxLimit :
                Fits(pages.kind, pages.next, pages.next, limit, scanLimit)
          /\ pages.next <= pages'.next
          /\ pages'.got = Selected(pages.kind, pages.start, pages'.next - 1)
          /\ pages'.phase = "done" => pages'.next = pages.tip + 1]_readerVars
=============================================================================
