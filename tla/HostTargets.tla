---------------------------- MODULE HostTargets ----------------------------
(***************************************************************************)
(* Hosts advertise themselves, each in a row of its own, under the          *)
(* generation of their process, until an instant they choose.  A Host that *)
(* stops withdraws its advertisement; for one that vanished, a sweep pages *)
(* over the rows in the order they lapse.  A pass may end early, or fail,  *)
(* and be resumed by a cursor that keeps the bound it began with.           *)
(***************************************************************************)
EXTENDS OrderedIndex

CONSTANTS Host,           \* host identities, numbered in key order
          MaxGeneration,  \* bound: the processes that bear one identity
          MaxTTL,         \* how far ahead of a clock an advertisement may lapse
          Limit,          \* rows of a page
          MaxPages,       \* pages of a pass
          MaxAdverts      \* bound: the revisions of a row its Hosts write

ASSUME HostTargetAssumption ==
    /\ Host \subseteq Nat
    /\ {MaxGeneration, MaxTTL, MaxAdverts} \subseteq Nat /\ {Limit, MaxPages} \subseteq Nat \ {0}

VARIABLE sweep  \* the pass in progress, or the cursor the last one left

targetVars == <<rows, calls, now, told, sweep>>

Generation == 1..MaxGeneration
\* A withdrawal keeps the generation and is no longer due.
HostTarget == [mark : Generation, live : BOOLEAN, expires : Nat]

\* A place in the due order: an instant, and a host among those that share it.
Position == Nat \X Nat
Beginning == <<0, 0>>
Behind(p, q) == p[1] < q[1] \/ (p[1] = q[1] /\ p[2] < q[2])

\* A pass stops with its cursor; with none, the next pass is a new one.  A
\* write it gave up on may still be on its way.
SweepIdle(bound, after, writing) ==
    [phase |-> "idle", bound |-> bound, after |-> after, clock |-> 0, pages |-> 0,
     page |-> {}, more |-> FALSE, writing |-> writing]
NoCursor(writing) == SweepIdle(0, Beginning, writing)

TargetsPart == told.part = "targets"

\* A Host learns nothing here that it could not read: told says no more.
TargetsTypeOK ==
    /\ IndexTypeOK
    /\ \A h \in Host : Found(h) => Record(h) \in HostTarget
    /\ sweep.phase \in {"idle", "list", "rows", "write"}
    /\ sweep.after \in Position
    /\ Cardinality(sweep.page) <= Limit /\ sweep.pages < MaxPages
    /\ sweep.phase = "write" => sweep.writing # {}
    /\ sweep.writing \subseteq calls

TargetsInit ==
    /\ rows = [h \in Host |-> Absent]
    /\ calls = {}
    /\ now = 0
    /\ told = [part |-> "targets"]
    /\ sweep = NoCursor({})

-----------------------------------------------------------------------------
(* What is due.                                                            *)

\* Mutant: the due time is rounded up.
DueRoundedUp(r) == r.expires + 1
Due(r) == r.expires

Lapsed(r, t) == r.live /\ r.expires <= t

PositionOf(h) == <<Due(Record(h)), h>>
DueAfter(bound, after) ==
    {h \in Host : Found(h) /\ Record(h).live /\ Due(Record(h)) <= bound /\ Behind(after, PositionOf(h))}
FirstOf(hosts) == {h \in hosts : Cardinality({g \in hosts : Behind(PositionOf(g), PositionOf(h))}) < Limit}
LastOf(hosts) == CHOOSE p \in {PositionOf(h) : h \in hosts} : \A h \in hosts : ~Behind(p, PositionOf(h))

-----------------------------------------------------------------------------
(* Hosts.                                                                  *)

HostGenerationFence(h, g) == Record(h).mark <= g

\* Hosts leave the sweep a revision and a call.
HostOffer(h, rec) == rows[h].rev < MaxAdverts /\ Cardinality(calls) + 1 < MaxCalls /\ Offer(h, rec)

PublishHostTarget(h, g, t, x) ==
    /\ t < x /\ x <= t + MaxTTL
    /\ Found(h) => HostGenerationFence(h, g)
    /\ HostOffer(h, [mark |-> g, live |-> TRUE, expires |-> x])
    /\ UNCHANGED <<told, sweep>>

\* A repeat finds its generation withdrawn and writes nothing.
DrainHostTarget(h, g) ==
    /\ Found(h) /\ HostGenerationFence(h, g)
    /\ ~(~Record(h).live /\ Record(h).mark = g)
    /\ HostOffer(h, [mark |-> g, live |-> FALSE, expires |-> 0])
    /\ UNCHANGED <<told, sweep>>

HostCommit(w) == w \notin sweep.writing /\ Land(w) /\ UNCHANGED <<told, sweep>>
HostLose(w) == w \notin sweep.writing /\ Lose(w) /\ UNCHANGED sweep

-----------------------------------------------------------------------------
(* The sweep.                                                              *)

\* The clock is read when the pass begins; its replica may then stall.
SweepClock == {t \in Reading : now <= t + Skew}

\* A pass without a cursor is bounded by its clock; a resumed one by its cursor.
ReconcileHostTargets(t) ==
    /\ sweep.phase = "idle"
    /\ sweep' = [sweep EXCEPT !.phase = "list", !.clock = t,
                              !.bound = IF sweep.after = Beginning THEN t ELSE @]
    /\ UNCHANGED vars

ListDue ==
    /\ sweep.phase = "list"
    /\ LET due == DueAfter(sweep.bound, sweep.after)
           page == FirstOf(due)
       IN  sweep' = [sweep EXCEPT !.phase = "rows",
                        !.page = {[id |-> h, rev |-> rows[h].rev, rec |-> Record(h)] : h \in page},
                        !.more = due # page,
                        !.after = IF due # page THEN LastOf(page) ELSE @]
    /\ UNCHANGED vars

\* The first page's failure leaves no cursor.
ListDueFails ==
    /\ sweep.phase = "list"
    /\ sweep' = IF sweep.after = Beginning THEN NoCursor(sweep.writing)
              ELSE SweepIdle(sweep.bound, sweep.after, sweep.writing)
    /\ UNCHANGED vars

\* The row is judged as it was listed, by the clock of the pass.
ReconcileHostTargetRow(e) ==
    LET withdrawal == [e.rec EXCEPT !.live = FALSE, !.expires = 0]
    IN  /\ sweep.phase = "rows"
        /\ IF Lapsed(e.rec, sweep.clock)
           THEN /\ sweep.writing = {}
                /\ OfferAt(e.id, e.rev, withdrawal)
                /\ sweep' = [sweep EXCEPT !.phase = "write", !.page = @ \ {e},
                                 !.writing = {[id |-> e.id, rev |-> e.rev, rec |-> withdrawal]}]
                /\ UNCHANGED told
           ELSE sweep' = [sweep EXCEPT !.page = @ \ {e}] /\ UNCHANGED vars

Written == [sweep EXCEPT !.phase = IF @ = "write" THEN "rows" ELSE @, !.writing = {}]

Withdraws(w) ==
    /\ w \in sweep.writing
    /\ Land(w)
    /\ sweep' = Written
    /\ UNCHANGED told

Contended(w) ==
    /\ w \in sweep.writing
    /\ ~Current(w)
    /\ Lose(w)
    /\ sweep' = Written

\* An answer that cannot be verified is stepped over as well; if the write had
\* landed, this is Withdraws.
Unverified(w) ==
    /\ w \in sweep.writing
    /\ sweep.phase = "write"
    /\ Lose(w)
    /\ sweep' = Written

\* On any other failure of a write the pass ends, without a cursor; the write
\* may yet land.
WithdrawalFails ==
    /\ sweep.phase = "write"
    /\ sweep' = NoCursor(sweep.writing)
    /\ UNCHANGED vars

\* The pass is exhausted, goes on to its next page, or has had its pages.
EndOfPage ==
    /\ sweep.phase = "rows" /\ sweep.page = {}
    /\ sweep' = IF ~sweep.more THEN NoCursor(sweep.writing)
                ELSE IF sweep.pages + 1 < MaxPages
                THEN [sweep EXCEPT !.phase = "list", !.pages = @ + 1]
                ELSE SweepIdle(sweep.bound, sweep.after, sweep.writing)
    /\ UNCHANGED vars

TargetsNext ==
    \/ Tick /\ UNCHANGED sweep
    \/ \E h \in Host, g \in Generation :
          \/ \E t \in Reading : \E x \in 1..(t + MaxTTL) : PublishHostTarget(h, g, t, x)
          \/ DrainHostTarget(h, g)
    \/ \E w \in calls : HostCommit(w) \/ HostLose(w) \/ Withdraws(w) \/ Contended(w) \/ Unverified(w)
    \/ \E t \in SweepClock : ReconcileHostTargets(t)
    \/ ListDue \/ ListDueFails
    \/ \E e \in sweep.page : ReconcileHostTargetRow(e)
    \/ WithdrawalFails \/ EndOfPage
-----------------------------------------------------------------------------

\* The sweep takes away no advertisement that has not lapsed by some clock,
\* though its listing and its clock are old and the Host refreshes meanwhile;
\* and no step lowers a row's generation, also not once it was withdrawn.
\* (hostGenerationFence, hostTargetLiveness, and the listed revision that each
\* withdrawal names.)
AdvertisementStands ==
    [][TargetsPart => \A h \in Host : Found(h) =>
          /\ rows[h].rec.mark <= rows'[h].rec.mark
          /\ rows'[h] # rows[h] /\ sweep.writing' # sweep.writing => rows[h].rec.expires <= now + Skew]_targetVars

LapsedByEveryClock(h) == TargetsPart /\ Found(h) /\ Record(h).live /\ Record(h).expires + Skew <= now

\* An advertisement that lapsed by every clock and that its Host does not
\* refresh is withdrawn, though passes end early, fail, and resume behind
\* bounds of their own.  (ReconcileHostTargets.)
LapsedIsWithdrawn ==
    \A h \in Host : LapsedByEveryClock(h) ~> ~LapsedByEveryClock(h)
=============================================================================
