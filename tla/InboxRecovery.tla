--------------------------- MODULE InboxRecovery ---------------------------
(***************************************************************************)
(* scanCommandApplication: the walk of a session's journal that correlates *)
(* one command, over every journal its writers can leave: each grant's     *)
(* records follow its opening fence, grants may open out of their order,   *)
(* and Hosts may break the writer obligations: stack prefixes, put         *)
(* records between a prefix and its effect, misname a command.             *)
(***************************************************************************)
EXTENDS InboxCorrelation

CONSTANTS MaxEpoch,  \* bound: grants of the session's journal
          MaxLog     \* bound: records in the journal

ASSUME RecoveryAssumption == MaxEpoch \in Nat \ {0}

VARIABLES journal,  \* the session's journal, which grows while it is walked
          scan      \* the walk: its command, the tip it captured, what it read

vars == <<journal, scan>>

-----------------------------------------------------------------------------
(* What one record adds to what the walk found.                            *)

\* `pending` is the correlated prefix that awaits the record after it, or 0.
Start ==
    [outcome |-> "absent", prefix |-> 0, epoch |-> 0, effect |-> 0, superseding |-> 0,
     pending |-> 0, prefixBefore |-> FALSE]

Observe(app, outcome, i, effect) ==
    IF Precedence[outcome] < Precedence[app.outcome] THEN app
    ELSE [app EXCEPT !.outcome = outcome, !.prefix = i, !.epoch = journal[i].lease, !.effect = effect]

Resolve(app, seq) ==
    LET i == app.pending
        env == journal[seq]
    IN  IF i = 0 THEN app
        ELSE IF env.kind = "public_event" THEN Observe(app, "committed", i, seq)
        ELSE IF env.kind = "opening_fence" /\ env.lease > journal[i].lease
             THEN Observe(app, "abandoned", i, 0)
        ELSE Observe(app, "unresolved", i, 0)

Meet(app, seq, c) ==
    LET settled == [app EXCEPT !.pending = 0]
    IN  IF ~(IsPrefix(journal[seq]) /\ journal[seq].cmd = c) THEN settled
        ELSE IF ~journal[seq].mapped THEN Observe(settled, "conflicted", seq, 0)
        ELSE IF app.prefixBefore THEN Observe(settled, "unresolved", seq, 0)
        ELSE [app EXCEPT !.pending = seq]

Fenced(app, seq) ==
    IF journal[seq].kind = "opening_fence" /\ journal[seq].lease > app.superseding
    THEN [app EXCEPT !.superseding = journal[seq].lease] ELSE app

Step(app, seq, c) ==
    [Meet(Resolve(Fenced(app, seq), seq), seq, c)
        EXCEPT !.prefixBefore = IsPrefix(journal[seq])]

-----------------------------------------------------------------------------
(* The walk.                                                               *)

Found(s) ==
    [outcome |-> s.app.outcome, prefix |-> s.app.prefix, epoch |-> s.app.epoch,
     effect |-> s.app.effect, superseding |-> s.app.superseding]

Init ==
    /\ journal = << >>
    /\ scan = [phase |-> "idle", cmd |-> NoCommand, tip |-> 0, last |-> 0, app |-> Start]

\* The tip is captured before the cursor is opened, so the cursor may see more.
BeginScan(c) ==
    /\ scan.phase = "idle"
    /\ scan' = [phase |-> IF journal = << >> THEN "done" ELSE "walking",
                cmd |-> c, tip |-> Len(journal), last |-> 0, app |-> Start]
    /\ UNCHANGED journal

\* Mutant: a stream that ended early is a stream that ended.
ReachedEvenIfShort(s) == TRUE
\* Every record through the captured tip was seen.
Reached(s) == s.last >= s.tip

\* A prefix left at the tip has no record after it to say what became of it.
Ended(s) ==
    IF ~Reached(s) THEN [s EXCEPT !.phase = "failed"]
    ELSE [s EXCEPT !.phase = "done",
                   !.app = IF @.pending = 0 THEN @ ELSE Observe(@, "unresolved", @.pending, 0)]

Beyond(seq) == seq > scan.tip

\* The record after the last, or one past the captured tip, from a provider
\* that skips to it.
ReadRecord ==
    /\ scan.phase = "walking"
    /\ \E seq \in DOMAIN journal :
          /\ seq = scan.last + 1 \/ seq > scan.tip
          /\ LET read == [scan EXCEPT !.last = seq, !.app = Step(@, seq, scan.cmd)]
             IN  scan' = IF Beyond(seq) THEN Ended(scan)
                         ELSE IF seq = scan.tip THEN Ended(read) ELSE read
    /\ UNCHANGED journal

\* Drained; a provider that does not keep its promises may say so early.
CursorEnds ==
    /\ scan.phase = "walking"
    /\ scan' = Ended(scan)
    /\ UNCHANGED journal

\* A record that cannot be read or decoded.
ReadFails ==
    /\ scan.phase = "walking"
    /\ scan' = [scan EXCEPT !.phase = "failed"]
    /\ UNCHANGED journal

-----------------------------------------------------------------------------
(* The journal's writers.                                                  *)

Openings == {i \in DOMAIN journal : journal[i].kind = "opening_fence"}
Owner == journal[CHOOSE i \in Openings : \A j \in Openings : j <= i].lease

Commits(record) ==
    /\ Len(journal) < MaxLog
    /\ journal' = Append(journal, record)
    /\ UNCHANGED scan

OpenJournal(e) == (\A i \in Openings : journal[i].lease # e) /\ Commits(OpeningFence(e))

AppendPrefix(c, mapped) == Openings # {} /\ Commits(ApplicationPrefix(Owner, c, mapped))

AppendOther(kind) == Openings # {} /\ Commits(Unowned(kind))

Next ==
    \/ \E c \in Command : BeginScan(c)
    \/ ReadRecord \/ CursorEnds \/ ReadFails
    \/ \E e \in 1..MaxEpoch : OpenJournal(e)
    \/ \E c \in Command, mapped \in BOOLEAN : AppendPrefix(c, mapped)
    \/ \E kind \in {"public_event", "control"} : AppendOther(kind)

Spec == Init /\ [][Next]_vars
-----------------------------------------------------------------------------
\* One pass with two records of memory finds what the journal it captured says
\* of the command, whatever the writers did, whatever they append meanwhile and
\* wherever the cursor ends.  (scanCommandApplication.)
WalkReadsItsSnapshot ==
    scan.phase = "done" =>
        Found(scan) = CommandApplication(SubSeq(journal, 1, scan.tip), scan.cmd)

\* A grant that is fenced stays fenced, a broken mapping stays found, and an
\* effect once found is hidden by a broken mapping alone: what a settlement
\* rests on is not undone by later records.  (CommandApplication.CapturedTip.)
FindingsHold ==
    [][\A c \in Command :
          LET before == CommandApplication(journal, c)
              after == CommandApplication(journal, c)'
          IN  /\ before.superseding <= after.superseding
              /\ before.outcome = "conflicted" => after.outcome = "conflicted"
              /\ before.outcome = "committed" => after.outcome \in {"committed", "conflicted"}
              /\ before.outcome # "absent" => after.outcome # "absent"]_journal
=============================================================================
