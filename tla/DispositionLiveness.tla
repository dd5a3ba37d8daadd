------------------------ MODULE DispositionLiveness ------------------------
(***************************************************************************)
(* What must eventually happen to a command, and what it takes: a clock    *)
(* that advances, a reconciler that keeps sweeping what the due index      *)
(* files, a provider that does not fail one caller for ever, and for an    *)
(* attempt a runtime that opens a successor journal grant and closes what  *)
(* it finds unanswered.  Nothing is assumed of Hosts: they may stop after  *)
(* any step, and their calls may stall, land late or be lost.              *)
(***************************************************************************)
EXTENDS DispositionLedger

\* The reconciler works from the due index, with a clock read when it looks.
RejectDue(c) ==
    /\ DueBy(Record(c), now)
    /\ RejectAt(c, 0, now)

\* A write that settles a command reaches the provider.
SettlementLands(c) ==
    \E w \in calls : /\ w.cmd = c /\ Terminal(w.rec.state)
                     /\ CommitAcknowledged(w) \/ CommitUnacknowledged(w)

\* A call returns, one way or another.
SomeCallReturns ==
    \E w \in calls : CommitAcknowledged(w) \/ CommitUnacknowledged(w) \/ CommitFailed(w)

\* A successor closes an attempt nobody answered, under its own grant.
RuntimeCloses(c) == RuntimeAnswers(c, "not_applied", writer)

Fairness ==
    /\ WF_vars(Tick)
    /\ WF_vars(SomeCallReturns)
    /\ WF_vars(OpenRuntimeJournal)
    /\ \A c \in Command :
          /\ SF_vars(RejectDue(c))
          /\ SF_vars(SettlementLands(c))
          /\ WF_vars(RuntimeCloses(c))
          /\ SF_vars(SettleDispositionCommand(c))

FairSpec == Spec /\ Fairness

\* Past its deadline a command nobody dispatched is settled, however its claims
\* were contended for: a claim lapses, and a lapsed claim stops no reconciler.
\* (dispositionInboxDue, RejectDispositionCommand with residency zero.)
UnattemptedCommandCloses ==
    \A c \in Command :
        Record(c).state \in {"pending", "claimed"} /\ Stored(c)
            ~> (Record(c).attempt # NoAttempt \/ Terminal(Record(c).state))

\* An attempt whose Host vanished is closed by a successor's evidence: no
\* timer does it and none is needed.  (SettleDispositionCommand.)
AttemptCloses ==
    \A c \in Command : Record(c).state = "applying" ~> Terminal(Record(c).state)
=============================================================================
