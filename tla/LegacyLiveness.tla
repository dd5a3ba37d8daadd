--------------------------- MODULE LegacyLiveness ---------------------------
(***************************************************************************)
(* What it takes for every legacy command to be settled: a clock that      *)
(* advances, a reconciler that keeps sweeping the due view, a session that *)
(* is attached once more, and a provider that does not fail one caller for *)
(* ever.  Hosts that apply commands may stop after any step.               *)
(***************************************************************************)
EXTENDS LegacyEffects

\* The due view of every shard: what nobody settled by its deadline.
ListDueCommands == {c \in Command : Stored(c) /\ DueBy(Record(c), now)}

RejectDue(c) ==
    /\ c \in ListDueCommands
    /\ RejectAt(0, c, now)

\* What a Host that attached the session after the others does with a command
\* one of them was applying.
Recovers(e, c) ==
    /\ Record(c).state = "applying"
    /\ \/ RejectAt(e, c, now)
       \/ \E result \in DOMAIN journal : CompleteCommand(e, c, result)

SettlementLands(c) ==
    \E w \in calls : w.cmd = c /\ Terminal(w.rec.state) /\ Commit(w)

SomeCallReturns == \E w \in calls : Commit(w) \/ CommitFailed(w)

Fairness ==
    /\ WF_vars(Tick)
    /\ WF_vars(SomeCallReturns)
    /\ \A e \in Epoch \ Applier : WF_vars(OpenJournal(e))
    /\ \A c \in Command :
          /\ SF_vars(RejectDue(c))
          /\ SF_vars(SettlementLands(c))
          /\ \A e \in Epoch \ Applier : SF_vars(Recovers(e, c))

FairSpec == Spec /\ Fairness

\* Every accepted command is settled, whatever its Hosts did: one nobody works
\* on by its deadline and the claim's lapse, one that was being applied by the
\* session's next attachment, whose fence makes the journal conclusive.
\* (RejectCommand's three authorities; inbox_recovery.go's "it is now settled by
\* the next lease holder".)
EveryCommandIsSettled ==
    \A c \in Command : Stored(c) ~> Terminal(Record(c).state)
=============================================================================
