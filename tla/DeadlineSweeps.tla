--------------------------- MODULE DeadlineSweeps ---------------------------
(***************************************************************************)
(* The rows a sweep finds by their due time: what Hosts advertise, and the *)
(* deadlines of gates.  The two do not interact, so a behaviour has the    *)
(* rows of one, chosen at its start.  For both the sweep is the only thing *)
(* that must happen.                                                       *)
(***************************************************************************)
EXTENDS HostTargets, Gates

Init ==
    \/ TargetsInit
    \/ GatesInit /\ sweep = NoCursor({})

Next ==
    \/ TargetsPart /\ TargetsNext
    \/ GatesPart /\ GatesNext /\ UNCHANGED sweep

Spec == Init /\ [][Next]_targetVars

\* The page of a sweep, the rows on it that it may act on, and what it writes.
Lists ==
    \/ TargetsPart /\ ListDue
    \/ GatesPart /\ (\E g \in Gate : ListDueGates(g)) /\ UNCHANGED sweep
Judges ==
    \/ TargetsPart /\ \E e \in sweep.page : ReconcileHostTargetRow(e)
    \/ GatesPart /\ (\E c \in calls, t \in Reading : JudgeAge(c, t)) /\ UNCHANGED sweep
Retires ==
    \/ TargetsPart /\ \E w \in calls : Withdraws(w)
    \/ GatesPart /\ (\E c \in calls : RetireGateDeadlineIntent(c)) /\ UNCHANGED sweep

\* The clock runs, a call returns one way or another, and a replica keeps
\* sweeping; the provider fails neither its listings, its reads nor its writes
\* for ever.  Nothing is assumed of Hosts.
Fairness ==
    /\ WF_targetVars(Tick /\ UNCHANGED sweep)
    /\ WF_targetVars(TargetsPart /\ \E w \in calls : HostCommit(w) \/ HostLose(w))
    /\ WF_targetVars(TargetsPart /\ \E t \in SweepClock : ReconcileHostTargets(t))
    /\ WF_targetVars(TargetsPart /\ \E w \in calls : Contended(w))
    /\ WF_targetVars(TargetsPart /\ EndOfPage)
    /\ WF_targetVars(GatesPart /\ (\E c \in calls : RefuseIfGateIsStillOpen(c)) /\ UNCHANGED sweep)
    /\ SF_targetVars(Lists)
    /\ SF_targetVars(Judges)
    /\ SF_targetVars(Retires)
FairSpec == Spec /\ Fairness

\* Every row, every call, what callers were told and the sweep's cursor are
\* what the code can store and say.
TypeOK ==
    \/ TargetsPart /\ TargetsTypeOK
    \/ GatesPart /\ GatesTypeOK
=============================================================================
