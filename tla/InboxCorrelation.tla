-------------------------- MODULE InboxCorrelation --------------------------
(***************************************************************************)
(* What a session's journal says of the application of one legacy command. *)
(* A Host appends an application prefix that names the command, and its     *)
(* effect immediately after; so the record that follows a prefix is the    *)
(* whole question.  The readings of all prefixes are ranked, the least     *)
(* settleable first, except that a durable effect is a fact.               *)
(*                                                                         *)
(* This is the meaning of a correlation.  InboxRecovery has the walk that   *)
(* computes it, one record at a time, and checks that they agree.          *)
(***************************************************************************)
EXTENDS Integers, Sequences, FiniteSets

CONSTANTS Command,    \* the session's legacy commands
          NoCommand   \* a record that names none

ASSUME NoCommandAssumption == NoCommand \notin Command

EnvelopeKind == {"opening_fence", "application_prefix", "public_event", "control"}

OpeningFence(e) == [kind |-> "opening_fence", lease |-> e, cmd |-> NoCommand, mapped |-> FALSE]
\* `mapped`: it names the runtime id and the kind the inbox stored for `cmd`.
ApplicationPrefix(e, c, mapped) ==
    [kind |-> "application_prefix", lease |-> e, cmd |-> c, mapped |-> mapped]
Unowned(kind) == [kind |-> kind, lease |-> 0, cmd |-> NoCommand, mapped |-> FALSE]

Outcome == {"absent", "abandoned", "unresolved", "committed", "conflicted"}

\* Mutant: an attempt that cannot be read hides the effect of another one.
PrecedenceOfTheUnreadable ==
    [absent |-> 0, abandoned |-> 1, committed |-> 2, unresolved |-> 3, conflicted |-> 4]
Precedence ==
    [absent |-> 0, abandoned |-> 1, unresolved |-> 2, committed |-> 3, conflicted |-> 4]


-----------------------------------------------------------------------------
IsPrefix(record) == record.kind = "application_prefix"
Naming(journal, c) == {i \in DOMAIN journal : IsPrefix(journal[i]) /\ journal[i].cmd = c}

\* Stacked behind another prefix, whoever's: what follows may be that one's.
Stacked(journal, i) == i > 1 /\ IsPrefix(journal[i - 1])
FollowedBy(journal, i, kind) == i < Len(journal) /\ journal[i + 1].kind = kind

FencedOff(journal, i) ==
    FollowedBy(journal, i, "opening_fence") /\ journal[i + 1].lease > journal[i].lease

\* What the records around one prefix of the command say of it.
Finding(journal, i) ==
    CASE ~journal[i].mapped -> "conflicted"
      [] journal[i].mapped /\ Stacked(journal, i) -> "unresolved"
      [] OTHER -> IF FollowedBy(journal, i, "public_event") THEN "committed"
                  ELSE IF FencedOff(journal, i) THEN "abandoned" ELSE "unresolved"

\* The prefix the outcome is about: the latest of the highest precedence.
Deciding(journal, c) ==
    {i \in Naming(journal, c) :
        \A j \in Naming(journal, c) \ {i} :
            \/ Precedence[Finding(journal, j)] < Precedence[Finding(journal, i)]
            \/ Finding(journal, j) = Finding(journal, i) /\ j < i}

\* The highest opening-fence epoch: a writer below it is taken to be fenced.
SupersedingEpoch(journal) ==
    LET leases == {journal[i].lease : i \in {k \in DOMAIN journal : journal[k].kind = "opening_fence"}}
    IN  CHOOSE e \in leases \cup {0} : \A f \in leases : f <= e

CommandApplication(journal, c) ==
    IF Naming(journal, c) = {}
    THEN [outcome |-> "absent", prefix |-> 0, epoch |-> 0, effect |-> 0,
          superseding |-> SupersedingEpoch(journal)]
    ELSE LET i == CHOOSE i \in Deciding(journal, c) : TRUE
             finding == Finding(journal, i)
         IN  [outcome |-> finding, prefix |-> i, epoch |-> journal[i].lease,
              effect |-> IF finding = "committed" THEN i + 1 ELSE 0,
              superseding |-> SupersedingEpoch(journal)]

-----------------------------------------------------------------------------
(* What a settlement is held to.                                           *)

\* Mutant: whatever shows no event is taken for no effect.
ProvesNoEffectUnlessCommitted(app) == app.outcome # "committed"
\* Mutant: an abandoned application is not evidence.
ProvesAbsenceOnly(app) == app.outcome = "absent"
ProvesNoEffect(app) == app.outcome \in {"absent", "abandoned"}
Fences(app, epoch) == app.superseding > epoch
\* Mutant: any event will do once some effect was found.
NamesAnyEvent(app, result) == app.outcome = "committed"
NamesEffect(app, result) == app.outcome = "committed" /\ result = app.effect
=============================================================================
