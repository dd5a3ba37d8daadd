---------------------------- MODULE LegacyInbox ----------------------------
(***************************************************************************)
(* The legacy inbox: one ordered record per command, moved through         *)
(*                                                                         *)
(*   pending -> claimed -> applying -> applied | rejected                  *)
(*   pending | claimed -> rejected                                         *)
(*                                                                         *)
(* by Hosts, each under the journal grant it opened, and by reconcilers    *)
(* that hold none.  Completing for another grant, and every rejection,     *)
(* first read the session's journal for the command's effect.  As in the   *)
(* disposition inbox an operation is two steps: it decides on a record, a   *)
(* clock read earlier and a journal it has just walked; its compare-and-   *)
(* swap lands later, or not at all.  A refusal changes nothing.            *)
(*                                                                         *)
(* The journal is the one JournalWriter is proved to keep: a grant opens   *)
(* with a fence and appends until another grant's fence.  Hosts are not    *)
(* this repository's.  They keep the obligations inbox_recovery.go states: *)
(* an effect follows its prefix, one application at a time, no application *)
(* of a command that a grant has not itself begun.                          *)
(***************************************************************************)
EXTENDS InboxCorrelation

CONSTANTS MaxEpoch,      \* bound: grants of the session's journal
          MaxLog,        \* bound: the journal's length that stops its appliers
          MaxTime,       \* bound: the clock
          MaxCalls,      \* bound: operations in flight at once
          MaxClaimTTL,   \* how far ahead of a clock a claim may lapse
          Skew,          \* how far a replica's clock may run ahead
          Deadline,      \* the apply deadlines a command may be admitted with
          Applier,       \* the grants that apply commands; the others recover
          LateOpeners    \* may a grant open after its successor did?

ASSUME LegacyBoundsAssumption ==
    /\ MaxEpoch \in Nat /\ MaxLog \in Nat /\ MaxTime \in Nat /\ MaxCalls \in Nat
    /\ MaxClaimTTL \in Nat /\ Skew \in Nat /\ Deadline \subseteq Nat
    /\ Applier \subseteq 1..MaxEpoch /\ LateOpeners \in BOOLEAN

Epoch == 1..MaxEpoch

VARIABLES inbox,    \* the ordered index: command -> revision and record
          calls,    \* the writes that operations in flight have prepared
          now,      \* the clock
          journal,  \* the session's journal: a record's bytes, its writer, its cause
          begun     \* <<grant, command>> whose Host may still append the prefix

vars == <<inbox, calls, now, journal, begun>>

-----------------------------------------------------------------------------
(* Records.                                                                *)

InboxState == {"pending", "claimed", "applying", "applied", "rejected"}
Terminal(state) == state \in {"applied", "rejected"}

CommandClaim == [lease : Nat, expires : Nat]
NoClaim == [lease |-> 0, expires |-> 0]

\* `result` is the sequence of the event a command was applied by, or 0; a
\* rejection's reason is carried by the state alone.
InboxRecord == [state : InboxState, deadline : Nat, claim : CommandClaim, result : Nat]
PendingRecord(deadline) ==
    [state |-> "pending", deadline |-> deadline, claim |-> NoClaim, result |-> 0]

Claimed(r) == r.claim # NoClaim

\* validateInboxState: what each state must and must not carry.
WellFormed(r) ==
    /\ r.state = "pending" => ~Claimed(r)
    /\ r.state \in {"claimed", "applying", "applied"} => Claimed(r)
    /\ r.state = "applied" <=> r.result # 0

ClaimLive(r, t) == Claimed(r) /\ t < r.claim.expires
Superseded(r, e) == e < r.claim.lease

\* Due at the deadline, or when the claim lapses if that is earlier.
DueBy(r, t) ==
    /\ ~Terminal(r.state)
    /\ \/ r.deadline <= t
       \/ Claimed(r) /\ r.claim.expires <= t

Absent == [rev |-> 0, rec |-> PendingRecord(0)]
Stored(c) == inbox[c].rev # 0
Record(c) == inbox[c].rec

\* `by` is the grant the caller acted under, or 0: no guard of Commit reads it.
Write == [cmd : Command, rev : Nat, rec : InboxRecord, by : Nat]

\* `by` really wrote a record and `of` is the command whose effect it is.
\* Nothing in the code reads either.
Entry == [kind : EnvelopeKind, lease : Nat, cmd : Command \cup {NoCommand}, mapped : BOOLEAN,
          by : Nat, of : Command \cup {NoCommand}]

TypeOK ==
    /\ inbox \in [Command -> [rev : Nat, rec : InboxRecord]]
    /\ calls \subseteq Write
    /\ now \in 0..MaxTime
    /\ journal \in Seq(Entry)
    /\ begun \subseteq Epoch \X Command
    /\ \A c \in Command : WellFormed(Record(c))
    /\ \A w \in calls : w.rev <= inbox[w.cmd].rev

Init ==
    /\ inbox = [c \in Command |-> Absent]
    /\ calls = {}
    /\ now = 0
    /\ journal = << >>
    /\ begun = {}

-----------------------------------------------------------------------------
(* Time, and the journal.                                                  *)

Tick ==
    /\ now < MaxTime
    /\ now' = now + 1
    /\ UNCHANGED <<inbox, calls, journal, begun>>

Reading == 0..(now + Skew)

Opened(e) == \E i \in DOMAIN journal : journal[i].by = e
Owner == IF journal = << >> THEN 0 ELSE journal[Len(journal)].by
PrefixAtTip == journal # << >> /\ IsPrefix(journal[Len(journal)])

Appends(record, e, of) ==
    /\ e \in Applier => Len(journal) < MaxLog
    /\ journal' = Append(journal,
          [kind |-> record.kind, lease |-> record.lease, cmd |-> record.cmd,
           mapped |-> record.mapped, by |-> e, of |-> of])
    /\ UNCHANGED <<inbox, calls, now>>

\* A late opener read the tip after its successor's fence (JournalWriter).
OpenJournal(e) ==
    /\ ~Opened(e)
    /\ LateOpeners \/ \A f \in Epoch : Opened(f) => f < e
    /\ Appends(OpeningFence(e), e, NoCommand)
    /\ UNCHANGED begun

\* The first step of an application, by the Host that began it, once.
AppendPrefix(e, c) ==
    /\ Owner = e /\ ~PrefixAtTip
    /\ <<e, c>> \in begun
    /\ Appends(ApplicationPrefix(e, c, TRUE), e, NoCommand)
    /\ begun' = begun \ {<<e, c>>}

\* Its effect, or nothing more under this grant.
AppendEffect(e, c) ==
    /\ Owner = e /\ PrefixAtTip
    /\ journal[Len(journal)].cmd = c
    /\ Appends(Unowned("public_event"), e, c)
    /\ UNCHANGED begun

\* An event of the session that is no command's.
AppendEvent(e) ==
    /\ Owner = e /\ ~PrefixAtTip
    /\ Appends(Unowned("public_event"), e, NoCommand)
    /\ UNCHANGED begun

-----------------------------------------------------------------------------
(* The inbox's operations.                                                 *)

\* Insert-if-absent: a repeated admission finds the winner and writes nothing.
AdmitCommand(c, deadline) ==
    /\ ~Stored(c)
    /\ inbox' = [inbox EXCEPT ![c] = [rev |-> 1, rec |-> PendingRecord(deadline)]]
    /\ UNCHANGED <<calls, now, journal, begun>>

Prepare(c, e, next) ==
    /\ Cardinality(calls) < MaxCalls
    /\ WellFormed(next)
    /\ calls' = calls \cup {[cmd |-> c, rev |-> inbox[c].rev, rec |-> next, by |-> e]}
    /\ UNCHANGED <<inbox, now, journal>>

MayClaim(r, e, t) ==
    /\ r.state \in {"pending", "claimed"}
    /\ ~Superseded(r, e)
    /\ t < r.deadline
    /\ ~(ClaimLive(r, t) /\ e = r.claim.lease)

ClaimAt(r, state, e, expires) ==
    [r EXCEPT !.state = state, !.claim = [lease |-> e, expires |-> expires]]

ClaimCommand(e, c) ==
    /\ Stored(c) /\ Opened(e)
    /\ \E t \in Reading : \E expires \in (t + 1)..(t + MaxClaimTTL) :
          /\ MayClaim(Record(c), e, t)
          /\ Prepare(c, e, ClaimAt(Record(c), "claimed", e, expires))
    /\ UNCHANGED begun

MayBegin(r, e, t) ==
    /\ r.state = "claimed"
    /\ ~Superseded(r, e) /\ e = r.claim.lease
    /\ ClaimLive(r, t)

\* No deadline is looked at: an unexpired claim has won that race.
BeginApplyingCommand(e, c) ==
    /\ Stored(c) /\ Opened(e)
    /\ \E t \in Reading : \E expires \in (t + 1)..(t + MaxClaimTTL) :
          /\ MayBegin(Record(c), e, t)
          /\ Prepare(c, e, ClaimAt(Record(c), "applying", e, expires))
    /\ UNCHANGED begun

Applied(r, result) == [r EXCEPT !.state = "applied", !.result = result]

\* The claim's own grant is believed: it names the effect it committed.  A
\* later one names what the journal shows.
CompleteCommand(e, c, result) ==
    /\ Stored(c) /\ Opened(e)
    /\ Record(c).state = "applying"
    /\ ~Superseded(Record(c), e)
    /\ IF e = Record(c).claim.lease
       THEN journal[result].by = e /\ journal[result].of = c
       ELSE NamesEffect(CommandApplication(journal, c), result)
    /\ Prepare(c, e, Applied(Record(c), result))
    /\ UNCHANGED begun

\* Mutant: a live claim does not hold a rejection back.
MayRejectClaimed(r, e, t, app) ==
    /\ ~Terminal(r.state)
    /\ e # 0 => ~Superseded(r, e)
    /\ ~ClaimLive(r, t) /\ r.state = "applying" => e > r.claim.lease /\ Fences(app, r.claim.lease)
    /\ ProvesNoEffect(app)
MayReject(r, e, t, app) ==
    /\ ~Terminal(r.state)
    /\ e # 0 => ~Superseded(r, e)
    /\ ClaimLive(r, t) => e = r.claim.lease
    /\ ~ClaimLive(r, t) /\ r.state = "applying" => e > r.claim.lease /\ Fences(app, r.claim.lease)
    /\ ProvesNoEffect(app)

Rejected(r) == [r EXCEPT !.state = "rejected"]

\* Epoch zero is a reconciler's.  A Host that rejects its own application has
\* given it up.
RejectAt(e, c, t) ==
    /\ Stored(c)
    /\ e # 0 => Opened(e)
    /\ MayReject(Record(c), e, t, CommandApplication(journal, c))
    /\ Prepare(c, e, Rejected(Record(c)))
    /\ begun' = begun \ {<<e, c>>}

RejectCommand(e, c) == \E t \in Reading : RejectAt(e, c, t)

\* The provider's compare-and-swap at the revision read.
Current(w) == w.rev = inbox[w.cmd].rev

\* Acknowledged or not: a Host that lost the reply reads the record and finds
\* that it may go on.
Commit(w) ==
    /\ Current(w)
    /\ inbox' = [inbox EXCEPT ![w.cmd] = [rev |-> w.rev + 1, rec |-> w.rec]]
    /\ begun' = IF w.rec.state = "applying" THEN begun \cup {<<w.by, w.cmd>>} ELSE begun
    /\ calls' = calls \ {w}
    /\ UNCHANGED <<now, journal>>

CommitFailed(w) ==
    /\ calls' = calls \ {w}
    /\ UNCHANGED <<inbox, now, journal, begun>>

-----------------------------------------------------------------------------
Next ==
    \/ Tick
    \/ \E e \in Epoch : OpenJournal(e)
    \/ \E e \in Applier : AppendEvent(e)
    \/ \E e \in Applier, c \in Command :
          AppendPrefix(e, c) \/ AppendEffect(e, c) \/ ClaimCommand(e, c) \/ BeginApplyingCommand(e, c)
    \/ \E c \in Command, d \in Deadline : AdmitCommand(c, d)
    \/ \E e \in Epoch, c \in Command, result \in DOMAIN journal : CompleteCommand(e, c, result)
    \/ \E e \in 0..MaxEpoch, c \in Command : RejectCommand(e, c)
    \/ \E w \in calls : Commit(w) \/ CommitFailed(w)

Spec == Init /\ [][Next]_vars
-----------------------------------------------------------------------------
(* Safety.                                                                 *)

\* A rejected command has no effect in the journal, and never will: not from a
\* Host whose append was under way when the journal was read, nor from one that
\* has yet to learn that its claim lapsed.  "A rejection written over a durable
\* effect is the exact overwrite the terminal states exist to prevent"
\* (inbox_claim.go, RejectCommand).
RejectedLeavesNoEffect ==
    \A c \in Command : Record(c).state = "rejected" =>
        \A i \in DOMAIN journal : journal[i].of # c

\* An applied command's result is the event of its own effect, behind a prefix
\* of the grant its claim names, whoever recorded it.  (CompleteCommand keeps
\* the claim that applied the command.)
AppliedByItsOwnEffect ==
    \A c \in Command : Record(c).state = "applied" =>
        LET result == Record(c).result
        IN  /\ result \in DOMAIN journal /\ journal[result].of = c
            /\ IsPrefix(journal[result - 1]) /\ journal[result - 1].cmd = c
            /\ journal[result - 1].lease = Record(c).claim.lease

\* An applying command keeps its claim until it is settled, and a settled one
\* everything: no grant takes an application over, none renews its own.
\* (ClaimCommand and BeginApplyingCommand refuse the applying state.)
ApplyingIsAFortress ==
    [][\A c \in Command :
          /\ Terminal(Record(c).state) => inbox'[c] = inbox[c]
          /\ Record(c).state = "applying" /\ inbox'[c] # inbox[c] =>
                Terminal(Record(c)'.state) /\ Record(c)'.claim = Record(c).claim]_vars

\* The epoch a superseded Host is measured against never falls, so it stays
\* superseded.  (commandEpochFence.)
ClaimMarkNeverFalls ==
    [][\A c \in Command : Record(c).claim.lease <= Record(c)'.claim.lease]_vars

\* While a claim is live by every clock, nobody but its own grant moves the
\* command, except a later grant that claims it; and its own grant does not
\* claim it again.  (The claim_held rule of ClaimCommand and RejectCommand.)
LiveClaimExcludes ==
    [][\A c \in Command :
          LET held == Record(c).claim
          IN  /\ Record(c).state = "claimed" /\ now + Skew < held.expires
              /\ inbox'[c] # inbox[c]
              => \/ Record(c)'.state = "claimed" /\ Record(c)'.claim.lease > held.lease
                 \/ /\ Record(c)'.state \in {"applying", "rejected"}
                    /\ \E w \in calls : /\ w.cmd = c /\ w.rec = Record(c)'
                                        /\ w.by = held.lease]_vars
=============================================================================
