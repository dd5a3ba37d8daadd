-------------------------- MODULE DispositionInbox --------------------------
(***************************************************************************)
(* The disposition inbox: one ordered record per command, moved by          *)
(* compare-and-swap through                                                 *)
(*                                                                          *)
(*   pending -> claimed -> applying -> applied | rejected                   *)
(*   pending | claimed -> rejected            (before any dispatch)         *)
(*                                                                          *)
(* by any number of replicas at once.  An operation of the code is two      *)
(* steps here: a Decide action reads the store's clock and the record, runs *)
(* every guard, and prepares the write; Commit is the provider's            *)
(* compare-and-swap at the revision read.  Between the two any other call   *)
(* may commit, the clock may advance, grants may be issued, the caller may  *)
(* crash.  A refused operation changes nothing and has no step.             *)
(*                                                                          *)
(* The runtime (its journal, its leases) is not this repository's: the code *)
(* only reads what it wrote.  It appears as the weakest thing the code       *)
(* relies on: a log whose writers are fenced, and at most one disposition    *)
(* per dispatched command, whose bytes may claim a grant that is not the     *)
(* writer's.                                                                *)
(***************************************************************************)
EXTENDS DispositionEvidence

CONSTANTS MaxCalls,         \* bound: operations in flight at once
          Deadline,         \* the apply deadlines a command may be admitted with
          MaxTime,          \* bound: the clock stops here
          Skew,             \* how far a replica's clock may run ahead
          MaxResidency,     \* bound: residency grants issued
          MaxJournalEpoch,  \* bound: runtime journal grants
          AttemptJournal,   \* journal epochs an attempt may select
          ForeignLease      \* grants a frame's bytes may falsely claim

ASSUME InboxBoundsAssumption ==
    /\ MaxCalls \in Nat \ {0}
    /\ Deadline \subseteq Nat \ {0}
    /\ MaxTime \in Nat /\ Skew \in Nat
    /\ MaxResidency \in Nat \ {0} /\ MaxJournalEpoch \in Nat \ {0}
    /\ AttemptJournal \subseteq 1..MaxJournalEpoch
    /\ ForeignLease \subseteq 1..MaxJournalEpoch

VARIABLES inbox,       \* the ordered index: command -> revision and record
          calls,       \* the writes that operations in flight have prepared
          issued,      \* the highest residency epoch the provider issued
          now,         \* the clock
          authorized,  \* <<command, attempt>> a Host was told it may dispatch
          journal,     \* the session's runtime journal
          writer       \* the runtime grant that opened it last

vars == <<inbox, calls, issued, now, authorized, journal, writer>>

Absent == [rev |-> 0, rec |-> PendingRecord(0)]
\* `residency` is the one the caller named: no guard of Commit reads it.
Write == [cmd : Command, rev : Nat, rec : DispositionInboxRecord, residency : Nat]
Stored(c) == inbox[c].rev # 0
Record(c) == inbox[c].rec

Frame ==
    [frame : {"fence"}, lease : Nat, by : Nat]
      \cup [frame : {"disposition"}, lease : Nat, by : Nat, cmd : Command,
            attempt : AttemptId \cup {NoAttemptId}, attemptJournal : Nat, kind : OutcomeKind]

TypeOK ==
    /\ inbox \in [Command -> [rev : Nat, rec : DispositionInboxRecord]]
    /\ calls \subseteq Write
    /\ issued \in 0..MaxResidency
    /\ now \in 0..MaxTime
    /\ authorized \subseteq Command \X AttemptId
    /\ journal \in Seq(Frame)
    /\ writer \in 0..MaxJournalEpoch

Init ==
    /\ inbox = [c \in Command |-> Absent]
    /\ calls = {}
    /\ issued = 0
    /\ now = 0
    /\ authorized = {}
    /\ journal = << >> /\ writer = 0

-----------------------------------------------------------------------------
(* The environment: time, and the residency leases.                        *)

Tick ==
    /\ now < MaxTime
    /\ now' = now + 1
    /\ UNCHANGED <<inbox, calls, issued, authorized, journal, writer>>

\* A clock reading an operation may hold: taken before the record is read,
\* any time ago, by a replica whose clock may run ahead.
Reading == 0..(now + Skew)

\* The lease provider issues a strictly greater epoch; a predecessor whose
\* lease lapsed, or was released, may still have calls of its own in progress.
AcquireResidency ==
    /\ issued < MaxResidency
    /\ issued' = issued + 1
    /\ UNCHANGED <<inbox, calls, now, authorized, journal, writer>>

-----------------------------------------------------------------------------
(* The inbox's operations.                                                 *)

\* The create is insert-if-absent: a repeated admission finds the winner and
\* writes nothing.
AdmitDispositionCommand(c, deadline) ==
    /\ ~Stored(c)
    /\ inbox' = [inbox EXCEPT ![c] = [rev |-> 1, rec |-> PendingRecord(deadline)]]
    /\ UNCHANGED <<calls, issued, now, authorized, journal, writer>>

\* The first half of commitDispositionTransition: encoding validates the
\* record, and the write names the revision the decision was made against.
Prepare(c, residency, next) ==
    /\ Cardinality(calls) < MaxCalls
    /\ WellFormed(next)
    /\ calls' = calls \cup
          {[cmd |-> c, rev |-> inbox[c].rev, rec |-> next, residency |-> residency]}
    /\ UNCHANGED <<inbox, issued, now, authorized, journal, writer>>

\* Mutant: an attempt does not stop a claim.
MayClaimOverAttempt(r, claim, t) ==
    /\ ValidClaim(claim) /\ BoundedExpiry(claim.expires, t) /\ ~Terminal(r.state)
    /\ ~Superseded(r, claim.residency) /\ t < r.deadline
    /\ ~(ClaimLive(r, t) /\ r.claim.residency = claim.residency)

\* Mutant: the mark is not consulted.
MayClaimBelowMark(r, claim, t) ==
    /\ ValidClaim(claim) /\ BoundedExpiry(claim.expires, t) /\ ~Terminal(r.state)
    /\ r.attempt = NoAttempt /\ t < r.deadline
    /\ ~(ClaimLive(r, t) /\ r.claim.residency = claim.residency)

MayClaim(r, claim, t) ==
    /\ ValidClaim(claim)
    /\ BoundedExpiry(claim.expires, t)
    /\ ~Terminal(r.state)
    /\ r.attempt = NoAttempt
    /\ ~Superseded(r, claim.residency)
    /\ t < r.deadline
    /\ ~(ClaimLive(r, t) /\ r.claim.residency = claim.residency)

Claimed(r, claim) == [r EXCEPT !.state = "claimed", !.claim = claim]

\* The epoch comes off a grant this store issued, and from nowhere else.  The
\* grant is looked at before the record is read, so it may be released since.
ClaimResidency == 1..issued

ClaimDispositionCommand(c) ==
    /\ Stored(c)
    /\ \E residency \in ClaimResidency, t \in Reading : \E expires \in (t + 1)..(t + MaxClaimTTL) :
          LET claim == [residency |-> residency, expires |-> expires]
          IN  /\ MayClaim(Record(c), claim, t)
              /\ Prepare(c, residency, Claimed(Record(c), claim))

MayBegin(r, attempt, t) ==
    /\ ValidAttempt(attempt)
    /\ r.state = "claimed"
    /\ ~Superseded(r, attempt.residency)
    /\ attempt.residency = r.claim.residency
    /\ t < r.claim.expires

Applying(r, attempt) == [r EXCEPT !.state = "applying", !.attempt = attempt]

\* Residency, journal grant and attempt id are numbers the caller asserts.
BeginDispositionAttempt(c) ==
    /\ Stored(c)
    /\ \E residency \in 1..MaxResidency, epoch \in AttemptJournal, id \in AttemptId, t \in Reading :
          LET attempt == [id |-> id, journal |-> epoch, residency |-> residency]
          IN  /\ MayBegin(Record(c), attempt, t)
              /\ Prepare(c, residency, Applying(Record(c), attempt))

\* Mutant: a live claim does not hold.
MayRejectClaimed(r, residency, t) ==
    /\ ~Terminal(r.state) /\ r.attempt = NoAttempt
    /\ residency # 0 => ~Superseded(r, residency)

MayReject(r, residency, t) ==
    /\ ~Terminal(r.state)
    /\ r.attempt = NoAttempt
    /\ residency # 0 => ~Superseded(r, residency)
    /\ ClaimLive(r, t) => r.claim.residency = residency

Rejected(r) == [r EXCEPT !.state = "rejected"]

\* Residency zero is a reconciler, which holds none.
RejectAt(c, residency, t) ==
    /\ Stored(c)
    /\ MayReject(Record(c), residency, t)
    /\ Prepare(c, residency, Rejected(Record(c)))

RejectDispositionCommand(c) ==
    \E residency \in 0..MaxResidency, t \in Reading : RejectAt(c, residency, t)

Settled(r, e, residency) ==
    [r EXCEPT !.state = TerminalState(e.kind),
              !.outcome = [evidence |-> e, settling |-> residency]]

\* The evidence is read between the record and the write.  Reading it with
\* the record loses nothing: a write that commits names the same revision.
SettleDispositionCommand(c) ==
    /\ Stored(c)
    /\ Record(c).state = "applying"
    /\ \E residency \in 1..MaxResidency :
          /\ ~Superseded(Record(c), residency)
          /\ \E e \in ReadDispositionEvidence(journal, c, Record(c).attempt) :
                /\ Verified(e, Record(c).attempt)
                /\ Prepare(c, residency, Settled(Record(c), e, residency))

\* Mutant: the write names no revision.
NoComparison(w) == TRUE
\* The provider's compare-and-swap at the revision read.
Current(w) == w.rev = inbox[w.cmd].rev
Install(w) == inbox' = [inbox EXCEPT ![w.cmd] = [rev |-> w.rev + 1, rec |-> w.rec]]

\* What the caller is told: a Host told its attempt is durable may dispatch.
Dispatchable(w) ==
    IF w.rec.state = "applying" THEN {<<w.cmd, w.rec.attempt.id>>} ELSE {}

CommitAcknowledged(w) ==
    /\ Current(w)
    /\ Install(w)
    /\ authorized' = authorized \cup Dispatchable(w)
    /\ calls' = calls \ {w}
    /\ UNCHANGED <<issued, now, journal, writer>>

\* The write landed and its reply was lost, or its caller is gone.
CommitUnacknowledged(w) ==
    /\ Current(w)
    /\ Install(w)
    /\ calls' = calls \ {w}
    /\ UNCHANGED <<issued, now, authorized, journal, writer>>

\* The comparison was lost, the provider failed, or the caller crashed first.
CommitFailed(w) ==
    /\ calls' = calls \ {w}
    /\ UNCHANGED <<inbox, issued, now, authorized, journal, writer>>

-----------------------------------------------------------------------------
(* The runtime, as the code relies on it.                                  *)

OpenRuntimeJournal ==
    /\ writer < MaxJournalEpoch
    /\ writer' = writer + 1
    /\ journal' = Append(journal, OpeningFence(writer'))
    /\ UNCHANGED <<inbox, calls, issued, now, authorized>>

Answered(c, id) == \E i \in Naming(journal, id) : journal[i].cmd = c

\* The grant the attempt selected answers a command it was dispatched; a
\* later one closes an attempt nobody answered.  `lease` is what the frame's
\* bytes claim.
RuntimeAnswers(c, kind, lease) ==
    LET attempt == Record(c).attempt
    IN  /\ attempt # NoAttempt
        /\ writer # 0
        /\ ~Answered(c, attempt.id)
        /\ lease \in {writer} \cup ForeignLease
        /\ IF kind = "not_applied"
           THEN lease > attempt.journal
           ELSE lease = attempt.journal /\ <<c, attempt.id>> \in authorized
        /\ journal' = Append(journal, CommandDisposition(c, attempt, kind, lease, writer))
        /\ UNCHANGED <<inbox, calls, issued, now, authorized, writer>>

-----------------------------------------------------------------------------
Next ==
    \/ Tick
    \/ AcquireResidency
    \/ \E c \in Command, d \in Deadline : AdmitDispositionCommand(c, d)
    \/ \E c \in Command :
          \/ ClaimDispositionCommand(c)
          \/ BeginDispositionAttempt(c)
          \/ RejectDispositionCommand(c)
          \/ SettleDispositionCommand(c)
    \/ \E w \in calls :
          \/ CommitAcknowledged(w)
          \/ CommitUnacknowledged(w)
          \/ CommitFailed(w)
    \/ OpenRuntimeJournal
    \/ \E c \in Command, kind \in OutcomeKind, lease \in 1..MaxJournalEpoch :
          RuntimeAnswers(c, kind, lease)

Spec == Init /\ [][Next]_vars
-----------------------------------------------------------------------------
(* Safety.                                                                 *)

\* A Host is told it may dispatch an attempt only if that attempt is the
\* record's, for good: so a command has one attempt, however many Hosts raced
\* for it, and a command rejected before dispatch was dispatched by nobody.
\* (BeginDispositionAttempt and RejectDispositionCommand.)
AttemptIsTheOnlyAuthority ==
    \A c \in Command, id \in AttemptId : <<c, id>> \in authorized =>
        Record(c).attempt.id = id /\ Record(c).state \in {"applying", "applied", "rejected"}

\* Whoever passes an edge's guards gets a record the codec stores: a refusal is
\* always the guard's, which names the reason, and never the encoder's.
\* (validateDispositionState's constraint on every writer.)
GuardsAdmitEncodable ==
    \A c \in Command : Stored(c) =>
        LET r == Record(c)
        IN  /\ \A residency \in ClaimResidency, t \in Reading : \A expires \in (t + 1)..(t + MaxClaimTTL) :
                  LET claim == [residency |-> residency, expires |-> expires]
                  IN  MayClaim(r, claim, t) => WellFormed(Claimed(r, claim))
            /\ \A residency \in 1..MaxResidency, epoch \in AttemptJournal, id \in AttemptId, t \in Reading :
                  LET attempt == [id |-> id, journal |-> epoch, residency |-> residency]
                  IN  MayBegin(r, attempt, t) => WellFormed(Applying(r, attempt))
            /\ \A residency \in 0..MaxResidency, t \in Reading :
                  MayReject(r, residency, t) => WellFormed(Rejected(r))

\* A settlement rests on a disposition of this command's own attempt, whatever
\* other command was given the same attempt id.
\* (ReadDispositionEvidence refuses a frame that names another command.)
SettledByOwnDisposition ==
    \A c \in Command : Record(c).outcome # NoOutcome =>
        LET frame == journal[Record(c).outcome.evidence.seq]
        IN  frame.cmd = c /\ frame.attempt = Record(c).attempt.id

\* A settlement is final against the grant that could still contradict it: an
\* answer was written by the grant the attempt selected, a closure by a later
\* one, so the attempt's own writer is fenced when a command is closed as not
\* applied.  `by` is the grant that really wrote the frame, whatever its bytes
\* claim.  (The opening-fence comparison of ReadDispositionEvidence.)
SettledByTrueAuthor ==
    \A c \in Command : Record(c).outcome # NoOutcome =>
        LET frame == journal[Record(c).outcome.evidence.seq]
        IN  IF frame.kind = "not_applied"
            THEN frame.by > Record(c).attempt.journal
            ELSE frame.by = Record(c).attempt.journal

\* A terminal record never changes, and neither does an attempt once recorded
\* or the claim it was begun under, whatever writes are still in flight.
\* (commitDispositionTransition's revision.)
AttemptAndTerminalAreForever ==
    [][\A c \in Command :
          /\ Terminal(Record(c).state) => inbox'[c] = inbox[c]
          /\ Record(c).attempt # NoAttempt =>
                /\ Record(c)'.attempt = Record(c).attempt
                /\ Record(c)'.claim = Record(c).claim]_vars

\* A superseded residency stays superseded, and no residency is locked out
\* before its successor exists: the mark outlives the claim that raised it,
\* never falls, and only rises to an epoch the provider issued.
\* (dispositionRecordHighWater; ClaimDispositionCommandRequest.Residency is a
\* grant, not a number.)
MarkFollowsTheProvider ==
    [][\A c \in Command :
          HighWater(Record(c)) <= HighWater(Record(c)') /\ HighWater(Record(c)') <= issued']_vars

\* While a claim is live by every clock, only a higher residency takes it,
\* its holder not even to renew it, and only its holder rejects the command,
\* whatever the apply deadline says and however long ago either was decided.
\* (ClaimDispositionCommand's claim_held, RejectDispositionCommand.)
LiveClaimExcludes ==
    [][\A c \in Command :
          LET held == Record(c).claim
              next == Record(c)'
          IN  Record(c).state = "claimed" /\ now + Skew < held.expires =>
                /\ next.claim = held \/ next.claim.residency > held.residency
                /\ next.state = "rejected" =>
                      \E w \in calls : w.cmd = c /\ w.rec = next /\ w.residency = held.residency]_vars
=============================================================================
