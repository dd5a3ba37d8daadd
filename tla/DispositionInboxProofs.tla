----------------------- MODULE DispositionInboxProofs -----------------------
(***************************************************************************)
(* Theorems about the disposition inbox, for every number of commands,     *)
(* attempts, grants and concurrent calls, and every skew of the clocks.    *)
(*                                                                         *)
(* Three parts: the records and their writes, the journal that settlements *)
(* rest on, the ledger that both together implement.                       *)
(*                                                                         *)
(* The safety properties are not inductive by themselves.  What carries    *)
(* them is what a prepared write is worth while it is still current: it    *)
(* was decided on the record it would replace, so it settles an attempt    *)
(* and keeps it and the claim it was begun under, and it is never decided  *)
(* on a terminal record.                                                   *)
(***************************************************************************)
EXTENDS DispositionLedger, TLAPS

\* Stored records passed the encoder, and a command not admitted has none.
RecordsEncoded ==
    \A c \in Command : IF Stored(c) THEN WellFormed(Record(c)) ELSE inbox[c] = Absent

\* What a write in flight is worth.
WriteFollows(w) ==
    /\ w.rev # 0
    /\ w.rev <= inbox[w.cmd].rev
    /\ WellFormed(w.rec)
    /\ Current(w) =>
          /\ ~Terminal(Record(w.cmd).state)
          /\ Record(w.cmd).attempt # NoAttempt =>
                /\ w.rec.attempt = Record(w.cmd).attempt
                /\ w.rec.claim = Record(w.cmd).claim
                /\ Terminal(w.rec.state)
WritesFollow == \A w \in calls : WriteFollows(w)

IInv ==
    /\ TypeOK
    /\ RecordsEncoded
    /\ WritesFollow
    /\ AttemptIsTheOnlyAuthority

-----------------------------------------------------------------------------
(* The records the four transitions prepare.                               *)

\* What each operation writes is a record of the inbox.
LEMMA ClaimedIsRecord ==
    ASSUME NEW r \in DispositionInboxRecord, NEW claim \in DispositionClaim
    PROVE  Claimed(r, claim) \in DispositionInboxRecord
BY DEF Claimed, DispositionInboxRecord, InboxState

LEMMA ApplyingIsRecord ==
    ASSUME NEW r \in DispositionInboxRecord, NEW attempt \in DispositionAttempt
    PROVE  Applying(r, attempt) \in DispositionInboxRecord
BY DEF Applying, DispositionInboxRecord, InboxState

LEMMA RejectedIsRecord ==
    ASSUME NEW r \in DispositionInboxRecord
    PROVE  Rejected(r) \in DispositionInboxRecord
BY DEF Rejected, DispositionInboxRecord, InboxState

\* What the reader reports is a piece of evidence: it stands on a frame.
LEMMA EvidenceIsEvidence ==
    ASSUME NEW log \in Seq(Frame), NEW c \in Command, NEW attempt,
           NEW e \in ReadDispositionEvidence(log, c, attempt)
    PROVE  e \in DispositionEvidence
<1>1. PICK f \in DOMAIN log, i \in Naming(log, attempt.id) : e = EvidenceAt(log, f, i)
  BY DEF ReadDispositionEvidence
<1>2. i \in DOMAIN log /\ log[i] \in Frame /\ ~IsFence(log[i])
  BY <1>1 DEF Naming
<1>3. /\ log[i].kind \in OutcomeKind
      /\ log[i].attempt \in AttemptId \cup {NoAttemptId}
      /\ log[i].attemptJournal \in Nat
  BY <1>2 DEF Frame, IsFence
<1>4. log[f].lease \in Nat /\ f \in Nat /\ i \in Nat
  BY <1>1, <1>2 DEF Frame
<1> QED
  BY <1>1, <1>3, <1>4 DEF EvidenceAt, AuthorGrant, DispositionEvidence

LEMMA SettledIsRecord ==
    ASSUME NEW r \in DispositionInboxRecord, NEW e \in DispositionEvidence, NEW residency \in Nat
    PROVE  Settled(r, e, residency) \in DispositionInboxRecord
BY DEF Settled, DispositionInboxRecord, InboxState, TerminalState, DispositionOutcome

-----------------------------------------------------------------------------
(* The inductive step, one lemma for the deciding half of every operation  *)
(* and one for the committing half.                                        *)

\* Preparing a write decided on the stored record keeps the invariant.
LEMMA PreparePreserves ==
    ASSUME IInv, NEW c \in Command, NEW residency \in Nat, NEW next \in DispositionInboxRecord,
           Stored(c),
           ~Terminal(Record(c).state),
           Record(c).attempt # NoAttempt =>
               /\ next.attempt = Record(c).attempt /\ next.claim = Record(c).claim
               /\ Terminal(next.state),
           Prepare(c, residency, next)
    PROVE  IInv'
<1> DEFINE w == [cmd |-> c, rev |-> inbox[c].rev, rec |-> next, residency |-> residency]
<1>1. inbox[c].rev \in Nat /\ inbox[c].rev # 0
  BY DEF IInv, TypeOK, Stored
<1>2. w \in Write
  BY <1>1 DEF Write
<1>3. calls' = calls \cup {w} /\ WellFormed(next)
  BY DEF Prepare
<1>4. UNCHANGED <<inbox, issued, now, authorized, journal, writer>>
  BY DEF Prepare
<1>5. TypeOK'
  BY <1>2, <1>3, <1>4 DEF IInv, TypeOK
<1>6. RecordsEncoded'
  BY <1>4 DEF IInv, RecordsEncoded, Stored, Record
<1>7. WriteFollows(w)
  BY <1>1, <1>3 DEF WriteFollows, Current
<1>8. WritesFollow'
  <2> SUFFICES ASSUME NEW v \in calls' PROVE WriteFollows(v)'
    BY DEF WritesFollow
  <2>1. WriteFollows(v)
    BY <1>3, <1>7 DEF IInv, WritesFollow
  <2> QED
    BY <2>1, <1>4 DEF WriteFollows, Current, Record
<1>9. AttemptIsTheOnlyAuthority'
  BY <1>4 DEF IInv, AttemptIsTheOnlyAuthority, Record
<1> QED
  BY <1>5, <1>6, <1>8, <1>9 DEF IInv

\* Whatever the outcome of the call, a write that is current installs a record
\* that keeps the attempt and the claim of the one it replaces.
LEMMA CommitPreserves ==
    ASSUME IInv, NEW w \in calls, Current(w), Install(w),
           calls' = calls \ {w},
           authorized' = authorized \/ authorized' = authorized \cup Dispatchable(w),
           UNCHANGED <<issued, now, journal, writer>>
    PROVE  IInv'
<1>1. w \in Write /\ WriteFollows(w) /\ w.rec \in DispositionInboxRecord
  BY DEF IInv, TypeOK, WritesFollow, Write
<1>2. /\ w.cmd \in Command
      /\ inbox[w.cmd].rev \in Nat
      /\ w.rev = inbox[w.cmd].rev
      /\ inbox \in [Command -> [rev : Nat, rec : DispositionInboxRecord]]
  BY <1>1 DEF IInv, TypeOK, Write, Current
<1>3. inbox' = [inbox EXCEPT ![w.cmd] = [rev |-> w.rev + 1, rec |-> w.rec]]
  BY DEF Install
<1>4. inbox'[w.cmd] = [rev |-> w.rev + 1, rec |-> w.rec]
  BY <1>2, <1>3
<1>5. \A c \in Command : c # w.cmd => inbox'[c] = inbox[c]
  BY <1>2, <1>3
<1>6. WellFormed(w.rec) /\ w.rev # 0
  BY <1>1 DEF WriteFollows
<1>7. Record(w.cmd).attempt # NoAttempt => w.rec.attempt = Record(w.cmd).attempt
  BY <1>1 DEF WriteFollows
<1>8. w.rec.attempt # NoAttempt =>
          /\ w.rec.attempt.id \in AttemptId
          /\ w.rec.state \in {"applying", "applied", "rejected"}
  BY <1>1, <1>6 DEF WellFormed, ValidAttempt, StateCarries, Terminal, DispositionInboxRecord, DispositionAttempt
<1>9. w.rec.state = "applying" => w.rec.attempt # NoAttempt
  BY <1>6 DEF WellFormed, StateCarries, Terminal
<1>10. TypeOK'
  <2>1. inbox' \in [Command -> [rev : Nat, rec : DispositionInboxRecord]]
    BY <1>1, <1>2, <1>3
  <2>2. authorized' \subseteq Command \X AttemptId
    BY <1>2, <1>8, <1>9 DEF IInv, TypeOK, Dispatchable
  <2> QED
    BY <2>1, <2>2 DEF IInv, TypeOK
<1>11. RecordsEncoded'
  <2> SUFFICES ASSUME NEW c \in Command
               PROVE  IF Stored(c)' THEN WellFormed(Record(c)') ELSE inbox'[c] = Absent
    BY DEF RecordsEncoded, WellFormed, ValidClaim, ValidAttempt, ValidOutcome, AuthorFitsKind,
           StateCarries, Terminal, TerminalState
  <2>1. CASE c = w.cmd
    BY <2>1, <1>2, <1>4, <1>6 DEF Stored, Record
  <2>2. CASE c # w.cmd
    BY <2>2, <1>5 DEF IInv, RecordsEncoded, Stored, Record
  <2> QED
    BY <2>1, <2>2
<1>12. WritesFollow'
  <2> SUFFICES ASSUME NEW v \in calls' PROVE WriteFollows(v)'
    BY DEF WritesFollow
  <2>1. v \in calls /\ WriteFollows(v) /\ v.cmd \in Command /\ v.rev \in Nat
    BY DEF IInv, WritesFollow, TypeOK, Write
  <2>2. CASE v.cmd = w.cmd
    <3>1. v.rev < inbox'[v.cmd].rev
      BY <2>1, <2>2, <1>2, <1>4 DEF WriteFollows
    <3> QED
      BY <2>1, <3>1, <1>2, <1>4, <2>2 DEF WriteFollows, Current
  <2>3. CASE v.cmd # w.cmd
    BY <2>1, <2>3, <1>5 DEF WriteFollows, Current, Record
  <2> QED
    BY <2>2, <2>3
<1>13. AttemptIsTheOnlyAuthority'
  <2> SUFFICES ASSUME NEW c \in Command, NEW id \in AttemptId, <<c, id>> \in authorized'
               PROVE  /\ Record(c)'.attempt.id = id
                      /\ Record(c)'.state \in {"applying", "applied", "rejected"}
    BY DEF AttemptIsTheOnlyAuthority
  <2>1. CASE <<c, id>> \in authorized
    <3>1. Record(c).attempt.id = id /\ Record(c).state \in {"applying", "applied", "rejected"}
      BY <2>1 DEF IInv, AttemptIsTheOnlyAuthority
    <3>2. Record(c).attempt # NoAttempt
      BY <3>1, NoAttemptIdAssumption DEF NoAttempt
    <3>3. CASE c = w.cmd
      BY <3>1, <3>2, <3>3, <1>4, <1>7, <1>8 DEF Record
    <3>4. CASE c # w.cmd
      BY <3>1, <3>4, <1>5 DEF Record
    <3> QED
      BY <3>3, <3>4
  <2>2. CASE <<c, id>> \in Dispatchable(w)
    <3>1. w.rec.state = "applying" /\ c = w.cmd /\ id = w.rec.attempt.id
      BY <2>2 DEF Dispatchable
    <3> QED
      BY <3>1, <1>4 DEF Record
  <2> QED
    BY <2>1, <2>2
<1> QED
  BY <1>10, <1>11, <1>12, <1>13 DEF IInv

LEMMA PendingIsRecord ==
    ASSUME NEW deadline \in Nat
    PROVE  PendingRecord(deadline) \in DispositionInboxRecord
BY DEF PendingRecord, DispositionInboxRecord, InboxState, NoClaim, NoAttempt, NoOutcome, NoEvidence,
       DispositionClaim, DispositionAttempt, DispositionOutcome, DispositionEvidence

\* An empty inbox, no writes and no grant: nothing to show.
LEMMA InitEstablishes == Init => IInv
<1> SUFFICES ASSUME Init PROVE IInv
  OBVIOUS
<1>1. Absent \in [rev : Nat, rec : DispositionInboxRecord]
  BY PendingIsRecord DEF Absent
<1>2. TypeOK
  BY <1>1, InboxBoundsAssumption DEF Init, TypeOK
<1>3. RecordsEncoded
  BY DEF Init, RecordsEncoded, Stored, Absent
<1>4. WritesFollow /\ AttemptIsTheOnlyAuthority
  BY DEF Init, WritesFollow, AttemptIsTheOnlyAuthority
<1> QED
  BY <1>2, <1>3, <1>4 DEF IInv

\* The steps that touch neither the inbox nor its writes.
LEMMA EnvironmentPreserves ==
    ASSUME IInv, UNCHANGED <<inbox, calls, authorized>>, TypeOK'
    PROVE  IInv'
<1>1. RecordsEncoded'
  BY DEF IInv, RecordsEncoded, Stored, Record
<1>2. WritesFollow'
  BY DEF IInv, WritesFollow, WriteFollows, Current, Record
<1>3. AttemptIsTheOnlyAuthority'
  BY DEF IInv, AttemptIsTheOnlyAuthority, Record
<1> QED
  BY <1>1, <1>2, <1>3 DEF IInv

\* An admission creates a pending record that no write follows yet.
LEMMA AdmitPreserves ==
    ASSUME IInv, NEW c \in Command, NEW deadline \in Deadline, AdmitDispositionCommand(c, deadline)
    PROVE  IInv'
<1> DEFINE entry == [rev |-> 1, rec |-> PendingRecord(deadline)]
<1>1. entry \in [rev : Nat, rec : DispositionInboxRecord]
  BY InboxBoundsAssumption, PendingIsRecord
<1>2. /\ inbox \in [Command -> [rev : Nat, rec : DispositionInboxRecord]]
      /\ inbox' = [inbox EXCEPT ![c] = entry]
      /\ inbox[c].rev = 0
      /\ UNCHANGED <<calls, issued, now, authorized, journal, writer>>
  BY DEF AdmitDispositionCommand, IInv, TypeOK, Stored
<1>3. TypeOK'
  BY <1>1, <1>2 DEF IInv, TypeOK
<1>4. inbox'[c] = entry /\ \A d \in Command : d # c => inbox'[d] = inbox[d]
  BY <1>2
<1>5. WellFormed(entry.rec)
  BY DEF WellFormed, PendingRecord, StateCarries, Terminal
<1>6. RecordsEncoded'
  <2> SUFFICES ASSUME NEW d \in Command
               PROVE  IF inbox'[d].rev # 0 THEN WellFormed(inbox'[d].rec) ELSE inbox'[d] = Absent
    BY DEF RecordsEncoded, Stored, Record
  <2> QED
    BY <1>4, <1>5 DEF IInv, RecordsEncoded, Stored, Record
<1>7. WritesFollow'
  <2> SUFFICES ASSUME NEW v \in calls PROVE WriteFollows(v)'
    BY <1>2 DEF WritesFollow
  <2>1. WriteFollows(v) /\ v.cmd \in Command /\ v.rev \in Nat
    BY DEF IInv, WritesFollow, TypeOK, Write
  <2>2. v.cmd # c
    BY <2>1, <1>2 DEF WriteFollows
  <2> QED
    BY <2>1, <2>2, <1>4 DEF WriteFollows, Current, Record
<1>8. AttemptIsTheOnlyAuthority'
  <2>1. inbox[c].rec.attempt = NoAttempt
    BY <1>2 DEF IInv, RecordsEncoded, Stored, Absent, PendingRecord
  <2>2. \A id \in AttemptId : <<c, id>> \notin authorized
    BY <2>1, NoAttemptIdAssumption DEF IInv, AttemptIsTheOnlyAuthority, Record, NoAttempt
  <2> QED
    BY <2>2, <1>2, <1>4 DEF IInv, AttemptIsTheOnlyAuthority, Record
<1> QED
  BY <1>3, <1>6, <1>7, <1>8 DEF IInv

\* One step per operation.
LEMMA StepPreserves == IInv /\ [Next]_vars => IInv'
<1> SUFFICES ASSUME IInv, [Next]_vars PROVE IInv'
  OBVIOUS
<1> USE InboxBoundsAssumption
<1>1. CASE Tick
  BY <1>1, EnvironmentPreserves DEF Tick, IInv, TypeOK
<1>2. CASE AcquireResidency
  BY <1>2, EnvironmentPreserves DEF AcquireResidency, IInv, TypeOK
<1>3. ASSUME NEW c \in Command, NEW d \in Deadline, AdmitDispositionCommand(c, d) PROVE IInv'
  BY <1>3, AdmitPreserves
<1>4. ASSUME NEW c \in Command, ClaimDispositionCommand(c) PROVE IInv'
  <2>1. PICK residency \in ClaimResidency, t \in Reading : \E expires \in (t + 1)..(t + MaxClaimTTL) :
          LET claim == [residency |-> residency, expires |-> expires]
          IN  /\ MayClaim(Record(c), claim, t)
              /\ Prepare(c, residency, Claimed(Record(c), claim))
    BY <1>4 DEF ClaimDispositionCommand
  <2>2. PICK expires \in (t + 1)..(t + MaxClaimTTL) :
          LET claim == [residency |-> residency, expires |-> expires]
          IN  /\ MayClaim(Record(c), claim, t)
              /\ Prepare(c, residency, Claimed(Record(c), claim))
    BY <2>1
  <2> DEFINE claim == [residency |-> residency, expires |-> expires]
  <2>3. t \in Nat /\ residency \in Nat
    BY DEF Reading, ClaimResidency, IInv, TypeOK
  <2>4. claim \in DispositionClaim
    BY <2>3, MaxClaimTTLAssumption DEF DispositionClaim
  <2>5. Record(c) \in DispositionInboxRecord
    BY DEF Record, IInv, TypeOK
  <2>6. Claimed(Record(c), claim) \in DispositionInboxRecord
    BY <2>4, <2>5, ClaimedIsRecord
  <2>7. ~Terminal(Record(c).state) /\ Record(c).attempt = NoAttempt /\ Stored(c)
    BY <1>4, <2>2 DEF MayClaim, ClaimDispositionCommand
  <2> QED
    BY <2>2, <2>3, <2>6, <2>7, PreparePreserves
<1>5. ASSUME NEW c \in Command, BeginDispositionAttempt(c) PROVE IInv'
  <2>1. PICK residency \in 1..MaxResidency, epoch \in AttemptJournal, id \in AttemptId, t \in Reading :
          LET attempt == [id |-> id, journal |-> epoch, residency |-> residency]
          IN  /\ MayBegin(Record(c), attempt, t)
              /\ Prepare(c, residency, Applying(Record(c), attempt))
    BY <1>5 DEF BeginDispositionAttempt
  <2> DEFINE attempt == [id |-> id, journal |-> epoch, residency |-> residency]
  <2>2. attempt \in DispositionAttempt /\ residency \in Nat
    BY DEF DispositionAttempt
  <2>3. Record(c) \in DispositionInboxRecord /\ Stored(c)
    BY <1>5 DEF Record, IInv, TypeOK, BeginDispositionAttempt
  <2>4. Applying(Record(c), attempt) \in DispositionInboxRecord
    BY <2>2, <2>3, ApplyingIsRecord
  <2>5. Record(c).state = "claimed" /\ Record(c).attempt = NoAttempt
    BY <2>1, <2>3 DEF MayBegin, IInv, RecordsEncoded, WellFormed, StateCarries, Terminal
  <2> QED
    BY <2>1, <2>2, <2>3, <2>4, <2>5, PreparePreserves DEF Terminal
<1>6. ASSUME NEW c \in Command, RejectDispositionCommand(c) PROVE IInv'
  <2>1. PICK residency \in 0..MaxResidency, t \in Reading :
          /\ Stored(c)
          /\ MayReject(Record(c), residency, t)
          /\ Prepare(c, residency, Rejected(Record(c)))
    BY <1>6 DEF RejectDispositionCommand, RejectAt
  <2>2. Record(c) \in DispositionInboxRecord
    BY DEF Record, IInv, TypeOK
  <2> QED
    BY <2>1, <2>2, RejectedIsRecord, PreparePreserves DEF MayReject
<1>7. ASSUME NEW c \in Command, SettleDispositionCommand(c) PROVE IInv'
  <2>1. PICK residency \in 1..MaxResidency, e \in ReadDispositionEvidence(journal, c, Record(c).attempt) :
          Prepare(c, residency, Settled(Record(c), e, residency))
    BY <1>7 DEF SettleDispositionCommand
  <2>2. /\ Stored(c) /\ Record(c).state = "applying"
        /\ Record(c) \in DispositionInboxRecord /\ residency \in Nat
    BY <1>7 DEF SettleDispositionCommand, Record, IInv, TypeOK
  <2>3. e \in DispositionEvidence
    BY EvidenceIsEvidence DEF IInv, TypeOK
  <2>4. Settled(Record(c), e, residency) \in DispositionInboxRecord
    BY <2>2, <2>3, SettledIsRecord
  <2>5. /\ Settled(Record(c), e, residency).attempt = Record(c).attempt
        /\ Settled(Record(c), e, residency).claim = Record(c).claim
        /\ Terminal(Settled(Record(c), e, residency).state)
    BY <2>2 DEF Settled, DispositionInboxRecord, Terminal, TerminalState
  <2> QED
    BY <2>1, <2>2, <2>4, <2>5, PreparePreserves DEF Terminal
<1>8. ASSUME NEW w \in calls, CommitAcknowledged(w) PROVE IInv'
  BY <1>8, CommitPreserves DEF CommitAcknowledged
<1>9. ASSUME NEW w \in calls, CommitUnacknowledged(w) PROVE IInv'
  BY <1>9, CommitPreserves DEF CommitUnacknowledged
<1>10. ASSUME NEW w \in calls, CommitFailed(w) PROVE IInv'
  <2>1. calls' \subseteq calls /\ UNCHANGED <<inbox, issued, now, authorized, journal, writer>>
    BY <1>10 DEF CommitFailed
  <2>2. TypeOK'
    BY <2>1 DEF IInv, TypeOK
  <2>3. WritesFollow'
    BY <2>1 DEF IInv, WritesFollow, WriteFollows, Current, Record
  <2>4. RecordsEncoded' /\ AttemptIsTheOnlyAuthority'
    BY <2>1 DEF IInv, RecordsEncoded, AttemptIsTheOnlyAuthority, Stored, Record
  <2> QED
    BY <2>2, <2>3, <2>4 DEF IInv
<1>11. CASE OpenRuntimeJournal
  <2>1. OpeningFence(writer') \in Frame /\ writer' \in 0..MaxJournalEpoch
    BY <1>11 DEF OpenRuntimeJournal, OpeningFence, Frame, IInv, TypeOK
  <2>2. journal' \in Seq(Frame)
    BY <1>11, <2>1 DEF OpenRuntimeJournal, IInv, TypeOK
  <2> QED
    BY <1>11, <2>1, <2>2, EnvironmentPreserves DEF OpenRuntimeJournal, IInv, TypeOK
<1>12. ASSUME NEW c \in Command, NEW kind \in OutcomeKind, NEW lease \in 1..MaxJournalEpoch,
              RuntimeAnswers(c, kind, lease)
       PROVE  IInv'
  <2>1. Record(c).attempt \in DispositionAttempt
    BY DEF Record, IInv, TypeOK, DispositionInboxRecord
  <2>2. CommandDisposition(c, Record(c).attempt, kind, lease, writer) \in Frame
    BY <2>1 DEF CommandDisposition, Frame, DispositionAttempt, IInv, TypeOK
  <2>3. journal' \in Seq(Frame)
    BY <1>12, <2>2 DEF RuntimeAnswers, IInv, TypeOK
  <2> QED
    BY <1>12, <2>3, EnvironmentPreserves DEF RuntimeAnswers, IInv, TypeOK
<1>13. CASE UNCHANGED vars
  BY <1>13, EnvironmentPreserves DEF vars, IInv, TypeOK
<1> QED
  BY <1>1, <1>2, <1>3, <1>4, <1>5, <1>6, <1>7, <1>8, <1>9, <1>10, <1>11, <1>12, <1>13 DEF Next

-----------------------------------------------------------------------------
LEMMA Invariance == Spec => []IInv
BY InitEstablishes, StepPreserves, PTL DEF Spec

\* Every reachable state of the inbox, its calls and the journal is well typed:
\* no guard or transition prepares a record outside the stored shape.
THEOREM TypeCorrect == Spec => []TypeOK
<1>1. IInv => TypeOK
  BY DEF IInv
<1> QED
  BY <1>1, Invariance, PTL

\* BeginDispositionAttempt is the only way to a dispatch: whoever was told to
\* dispatch an attempt was told of the one the record holds for good.
THEOREM OneAttemptPerCommand == Spec => []AttemptIsTheOnlyAuthority
<1>1. IInv => AttemptIsTheOnlyAuthority
  BY DEF IInv
<1> QED
  BY <1>1, Invariance, PTL

-----------------------------------------------------------------------------
(* What a Host prepares, a write that fails, the clock and a new grant     *)
(* leave the records, the authority and the journal alone.                 *)

LEMMA HostSteps ==
    ASSUME [Next]_vars
    PROVE  \/ UNCHANGED <<inbox, authorized, journal>>
           \/ UNCHANGED inbox /\ OpenRuntimeJournal
           \/ UNCHANGED journal /\ \E c \in Command, d \in Deadline : AdmitDispositionCommand(c, d)
           \/ UNCHANGED journal /\ \E w \in calls : CommitAcknowledged(w) \/ CommitUnacknowledged(w)
           \/ UNCHANGED inbox /\ \E c \in Command, kind \in OutcomeKind, lease \in 1..MaxJournalEpoch :
                                    RuntimeAnswers(c, kind, lease)
<1> DEFINE Still == UNCHANGED <<inbox, authorized, journal>>
<1>1. Tick \/ AcquireResidency => Still
  BY DEF Tick, AcquireResidency
<1>2. ASSUME NEW c, ClaimDispositionCommand(c) PROVE Still
  BY <1>2 DEF ClaimDispositionCommand, Prepare
<1>3. ASSUME NEW c, BeginDispositionAttempt(c) PROVE Still
  BY <1>3 DEF BeginDispositionAttempt, Prepare
<1>4. ASSUME NEW c, RejectDispositionCommand(c) PROVE Still
  BY <1>4 DEF RejectDispositionCommand, RejectAt, Prepare
<1>5. ASSUME NEW c, SettleDispositionCommand(c) PROVE Still
  BY <1>5 DEF SettleDispositionCommand, Prepare
<1>6. ASSUME NEW w, CommitFailed(w) PROVE Still
  BY <1>6 DEF CommitFailed
<1>7. UNCHANGED vars => Still
  BY DEF vars
<1>8. OpenRuntimeJournal => UNCHANGED inbox
  BY DEF OpenRuntimeJournal
<1>9. ASSUME NEW c, NEW d, AdmitDispositionCommand(c, d) PROVE UNCHANGED journal
  BY <1>9 DEF AdmitDispositionCommand
<1>10. ASSUME NEW w, CommitAcknowledged(w) \/ CommitUnacknowledged(w) PROVE UNCHANGED journal
  BY <1>10 DEF CommitAcknowledged, CommitUnacknowledged
<1>11. ASSUME NEW c, NEW kind, NEW lease, RuntimeAnswers(c, kind, lease) PROVE UNCHANGED inbox
  BY <1>11 DEF RuntimeAnswers
<1> QED
  BY <1>1, <1>2, <1>3, <1>4, <1>5, <1>6, <1>7, <1>8, <1>9, <1>10, <1>11 DEF Next

-----------------------------------------------------------------------------
(* A step changes a record only by installing a write that was decided on  *)
(* it, which keeps the attempt and finds the record unsettled.             *)

AttemptAndTerminalKept ==
    \A c \in Command :
        /\ Terminal(Record(c).state) => inbox'[c] = inbox[c]
        /\ Record(c).attempt # NoAttempt =>
              /\ Record(c)'.attempt = Record(c).attempt
              /\ Record(c)'.claim = Record(c).claim

\* A write that lands keeps the attempt and the terminal state of its row.
LEMMA InstallKeeps ==
    ASSUME IInv, NEW w \in calls, Current(w), Install(w)
    PROVE  AttemptAndTerminalKept
<1>1. WriteFollows(w) /\ w.cmd \in Command
  BY DEF IInv, WritesFollow, TypeOK, Write
<1>2. /\ inbox'[w.cmd].rec = w.rec
      /\ \A c \in Command : c # w.cmd => inbox'[c] = inbox[c]
  BY <1>1 DEF Install, IInv, TypeOK
<1> QED
  BY <1>1, <1>2 DEF WriteFollows, AttemptAndTerminalKept, Record

\* So does every step.
LEMMA StepKeeps == IInv /\ [Next]_vars => AttemptAndTerminalKept
<1> SUFFICES ASSUME IInv, [Next]_vars PROVE AttemptAndTerminalKept
  OBVIOUS
<1>1. ASSUME NEW w \in calls, CommitAcknowledged(w) \/ CommitUnacknowledged(w)
      PROVE  AttemptAndTerminalKept
  BY <1>1, InstallKeeps DEF CommitAcknowledged, CommitUnacknowledged
<1>2. ASSUME NEW c \in Command, NEW d \in Deadline, AdmitDispositionCommand(c, d)
      PROVE  AttemptAndTerminalKept
  <2>1. Record(c) = PendingRecord(0)
    BY <1>2 DEF AdmitDispositionCommand, IInv, RecordsEncoded, Record, Absent, Stored
  <2>2. Record(c).state = "pending" /\ Record(c).attempt = NoAttempt
    BY <2>1 DEF PendingRecord
  <2>3. \A e \in Command : e # c => inbox'[e] = inbox[e]
    BY <1>2 DEF AdmitDispositionCommand, IInv, TypeOK
  <2> QED
    BY <2>2, <2>3 DEF AttemptAndTerminalKept, Record, Terminal
<1>3. CASE UNCHANGED inbox
  BY <1>3 DEF AttemptAndTerminalKept, Record
<1> QED
  BY <1>1, <1>2, <1>3, HostSteps

\* commitDispositionTransition writes at the revision it read: no settled
\* command is ever settled again, and no attempt, nor the claim it was begun
\* under, is ever replaced.
THEOREM SettledForever == Spec => AttemptAndTerminalAreForever
<1>1. IInv /\ [Next]_vars => [AttemptAndTerminalKept]_vars
  BY StepKeeps
<1>2. [AttemptAndTerminalKept]_vars =>
      [\A c \in Command :
          /\ Terminal(Record(c).state) => inbox'[c] = inbox[c]
          /\ Record(c).attempt # NoAttempt =>
                /\ Record(c)'.attempt = Record(c).attempt
                /\ Record(c)'.claim = Record(c).claim]_vars
  BY DEF AttemptAndTerminalKept
<1> QED
  BY <1>1, <1>2, Invariance, PTL DEF Spec, AttemptAndTerminalAreForever

-----------------------------------------------------------------------------
(* Encoding never refuses what the guards let through.                     *)

\* Every edge into claimed, applying or rejected starts from a record with no
\* attempt, hence with no outcome, and so writes the members its state carries.
\* (validateDispositionState, against the guards of the four transitions.)
THEOREM GuardsEncode == Spec => []GuardsAdmitEncodable
<1>1. ASSUME IInv, NEW c \in Command, Stored(c) PROVE
        /\ Record(c) \in DispositionInboxRecord /\ WellFormed(Record(c))
        /\ ~Terminal(Record(c).state) /\ Record(c).attempt = NoAttempt => Record(c).outcome = NoOutcome
  BY <1>1 DEF IInv, TypeOK, RecordsEncoded, Record, WellFormed, StateCarries
<1>2. ASSUME IInv, NEW c \in Command, Stored(c), NEW residency \in ClaimResidency, NEW expires, NEW t,
             MayClaim(Record(c), [residency |-> residency, expires |-> expires], t)
      PROVE  WellFormed(Claimed(Record(c), [residency |-> residency, expires |-> expires]))
  <2>1. ~Terminal(Record(c).state) /\ Record(c).attempt = NoAttempt /\ residency # 0
    BY <1>2 DEF MayClaim, ValidClaim
  <2> QED
    BY <1>1, <1>2, <2>1
    DEF DispositionInboxRecord, Claimed, WellFormed, StateCarries, ValidClaim, NoClaim
<1>3. ASSUME IInv, NEW c \in Command, Stored(c), NEW attempt, NEW t, MayBegin(Record(c), attempt, t)
      PROVE  WellFormed(Applying(Record(c), attempt))
  <2>1. /\ ValidAttempt(attempt) /\ Record(c).state = "claimed"
        /\ attempt.residency = Record(c).claim.residency
    BY <1>3 DEF MayBegin
  <2>2. /\ Record(c).claim # NoClaim /\ ValidClaim(Record(c).claim) /\ Record(c).outcome = NoOutcome
        /\ attempt # NoAttempt
    BY <1>1, <1>3, <2>1 DEF WellFormed, StateCarries, Terminal, ValidAttempt, NoAttempt
  <2> QED
    BY <1>1, <1>3, <2>1, <2>2 DEF DispositionInboxRecord, Applying, WellFormed, StateCarries
<1>4. ASSUME IInv, NEW c \in Command, Stored(c), NEW residency, NEW t, MayReject(Record(c), residency, t)
      PROVE  WellFormed(Rejected(Record(c)))
  <2>1. ~Terminal(Record(c).state) /\ Record(c).attempt = NoAttempt
    BY <1>4 DEF MayReject
  <2> QED
    BY <1>1, <1>4, <2>1 DEF DispositionInboxRecord, Rejected, WellFormed, StateCarries
<1>5. IInv => GuardsAdmitEncodable
  BY <1>2, <1>3, <1>4 DEF GuardsAdmitEncodable
<1> QED
  BY <1>5, Invariance, PTL

-----------------------------------------------------------------------------
(* Claims.  What a write in flight knows of the claim it may replace: it    *)
(* names an epoch that was issued, never one below the mark, and while the *)
(* claim is live by every clock it was decided by a clock that saw it so.  *)

WriteClaims(w) ==
    /\ HighWater(w.rec) <= issued
    /\ Current(w) =>
          /\ HighWater(Record(w.cmd)) <= HighWater(w.rec)
          /\ Record(w.cmd).state = "claimed" /\ now + Skew < Record(w.cmd).claim.expires =>
                /\ \/ w.rec.claim = Record(w.cmd).claim
                   \/ w.rec.claim.residency > Record(w.cmd).claim.residency
                /\ w.rec.state = "rejected" => w.residency = Record(w.cmd).claim.residency

CInv ==
    /\ \A w \in calls : WriteClaims(w)
    /\ \A c \in Command : HighWater(Record(c)) <= issued

\* Time and issued epochs only grow, which loosens what is asked of a write.
LEMMA ClaimsAge ==
    ASSUME IInv, CInv, TypeOK', UNCHANGED inbox, calls' \subseteq calls,
           now <= now', issued <= issued'
    PROVE  CInv'
<1>1. /\ now \in Nat /\ now' \in Nat /\ issued \in Nat /\ issued' \in Nat /\ Skew \in Nat
  BY InboxBoundsAssumption DEF IInv, TypeOK
<1>2. ASSUME NEW c \in Command
      PROVE  Record(c)' = Record(c) /\ HighWater(Record(c)) \in Nat /\ Record(c).claim.expires \in Nat
  BY DEF IInv, TypeOK, Record, HighWater, DispositionInboxRecord, DispositionClaim
<1>3. ASSUME NEW w \in calls
      PROVE  w.cmd \in Command /\ HighWater(w.rec) \in Nat /\ WriteClaims(w)
  BY DEF IInv, CInv, TypeOK, Write, HighWater, DispositionInboxRecord, DispositionClaim
<1>4. ASSUME NEW w \in calls PROVE WriteClaims(w)'
  <2>1. Current(w)' <=> Current(w)
    BY DEF Current
  <2> QED
    BY <1>1, <1>2, <1>3, <2>1 DEF WriteClaims
<1>5. ASSUME NEW c \in Command PROVE HighWater(Record(c)') <= issued'
  BY <1>1, <1>2 DEF CInv
<1> QED
  BY <1>4, <1>5 DEF CInv

\* Preparing a write that honours the claim it was decided on.
LEMMA PrepareClaims ==
    ASSUME IInv, CInv, NEW c \in Command, NEW residency, NEW next,
           Prepare(c, residency, next),
           HighWater(next) <= issued,
           HighWater(Record(c)) <= HighWater(next),
           Record(c).state = "claimed" /\ now + Skew < Record(c).claim.expires =>
               /\ next.claim = Record(c).claim \/ next.claim.residency > Record(c).claim.residency
               /\ next.state = "rejected" => residency = Record(c).claim.residency
    PROVE  CInv'
<1> DEFINE w == [cmd |-> c, rev |-> inbox[c].rev, rec |-> next, residency |-> residency]
<1>1. calls' = calls \cup {w} /\ UNCHANGED <<inbox, issued, now>>
  BY DEF Prepare
<1>2. w.cmd = c /\ w.rec = next /\ w.residency = residency
  OBVIOUS
<1> HIDE DEF w
<1>3. WriteClaims(w)
  BY <1>2 DEF WriteClaims
<1>4. \A v \in calls' : WriteClaims(v)
  BY <1>1, <1>3 DEF CInv
<1> QED
  BY <1>1, <1>4 DEF CInv, WriteClaims, Current, Record

\* A transition that keeps the claim keeps its mark.
LEMMA KeptClaim ==
    ASSUME IInv, CInv, NEW c \in Command, NEW next, next.claim = Record(c).claim
    PROVE  HighWater(next) <= issued /\ HighWater(Record(c)) <= HighWater(next)
BY DEF CInv, HighWater, IInv, TypeOK, Record, DispositionInboxRecord, DispositionClaim

\* A write that lands was current: the claim it knew of is the one it ends.
LEMMA InstallClaims ==
    ASSUME IInv, CInv, NEW w \in calls, Current(w), Install(w), calls' = calls \ {w},
           UNCHANGED <<issued, now>>
    PROVE  CInv'
<1>1. /\ w.cmd \in Command /\ w.rev \in Nat /\ w.rev = inbox[w.cmd].rev
      /\ inbox \in [Command -> [rev : Nat, rec : DispositionInboxRecord]]
  BY DEF IInv, TypeOK, Write, Current
<1>2. /\ inbox'[w.cmd] = [rev |-> w.rev + 1, rec |-> w.rec]
      /\ \A c \in Command : c # w.cmd => inbox'[c] = inbox[c]
  BY <1>1 DEF Install
<1>3. ASSUME NEW v \in calls' PROVE WriteClaims(v)'
  <2>1. v \in calls /\ WriteClaims(v) /\ v.cmd \in Command /\ v.rev \in Nat /\ v.rev <= inbox[v.cmd].rev
    BY DEF IInv, CInv, TypeOK, Write, WritesFollow, WriteFollows
  <2>2. CASE v.cmd = w.cmd
    BY <1>1, <1>2, <2>1, <2>2 DEF WriteClaims, Current
  <2>3. CASE v.cmd # w.cmd
    BY <1>2, <2>1, <2>3 DEF WriteClaims, Current, Record
  <2> QED
    BY <2>2, <2>3
<1>4. ASSUME NEW c \in Command PROVE HighWater(Record(c)') <= issued'
  BY <1>2 DEF CInv, WriteClaims, Record
<1> QED
  BY <1>3, <1>4 DEF CInv

\* A claim is decided against the mark and against a claim that still holds.
LEMMA ClaimClaims ==
    ASSUME IInv, CInv, NEW c \in Command, ClaimDispositionCommand(c)
    PROVE  CInv'
<1>1. PICK residency \in ClaimResidency, t \in Reading : \E expires \in (t + 1)..(t + MaxClaimTTL) :
          LET claim == [residency |-> residency, expires |-> expires]
          IN  /\ MayClaim(Record(c), claim, t)
              /\ Prepare(c, residency, Claimed(Record(c), claim))
  BY DEF ClaimDispositionCommand
<1>2. PICK expires \in (t + 1)..(t + MaxClaimTTL) :
          LET claim == [residency |-> residency, expires |-> expires]
          IN  /\ MayClaim(Record(c), claim, t)
              /\ Prepare(c, residency, Claimed(Record(c), claim))
  BY <1>1
<1> DEFINE claim == [residency |-> residency, expires |-> expires]
           next == Claimed(Record(c), claim)
<1>3. Stored(c) /\ Record(c) \in DispositionInboxRecord /\ WellFormed(Record(c))
  BY DEF IInv, TypeOK, RecordsEncoded, Record, ClaimDispositionCommand
<1>4. /\ now \in Nat /\ issued \in Nat /\ Skew \in Nat
      /\ residency \in Nat /\ residency <= issued /\ t \in Nat /\ t <= now + Skew
  BY InboxBoundsAssumption DEF ClaimResidency, Reading, IInv, TypeOK
<1>5. /\ next.claim.residency = residency /\ next.state = "claimed"
      /\ Prepare(c, residency, next)
  BY <1>2, <1>3 DEF Claimed, DispositionInboxRecord
<1>6. Record(c).claim.residency \in Nat /\ Record(c).claim.expires \in Nat
  BY <1>3 DEF DispositionInboxRecord, DispositionClaim
<1>7. /\ ~(residency < Record(c).claim.residency)
      /\ ~(ClaimLive(Record(c), t) /\ Record(c).claim.residency = residency)
  BY <1>2 DEF MayClaim, Superseded, HighWater
<1> HIDE DEF next
<1>8. HighWater(next) <= issued /\ HighWater(Record(c)) <= HighWater(next)
  BY <1>4, <1>5, <1>6, <1>7 DEF HighWater
<1>9. Record(c).state = "claimed" /\ now + Skew < Record(c).claim.expires =>
          next.claim.residency > Record(c).claim.residency
  <2> SUFFICES ASSUME Record(c).state = "claimed", now + Skew < Record(c).claim.expires
               PROVE  next.claim.residency > Record(c).claim.residency
    OBVIOUS
  <2>1. Record(c).claim # NoClaim
    BY <1>3 DEF WellFormed, StateCarries, Terminal
  <2>2. ClaimLive(Record(c), t)
    BY <2>1, <1>4, <1>6 DEF ClaimLive
  <2> QED
    BY <2>2, <1>4, <1>5, <1>6, <1>7
<1> QED
  BY <1>5, <1>8, <1>9, PrepareClaims

\* The other transitions keep the claim, and a rejection that finds it live is
\* its holder's.
LEMMA OtherTransitionsClaim ==
    ASSUME IInv, CInv, NEW c \in Command,
           \/ BeginDispositionAttempt(c)
           \/ RejectDispositionCommand(c)
           \/ SettleDispositionCommand(c)
    PROVE  CInv'
<1>1. Record(c) \in DispositionInboxRecord
  BY DEF IInv, TypeOK, Record
<1>2. CASE BeginDispositionAttempt(c)
  <2>1. PICK residency, attempt : Prepare(c, residency, Applying(Record(c), attempt))
    BY <1>2 DEF BeginDispositionAttempt
  <2>2. /\ Applying(Record(c), attempt).claim = Record(c).claim
        /\ Applying(Record(c), attempt).state = "applying"
    BY <1>1 DEF Applying, DispositionInboxRecord
  <2> QED
    BY <2>1, <2>2, KeptClaim, PrepareClaims
<1>3. CASE RejectDispositionCommand(c)
  <2>1. PICK residency \in 0..MaxResidency, t \in Reading :
          /\ Stored(c)
          /\ MayReject(Record(c), residency, t)
          /\ Prepare(c, residency, Rejected(Record(c)))
    BY <1>3 DEF RejectDispositionCommand, RejectAt
  <2>2. Rejected(Record(c)).claim = Record(c).claim
    BY <1>1 DEF Rejected, DispositionInboxRecord
  <2>3. Record(c).state = "claimed" /\ now + Skew < Record(c).claim.expires =>
            residency = Record(c).claim.residency
    <3> SUFFICES ASSUME Record(c).state = "claimed", now + Skew < Record(c).claim.expires
                 PROVE  residency = Record(c).claim.residency
      OBVIOUS
    <3>1. Record(c).claim # NoClaim
      BY <2>1 DEF IInv, RecordsEncoded, WellFormed, StateCarries, Terminal
    <3>2. now \in Nat /\ Skew \in Nat /\ t \in Nat /\ t <= now + Skew /\ Record(c).claim.expires \in Nat
      BY <1>1, InboxBoundsAssumption DEF Reading, IInv, TypeOK, DispositionInboxRecord, DispositionClaim
    <3>3. ClaimLive(Record(c), t)
      BY <3>1, <3>2 DEF ClaimLive
    <3> QED
      BY <2>1, <3>3 DEF MayReject
  <2> QED
    BY <2>1, <2>2, <2>3, KeptClaim, PrepareClaims
<1>4. CASE SettleDispositionCommand(c)
  <2>1. Record(c).state = "applying"
    BY <1>4 DEF SettleDispositionCommand
  <2>2. PICK residency, e : Prepare(c, residency, Settled(Record(c), e, residency))
    BY <1>4 DEF SettleDispositionCommand
  <2>3. Settled(Record(c), e, residency).claim = Record(c).claim
    BY <1>1 DEF Settled, DispositionInboxRecord
  <2> QED
    BY <2>1, <2>2, <2>3, KeptClaim, PrepareClaims
<1> QED
  BY <1>2, <1>3, <1>4

\* No write can be behind a row that did not exist.
LEMMA AdmitClaims ==
    ASSUME IInv, CInv, NEW c \in Command, NEW d \in Deadline, AdmitDispositionCommand(c, d)
    PROVE  CInv'
<1>1. /\ inbox'[c] = [rev |-> 1, rec |-> PendingRecord(d)] /\ inbox[c].rev = 0
      /\ \A b \in Command : b # c => inbox'[b] = inbox[b]
      /\ UNCHANGED <<calls, issued, now>>
  BY DEF AdmitDispositionCommand, IInv, TypeOK, Stored
<1>2. ASSUME NEW v \in calls PROVE WriteClaims(v)'
  <2>1. v.cmd \in Command /\ v.rev \in Nat /\ v.rev # 0 /\ v.rev <= inbox[v.cmd].rev /\ WriteClaims(v)
    BY DEF IInv, CInv, TypeOK, Write, WritesFollow, WriteFollows
  <2>2. v.cmd # c
    BY <1>1, <2>1
  <2> QED
    BY <1>1, <2>1, <2>2 DEF WriteClaims, Current, Record
<1>3. HighWater(PendingRecord(d)) <= issued
  BY DEF HighWater, PendingRecord, NoClaim, IInv, TypeOK
<1> QED
  BY <1>1, <1>2, <1>3 DEF CInv, Record

\* No row, no write: no claim to know of.
LEMMA ClaimsStart == Init => CInv
BY DEF Init, CInv, Record, Absent, PendingRecord, NoClaim, HighWater

\* One step per operation, the clock and the grants included.
LEMMA ClaimsStep == IInv /\ CInv /\ [Next]_vars => CInv'
<1> SUFFICES ASSUME IInv, CInv, [Next]_vars PROVE CInv'
  OBVIOUS
<1>1. IInv' /\ TypeOK' /\ now \in Nat /\ issued \in Nat
  BY StepPreserves DEF IInv, TypeOK
<1>2. ASSUME NEW c \in Command, NEW d \in Deadline, AdmitDispositionCommand(c, d) PROVE CInv'
  BY <1>2, AdmitClaims
<1>3. ASSUME NEW c \in Command,
             \/ ClaimDispositionCommand(c) \/ BeginDispositionAttempt(c)
             \/ RejectDispositionCommand(c) \/ SettleDispositionCommand(c)
      PROVE  CInv'
  BY <1>3, ClaimClaims, OtherTransitionsClaim
<1>4. ASSUME NEW w \in calls, CommitAcknowledged(w) \/ CommitUnacknowledged(w) PROVE CInv'
  BY <1>4, InstallClaims DEF CommitAcknowledged, CommitUnacknowledged
<1>5. ASSUME UNCHANGED inbox, calls' \subseteq calls, now <= now', issued <= issued' PROVE CInv'
  BY <1>1, <1>5, ClaimsAge
<1>6. CASE Tick
  BY <1>1, <1>5, <1>6 DEF Tick
<1>7. CASE AcquireResidency
  BY <1>1, <1>5, <1>7 DEF AcquireResidency
<1>8. ASSUME UNCHANGED <<inbox, now, issued>>, calls' \subseteq calls PROVE CInv'
  BY <1>1, <1>5, <1>8
<1> QED
  BY <1>2, <1>3, <1>4, <1>6, <1>7, <1>8
  DEF Next, vars, CommitFailed, OpenRuntimeJournal, RuntimeAnswers

LEMMA ClaimsInvariance == Spec => [](IInv /\ CInv)
BY InitEstablishes, StepPreserves, ClaimsStart, ClaimsStep, PTL DEF Spec

\* What a step does to a record: nothing, admit it, or install a current write.
LEMMA RecordSteps ==
    ASSUME IInv, [Next]_vars, NEW c \in Command
    PROVE  \/ Record(c)' = Record(c)
           \/ Record(c) = PendingRecord(0)
           \/ \E w \in calls : w.cmd = c /\ Current(w) /\ Record(c)' = w.rec
<1>1. ASSUME NEW b \in Command, NEW d \in Deadline, AdmitDispositionCommand(b, d)
      PROVE  Record(c)' = Record(c) \/ Record(c) = PendingRecord(0)
  <2>1. /\ \A a \in Command : a # b => inbox'[a] = inbox[a]
        /\ inbox[b] = Absent
    BY <1>1 DEF AdmitDispositionCommand, IInv, TypeOK, RecordsEncoded, Stored
  <2> QED
    BY <2>1 DEF Record, Absent
<1>2. ASSUME NEW w \in calls, CommitAcknowledged(w) \/ CommitUnacknowledged(w)
      PROVE  Record(c)' = Record(c) \/ (w.cmd = c /\ Current(w) /\ Record(c)' = w.rec)
  <2>1. w.cmd \in Command /\ Current(w) /\ Install(w)
    BY <1>2 DEF CommitAcknowledged, CommitUnacknowledged, IInv, TypeOK, Write
  <2>2. /\ inbox'[w.cmd].rec = w.rec
        /\ \A a \in Command : a # w.cmd => inbox'[a] = inbox[a]
    BY <2>1 DEF Install, IInv, TypeOK
  <2> QED
    BY <2>1, <2>2 DEF Record
<1>3. CASE UNCHANGED inbox
  BY <1>3 DEF Record
<1> QED
  BY <1>1, <1>2, <1>3, HostSteps

\* dispositionRecordHighWater never falls, whoever writes and however late, and
\* never passes the provider's last epoch: a superseded Host stays superseded
\* and no Host is locked out by an epoch nobody holds.
THEOREM MarkRises == Spec => MarkFollowsTheProvider
<1> DEFINE Rises == \A c \in Command :
              HighWater(Record(c)) <= HighWater(Record(c)') /\ HighWater(Record(c)') <= issued'
<1>1. ASSUME IInv, CInv, IInv', CInv', [Next]_vars PROVE Rises
  <2> SUFFICES ASSUME NEW c \in Command
               PROVE  HighWater(Record(c)) <= HighWater(Record(c)') /\ HighWater(Record(c)') <= issued'
    OBVIOUS
  <2>1. HighWater(Record(c)) \in Nat /\ HighWater(Record(c)') \in Nat
    BY <1>1 DEF IInv, TypeOK, Record, HighWater, DispositionInboxRecord, DispositionClaim
  <2>2. HighWater(Record(c)') <= issued'
    BY <1>1 DEF CInv, Record
  <2>3. HighWater(PendingRecord(0)) = 0
    BY DEF HighWater, PendingRecord, NoClaim
  <2>4. ASSUME NEW w \in calls, w.cmd = c, Current(w), Record(c)' = w.rec
        PROVE  HighWater(Record(c)) <= HighWater(Record(c)')
    BY <1>1, <2>4 DEF CInv, WriteClaims
  <2>5. HighWater(Record(c)) <= HighWater(Record(c)')
    BY <1>1, <2>1, <2>3, <2>4, RecordSteps
  <2> QED
    BY <2>2, <2>5
<1> HIDE DEF Rises
<1>2. IInv /\ CInv /\ IInv' /\ CInv' /\ [Next]_vars => [Rises]_vars
  BY <1>1
<1>3. Spec => [][Rises]_vars
  BY <1>2, ClaimsInvariance, PTL DEF Spec
<1> QED
  BY <1>3 DEF Rises, MarkFollowsTheProvider

\* ClaimDispositionCommand's claim_held and RejectDispositionCommand hold at the
\* commit and not only at the decision: a claim live by every clock is taken
\* only by a higher residency, and rejected only by its holder.
THEOREM ClaimHolds == Spec => LiveClaimExcludes
<1> DEFINE Excludes == \A c \in Command :
              LET held == Record(c).claim
                  next == Record(c)'
              IN  Record(c).state = "claimed" /\ now + Skew < held.expires =>
                    /\ next.claim = held \/ next.claim.residency > held.residency
                    /\ next.state = "rejected" =>
                          \E w \in calls : w.cmd = c /\ w.rec = next /\ w.residency = held.residency
<1>1. ASSUME IInv, CInv, [Next]_vars PROVE Excludes
  <2> SUFFICES ASSUME NEW c \in Command, Record(c).state = "claimed",
                      now + Skew < Record(c).claim.expires
               PROVE  /\ \/ Record(c)'.claim = Record(c).claim
                         \/ Record(c)'.claim.residency > Record(c).claim.residency
                      /\ Record(c)'.state = "rejected" =>
                            \E w \in calls : /\ w.cmd = c /\ w.rec = Record(c)'
                                             /\ w.residency = Record(c).claim.residency
    OBVIOUS
  <2>1. Record(c) # PendingRecord(0)
    BY DEF PendingRecord
  <2>2. CASE Record(c)' = Record(c)
    BY <2>2
  <2>3. ASSUME NEW w \in calls, w.cmd = c, Current(w), Record(c)' = w.rec
        PROVE  /\ \/ Record(c)'.claim = Record(c).claim
                  \/ Record(c)'.claim.residency > Record(c).claim.residency
               /\ Record(c)'.state = "rejected" => w.residency = Record(c).claim.residency
    BY <1>1, <2>3 DEF CInv, WriteClaims
  <2> QED
    BY <1>1, <2>1, <2>2, <2>3, RecordSteps
<1> HIDE DEF Excludes
<1>2. IInv /\ CInv /\ [Next]_vars => [Excludes]_vars
  BY <1>1
<1>3. Spec => [][Excludes]_vars
  BY <1>2, ClaimsInvariance, PTL DEF Spec
<1> QED
  BY <1>3 DEF Excludes, LiveClaimExcludes

-----------------------------------------------------------------------------
(***************************************************************************)
(* A settlement rests on the journal: for every journal the runtime can    *)
(* write, frames that claim a grant that is not their writer's included,   *)
(* an outcome stands on a disposition of the command's own attempt, made   *)
(* by a grant that could make it.                                          *)
(*                                                                         *)
(* The reader never sees who wrote a frame.  What it relies on is that the *)
(* grant whose fence opens a stretch of the log wrote all of that stretch  *)
(* (JournalFenced); the rest is that frames are never rewritten, so what   *)
(* held when the evidence was read holds when the settlement commits.      *)
(***************************************************************************)

JournalFenced ==
    /\ \A f, i \in DOMAIN journal :
          OpenedBy(journal, f, i) /\ ~IsFence(journal[i]) => journal[i].by = journal[f].lease
    /\ \A f \in DOMAIN journal : OpenedBy(journal, f, Len(journal) + 1) => journal[f].lease = writer

\* The frame an outcome of command c names, against the attempt it settles.
StandsOn(log, i, c, attempt) ==
    /\ i \in DOMAIN log /\ ~IsFence(log[i])
    /\ log[i].cmd = c /\ log[i].attempt = attempt.id
    /\ IF log[i].kind = "not_applied" THEN log[i].by > attempt.journal ELSE log[i].by = attempt.journal

Rests(log, c, r) ==
    r.outcome # NoOutcome =>
        LET e == r.outcome.evidence
        IN  StandsOn(log, e.seq, c, r.attempt) /\ log[e.seq].kind = e.kind

OutcomesRest ==
    /\ \A c \in Command : Rests(journal, c, Record(c))
    /\ \A w \in calls : Rests(journal, w.cmd, w.rec)

SInv == JournalFenced /\ OutcomesRest

-----------------------------------------------------------------------------
\* Appending a frame moves no earlier one.
LEMMA AppendKeeps ==
    ASSUME NEW log \in Seq(Frame), NEW x \in Frame
    PROVE  /\ Len(Append(log, x)) = Len(log) + 1
           /\ DOMAIN Append(log, x) = 1..(Len(log) + 1)
           /\ DOMAIN log = 1..Len(log)
           /\ \A i \in DOMAIN log : Append(log, x)[i] = log[i]
           /\ Append(log, x)[Len(log) + 1] = x
OBVIOUS

\* What a log says of its first frames, it says when it is longer.
LEMMA OpenedByKept ==
    ASSUME NEW log \in Seq(Frame), NEW x \in Frame, NEW f \in Nat, NEW i \in 1..(Len(log) + 1)
    PROVE  OpenedBy(Append(log, x), f, i) <=> OpenedBy(log, f, i)
BY AppendKeeps DEF OpenedBy, IsFence

\* An outcome that rests on a frame rests on it in the longer log.
LEMMA RestsKept ==
    ASSUME NEW log \in Seq(Frame), NEW x \in Frame, NEW c, NEW r, Rests(log, c, r)
    PROVE  Rests(Append(log, x), c, r)
BY AppendKeeps DEF Rests, StandsOn, IsFence

\* The journal grows by one frame of its current writer, or by a fence.
LEMMA JournalGrows ==
    ASSUME IInv, SInv, NEW x \in Frame, journal' = Append(journal, x),
           UNCHANGED <<inbox, calls>>,
           IF IsFence(x) THEN writer' = x.lease ELSE x.by = writer /\ writer' = writer
    PROVE  SInv'
<1>1. journal \in Seq(Frame) /\ Len(journal) \in Nat /\ DOMAIN journal = 1..Len(journal)
  BY DEF IInv, TypeOK
<1>2. /\ Len(journal') = Len(journal) + 1
      /\ DOMAIN journal' = 1..(Len(journal) + 1)
      /\ \A i \in DOMAIN journal : journal'[i] = journal[i]
      /\ journal'[Len(journal) + 1] = x
  BY <1>1, AppendKeeps
<1>3. \A f \in Nat : \A i \in 1..(Len(journal) + 1) : OpenedBy(journal', f, i) <=> OpenedBy(journal, f, i)
  BY <1>1, OpenedByKept
<1>4. ASSUME NEW f \in DOMAIN journal', NEW i \in DOMAIN journal',
             OpenedBy(journal', f, i), ~IsFence(journal'[i])
      PROVE  journal'[i].by = journal'[f].lease
  <2>1. f \in DOMAIN journal /\ OpenedBy(journal, f, i)
    BY <1>1, <1>2, <1>3, <1>4 DEF OpenedBy
  <2>2. CASE i \in DOMAIN journal
    BY <2>1, <2>2, <1>2, <1>4 DEF SInv, JournalFenced
  <2>3. CASE i = Len(journal) + 1
    BY <2>1, <2>3, <1>2, <1>4 DEF SInv, JournalFenced
  <2> QED
    BY <2>2, <2>3, <1>1, <1>2
<1>5. ASSUME NEW f \in DOMAIN journal', OpenedBy(journal', f, Len(journal') + 1)
      PROVE  journal'[f].lease = writer'
  <2>1. CASE IsFence(x)
    <3>1. f = Len(journal) + 1
      BY <1>1, <1>2, <1>5, <2>1 DEF OpenedBy
    <3> QED
      BY <3>1, <2>1, <1>2
  <2>2. CASE ~IsFence(x)
    <3>1. f \in DOMAIN journal
      BY <1>1, <1>2, <1>5, <2>2 DEF OpenedBy
    <3>2. OpenedBy(journal, f, Len(journal) + 1)
      BY <1>1, <1>2, <1>5, <3>1 DEF OpenedBy, IsFence
    <3> QED
      BY <3>1, <3>2, <2>2, <1>2 DEF SInv, JournalFenced
  <2> QED
    BY <2>1, <2>2
<1>6. JournalFenced'
  BY <1>4, <1>5 DEF JournalFenced
<1>7. OutcomesRest'
  BY <1>1, RestsKept DEF SInv, OutcomesRest, Record
<1> QED
  BY <1>6, <1>7 DEF SInv

-----------------------------------------------------------------------------
(* The four transitions.                                                   *)

\* A prepared outcome that rests on a frame leaves the rest as it was.
LEMMA PrepareRests ==
    ASSUME SInv, NEW c \in Command, NEW residency, NEW next, Prepare(c, residency, next),
           Rests(journal, c, next)
    PROVE  SInv'
<1>1. UNCHANGED <<inbox, journal, writer>>
  BY DEF Prepare
<1>2. \A w \in calls' : w \in calls \/ (w.cmd = c /\ w.rec = next)
  BY DEF Prepare
<1> QED
  BY <1>1, <1>2 DEF SInv, JournalFenced, OutcomesRest, Record

\* The evidence the reader returns, verified, is a frame a settlement may
\* stand on: the author it reports is the frame's true writer.
LEMMA VerifiedEvidenceStands ==
    ASSUME SInv, NEW c \in Command, NEW attempt,
           NEW e \in ReadDispositionEvidence(journal, c, attempt), Verified(e, attempt)
    PROVE  StandsOn(journal, e.seq, c, attempt) /\ journal[e.seq].kind = e.kind
<1>1. PICK f \in DOMAIN journal, i \in Naming(journal, attempt.id) :
          Attributable(journal, f, i, c) /\ e = EvidenceAt(journal, f, i)
  BY DEF ReadDispositionEvidence
<1>2. i \in DOMAIN journal /\ ~IsFence(journal[i]) /\ journal[i].attempt = attempt.id
  BY <1>1 DEF Naming
<1>3. journal[i].by = journal[f].lease
  BY <1>1, <1>2 DEF Attributable, SInv, JournalFenced
<1>4. e.seq = i /\ e.kind = journal[i].kind /\ e.author = journal[f].lease
  BY <1>1 DEF EvidenceAt, AuthorGrant
<1>5. journal[i].cmd = c
  BY <1>1 DEF Attributable
<1> QED
  BY <1>2, <1>3, <1>4, <1>5 DEF StandsOn, Verified, AuthorFitsKind

\* A settlement is prepared from evidence the journal holds.
LEMMA SettleRests ==
    ASSUME IInv, SInv, NEW c \in Command, SettleDispositionCommand(c)
    PROVE  SInv'
<1>1. PICK residency \in 1..MaxResidency, e \in ReadDispositionEvidence(journal, c, Record(c).attempt) :
          /\ Verified(e, Record(c).attempt)
          /\ Prepare(c, residency, Settled(Record(c), e, residency))
  BY DEF SettleDispositionCommand
<1>2. Record(c) \in DispositionInboxRecord
  BY DEF Record, IInv, TypeOK
<1>3. /\ Settled(Record(c), e, residency).outcome.evidence = e
      /\ Settled(Record(c), e, residency).attempt = Record(c).attempt
  BY <1>2 DEF Settled, DispositionInboxRecord
<1>4. StandsOn(journal, e.seq, c, Record(c).attempt) /\ journal[e.seq].kind = e.kind
  BY <1>1, VerifiedEvidenceStands
<1>5. Rests(journal, c, Settled(Record(c), e, residency))
  BY <1>3, <1>4 DEF Rests
<1> QED
  BY <1>1, <1>5, PrepareRests

\* The other three prepare records with no outcome at all.
LEMMA OtherTransitionsRest ==
    ASSUME IInv, SInv, NEW c \in Command,
           \/ ClaimDispositionCommand(c)
           \/ BeginDispositionAttempt(c)
           \/ RejectDispositionCommand(c)
    PROVE  SInv'
<1>1. Record(c) \in DispositionInboxRecord
  BY DEF Record, IInv, TypeOK
<1>2. CASE ClaimDispositionCommand(c)
  <2>1. PICK residency, claim : Prepare(c, residency, Claimed(Record(c), claim))
    BY <1>2 DEF ClaimDispositionCommand
  <2>2. Rests(journal, c, Claimed(Record(c), claim))
    BY <1>1 DEF SInv, OutcomesRest, Rests, Claimed, DispositionInboxRecord
  <2> QED
    BY <2>1, <2>2, PrepareRests
<1>3. CASE BeginDispositionAttempt(c)
  <2>1. PICK residency, attempt : Prepare(c, residency, Applying(Record(c), attempt))
    BY <1>3 DEF BeginDispositionAttempt
  <2>2. Record(c).state = "claimed" /\ Stored(c)
    BY <1>3 DEF BeginDispositionAttempt, MayBegin
  <2>3. Record(c).outcome = NoOutcome
    BY <2>2 DEF IInv, RecordsEncoded, WellFormed, StateCarries, Terminal
  <2>4. Rests(journal, c, Applying(Record(c), attempt))
    BY <1>1, <2>3 DEF Rests, Applying, DispositionInboxRecord
  <2> QED
    BY <2>1, <2>4, PrepareRests
<1>4. CASE RejectDispositionCommand(c)
  <2>1. PICK residency : Prepare(c, residency, Rejected(Record(c)))
    BY <1>4 DEF RejectDispositionCommand, RejectAt
  <2>2. Rests(journal, c, Rejected(Record(c)))
    BY <1>1 DEF SInv, OutcomesRest, Rests, Rejected, DispositionInboxRecord
  <2> QED
    BY <2>1, <2>2, PrepareRests
<1> QED
  BY <1>2, <1>3, <1>4

\* A write that lands carries the outcome that it was prepared with.
LEMMA InstallRests ==
    ASSUME IInv, SInv, NEW w \in calls, Install(w), calls' = calls \ {w},
           UNCHANGED <<journal, writer>>
    PROVE  SInv'
<1>1. w.cmd \in Command
  BY DEF IInv, TypeOK, Write
<1>2. /\ inbox'[w.cmd].rec = w.rec
      /\ \A c \in Command : c # w.cmd => inbox'[c] = inbox[c]
  BY <1>1 DEF Install, IInv, TypeOK
<1> QED
  BY <1>2 DEF SInv, JournalFenced, OutcomesRest, Record

-----------------------------------------------------------------------------
\* An empty journal and no outcome.
LEMMA SInitEstablishes == Init => SInv
BY DEF Init, SInv, JournalFenced, OutcomesRest, Rests, Record, Absent, PendingRecord

\* One step per operation, the journal's included.
LEMMA SStepPreserves == IInv /\ SInv /\ [Next]_vars => SInv'
<1> SUFFICES ASSUME IInv, SInv, [Next]_vars PROVE SInv'
  OBVIOUS
<1>1. ASSUME NEW c \in Command, NEW d \in Deadline, AdmitDispositionCommand(c, d) PROVE SInv'
  <2>1. /\ inbox'[c].rec = PendingRecord(d)
        /\ \A e \in Command : e # c => inbox'[e] = inbox[e]
        /\ UNCHANGED <<calls, journal, writer>>
    BY <1>1 DEF AdmitDispositionCommand, IInv, TypeOK
  <2>2. Rests(journal, c, PendingRecord(d))
    BY DEF Rests, PendingRecord
  <2> QED
    BY <2>1, <2>2 DEF SInv, JournalFenced, OutcomesRest, Record
<1>2. ASSUME NEW c \in Command,
             \/ ClaimDispositionCommand(c) \/ BeginDispositionAttempt(c)
             \/ RejectDispositionCommand(c) \/ SettleDispositionCommand(c)
      PROVE  SInv'
  BY <1>2, SettleRests, OtherTransitionsRest
<1>3. ASSUME NEW w \in calls, CommitAcknowledged(w) \/ CommitUnacknowledged(w) PROVE SInv'
  BY <1>3, InstallRests DEF CommitAcknowledged, CommitUnacknowledged
<1>4. CASE OpenRuntimeJournal
  <2>1. OpeningFence(writer') \in Frame /\ IsFence(OpeningFence(writer')) /\ OpeningFence(writer').lease = writer'
    BY <1>4 DEF OpenRuntimeJournal, OpeningFence, Frame, IsFence, IInv, TypeOK
  <2> QED
    BY <1>4, <2>1, JournalGrows DEF OpenRuntimeJournal
<1>5. ASSUME NEW c \in Command, NEW kind \in OutcomeKind, NEW lease \in 1..MaxJournalEpoch,
             RuntimeAnswers(c, kind, lease)
      PROVE  SInv'
  <2> DEFINE x == CommandDisposition(c, Record(c).attempt, kind, lease, writer)
  <2>1. Record(c).attempt \in DispositionAttempt
    BY DEF Record, IInv, TypeOK, DispositionInboxRecord
  <2>2. x \in Frame /\ ~IsFence(x) /\ x.by = writer
    BY <2>1 DEF CommandDisposition, Frame, IsFence, DispositionAttempt, IInv, TypeOK
  <2>3. journal' = Append(journal, x) /\ UNCHANGED <<inbox, calls, writer>>
    BY <1>5 DEF RuntimeAnswers
  <2> QED
    BY <2>2, <2>3, JournalGrows
<1>6. CASE UNCHANGED <<inbox, journal, writer>> /\ calls' \subseteq calls
  BY <1>6 DEF SInv, JournalFenced, OutcomesRest, Record
<1> QED
  BY <1>1, <1>2, <1>3, <1>4, <1>5, <1>6
  DEF Next, vars, Tick, AcquireResidency, CommitFailed

LEMMA SInvariance == Spec => []SInv
BY Invariance, SInitEstablishes, SStepPreserves, PTL DEF Spec

\* ReadDispositionEvidence refuses a frame of another command, so no settlement
\* rests on one, whichever attempt ids the Hosts chose.
THEOREM SettlesOwnCommand == Spec => []SettledByOwnDisposition
<1>1. SInv => SettledByOwnDisposition
  BY DEF SInv, OutcomesRest, Rests, StandsOn, SettledByOwnDisposition
<1> QED
  BY <1>1, SInvariance, PTL

\* The author is the opening fence's grant and never the frame's claim: an answer
\* counts only from the attempt's own grant, and a closure only from a later
\* one, which has fenced the attempt's.
THEOREM SettlesByTrueAuthor == Spec => []SettledByTrueAuthor
<1>1. SInv => SettledByTrueAuthor
  BY DEF SInv, OutcomesRest, Rests, StandsOn, SettledByTrueAuthor
<1> QED
  BY <1>1, SInvariance, PTL

-----------------------------------------------------------------------------
(* The ledger.  The refinement needs one thing more of the journal: every  *)
(* disposition in it is the only one of its command, and names the attempt *)
(* that command was given.                                                 *)

FramesOf(c) == {i \in DOMAIN journal : ~IsFence(journal[i]) /\ journal[i].cmd = c}

FramesAnswer ==
    \A c \in Command : \A i \in FramesOf(c) :
        /\ Record(c).attempt # NoAttempt
        /\ journal[i].attempt = Record(c).attempt.id
        /\ FramesOf(c) = {i}

\* The attempt of a command is never replaced, so frames go on naming it.
LEMMA FramesKept ==
    ASSUME IInv, FramesAnswer, [Next]_vars, UNCHANGED journal
    PROVE  FramesAnswer'
<1>1. AttemptAndTerminalKept
  BY StepKeeps
<1>2. \A c \in Command : FramesOf(c)' = FramesOf(c)
  BY DEF FramesOf
<1> QED
  BY <1>1, <1>2 DEF AttemptAndTerminalKept, FramesAnswer

\* A command the runtime may still answer has no frame yet.
LEMMA Unanswered ==
    ASSUME FramesAnswer, NEW c \in Command, NEW kind, NEW lease, RuntimeAnswers(c, kind, lease)
    PROVE  FramesOf(c) = {}
BY DEF FramesAnswer, FramesOf, RuntimeAnswers, Answered, Naming

\* A frame the runtime appends belongs to its own command and moves no other.
LEMMA FrameAppended ==
    ASSUME IInv, NEW x \in Frame, journal' = Append(journal, x), NEW c
    PROVE  /\ FramesOf(c)' = IF ~IsFence(x) /\ x.cmd = c THEN FramesOf(c) \cup {Len(journal) + 1}
                                                          ELSE FramesOf(c)
           /\ journal'[Len(journal) + 1] = x
           /\ \A i \in FramesOf(c) : journal'[i] = journal[i]
           /\ Len(journal) + 1 \notin FramesOf(c)
<1>1. journal \in Seq(Frame) /\ Len(journal) \in Nat
  BY DEF IInv, TypeOK
<1>2. /\ DOMAIN journal' = 1..(Len(journal) + 1) /\ DOMAIN journal = 1..Len(journal)
      /\ \A i \in DOMAIN journal : journal'[i] = journal[i]
      /\ journal'[Len(journal) + 1] = x
  BY <1>1, AppendKeeps
<1>3. DOMAIN journal' = DOMAIN journal \cup {Len(journal) + 1} /\ Len(journal) + 1 \notin DOMAIN journal
  BY <1>1, <1>2
<1> QED
  BY <1>2, <1>3 DEF FramesOf

\* The frame that answers command c, as the runtime appends it.
LEMMA AnswerFrame ==
    ASSUME IInv, NEW c \in Command, NEW kind \in OutcomeKind, NEW lease \in 1..MaxJournalEpoch,
           RuntimeAnswers(c, kind, lease)
    PROVE  LET x == CommandDisposition(c, Record(c).attempt, kind, lease, writer)
           IN  /\ x \in Frame /\ ~IsFence(x) /\ journal' = Append(journal, x)
               /\ x.cmd = c /\ x.attempt = Record(c).attempt.id /\ x.kind = kind /\ x.by = writer
<1>1. Record(c).attempt \in DispositionAttempt
  BY DEF Record, IInv, TypeOK, DispositionInboxRecord
<1> QED
  BY <1>1, InboxBoundsAssumption
  DEF RuntimeAnswers, CommandDisposition, Frame, IsFence, DispositionAttempt, IInv, TypeOK

\* A second disposition of a command is never framed.
LEMMA FramesStep == IInv /\ FramesAnswer /\ [Next]_vars => FramesAnswer'
<1> SUFFICES ASSUME IInv, FramesAnswer, [Next]_vars PROVE FramesAnswer'
  OBVIOUS
<1>1. CASE UNCHANGED journal
  BY <1>1, FramesKept
<1>2. CASE OpenRuntimeJournal
  <2>1. /\ OpeningFence(writer') \in Frame /\ IsFence(OpeningFence(writer'))
        /\ journal' = Append(journal, OpeningFence(writer')) /\ UNCHANGED inbox
    BY <1>2 DEF OpenRuntimeJournal, OpeningFence, Frame, IsFence, IInv, TypeOK
  <2>2. ASSUME NEW b \in Command
        PROVE  /\ FramesOf(b)' = FramesOf(b) /\ Record(b)' = Record(b)
               /\ \A i \in FramesOf(b) : journal'[i] = journal[i]
    BY <2>1, FrameAppended DEF Record
  <2> QED
    BY <2>2 DEF FramesAnswer
<1>3. ASSUME NEW c \in Command, NEW kind \in OutcomeKind, NEW lease \in 1..MaxJournalEpoch,
             RuntimeAnswers(c, kind, lease)
      PROVE  FramesAnswer'
  <2> DEFINE x == CommandDisposition(c, Record(c).attempt, kind, lease, writer)
  <2>1. /\ x \in Frame /\ ~IsFence(x) /\ journal' = Append(journal, x)
        /\ x.cmd = c /\ x.attempt = Record(c).attempt.id
    BY <1>3, AnswerFrame
  <2>2. UNCHANGED inbox /\ Record(c).attempt # NoAttempt
    BY <1>3 DEF RuntimeAnswers
  <2>3. FramesOf(c) = {}
    BY <1>3, Unanswered
  <2> HIDE DEF x
  <2>4. ASSUME NEW b \in Command, NEW i \in FramesOf(b)'
        PROVE  /\ Record(b)'.attempt # NoAttempt
               /\ journal'[i].attempt = Record(b)'.attempt.id
               /\ FramesOf(b)' = {i}
    <3>1. CASE b = c
      BY <3>1, <2>1, <2>2, <2>3, <2>4, FrameAppended DEF Record
    <3>2. CASE b # c
      <4>1. /\ FramesOf(b)' = FramesOf(b) /\ Record(b)' = Record(b)
            /\ \A k \in FramesOf(b) : journal'[k] = journal[k]
        BY <3>2, <2>1, <2>2, FrameAppended DEF Record
      <4> QED
        BY <4>1, <2>4 DEF FramesAnswer
    <3> QED
      BY <3>1, <3>2
  <2> QED
    BY <2>4 DEF FramesAnswer
<1> QED
  BY <1>1, <1>2, <1>3, HostSteps

LEMMA LedgerInvariance == Spec => [](IInv /\ SInv /\ FramesAnswer)
<1>1. Init => FramesAnswer
  BY DEF Init, FramesAnswer, FramesOf
<1> QED
  BY <1>1, FramesStep, Invariance, SInvariance, PTL DEF Spec

-----------------------------------------------------------------------------
(* What the ledger sees of a state.                                        *)

\* A true answer is a frame that stands on the attempt.
LEMMA TrueAnswersStand ==
    ASSUME NEW c, NEW i
    PROVE  i \in TrueAnswers(c) <=> StandsOn(journal, i, c, Record(c).attempt)
BY DEF TrueAnswers, StandsOn, Naming

\* It is a frame of the command.
LEMMA TrueAnswersAreFrames ==
    ASSUME NEW c, NEW i \in TrueAnswers(c)
    PROVE  i \in FramesOf(c)
BY DEF TrueAnswers, FramesOf, Naming

Verdict(kind) ==
    IF kind \in {"applied", "no_op"} THEN "executed" ELSE IF kind = "refused" THEN "refused" ELSE "closed"

\* There is at most one true answer, and it is the ledger's.
LEMMA AnswerIs ==
    ASSUME FramesAnswer, NEW c \in Command, NEW i \in TrueAnswers(c)
    PROVE  LedgerAnswer(c) = Verdict(journal[i].kind)
<1>1. TrueAnswers(c) = {i}
  BY TrueAnswersAreFrames DEF FramesAnswer
<1> QED
  BY <1>1 DEF LedgerAnswer, Verdict

\* What the ledger sees of the journal, and of the record's state.
LEMMA NoAnswer ==
    ASSUME NEW c, TrueAnswers(c) = {}
    PROVE  LedgerAnswer(c) = "none"
BY DEF LedgerAnswer

LEMMA PhaseOfOpen ==
    ASSUME NEW c, Stored(c), Record(c).state \in {"pending", "claimed"}
    PROVE  LedgerPhase(c) = "open"
BY DEF LedgerPhase

LEMMA PhaseOfApplying ==
    ASSUME NEW c, Stored(c), Record(c).state = "applying"
    PROVE  LedgerPhase(c) = "authorized"
BY DEF LedgerPhase

LEMMA PhaseOfTerminal ==
    ASSUME NEW c, Stored(c), Terminal(Record(c).state)
    PROVE  LedgerPhase(c) = Record(c).state
BY DEF LedgerPhase, Terminal

\* What the ledger sees of a command is a function of its entry and its frames.
LEMMA SameEntrySameLedger ==
    ASSUME NEW c, inbox'[c] = inbox[c]
    PROVE  LedgerPhase(c)' = LedgerPhase(c) /\ Record(c)' = Record(c)
BY DEF LedgerPhase, Stored, Record

\* An answer depends on the attempt and the journal alone.
LEMMA SameFramesSameAnswer ==
    ASSUME NEW c, Record(c)'.attempt = Record(c).attempt, UNCHANGED journal
    PROVE  LedgerAnswer(c)' = LedgerAnswer(c)
<1>1. TrueAnswers(c)' = TrueAnswers(c)
  BY DEF TrueAnswers
<1> QED
  BY <1>1 DEF LedgerAnswer

\* A step that leaves all the ledger sees alone is no step of the ledger.
LEMMA MapsToNone ==
    ASSUME UNCHANGED authorized,
           \A c \in Command : /\ LedgerPhase(c)' = LedgerPhase(c)
                              /\ Record(c)'.attempt.id = Record(c).attempt.id
                              /\ LedgerAnswer(c)' = LedgerAnswer(c)
    PROVE  UNCHANGED Ledger!ledgerVars
BY DEF Ledger!ledgerVars

-----------------------------------------------------------------------------
(* The steps of the ledger.                                                *)

\* An admission is the ledger's acceptance.
LEMMA AdmissionAccepts ==
    ASSUME IInv, NEW c \in Command, NEW d \in Deadline, AdmitDispositionCommand(c, d)
    PROVE  Ledger!Accept(c)
<1>1. /\ inbox[c] = Absent /\ inbox'[c] = [rev |-> 1, rec |-> PendingRecord(d)]
      /\ \A b \in Command : b # c => inbox'[b] = inbox[b]
      /\ UNCHANGED <<authorized, journal>>
  BY DEF AdmitDispositionCommand, IInv, TypeOK, RecordsEncoded, Stored
<1>2. LedgerPhase(c) = "absent"
  BY <1>1 DEF LedgerPhase, Stored, Absent
<1>3. LedgerPhase(c)' = "open"
  BY <1>1 DEF LedgerPhase, Stored, Record, PendingRecord
<1>4. Record(c)'.attempt = Record(c).attempt
  BY <1>1 DEF Record, Absent, PendingRecord
<1>5. ASSUME NEW b \in Command, b # c PROVE LedgerPhase(b)' = LedgerPhase(b) /\ Record(b)' = Record(b)
  BY <1>1, <1>5, SameEntrySameLedger
<1>6. ASSUME NEW b \in Command PROVE LedgerAnswer(b)' = LedgerAnswer(b) /\ Record(b)'.attempt = Record(b).attempt
  BY <1>1, <1>4, <1>5, SameFramesSameAnswer
<1> QED
  BY <1>1, <1>2, <1>3, <1>5, <1>6 DEF Ledger!Accept

\* A write that commits withdraws an open command, authorizes its one attempt,
\* settles an authorized one as the runtime answered it, or is a claim, of
\* which the ledger sees nothing.
LEMMA CommitMaps ==
    ASSUME IInv, SInv, FramesAnswer, NEW w \in calls, Current(w), Install(w),
           authorized' = authorized \/ authorized' = authorized \cup Dispatchable(w),
           UNCHANGED journal
    PROVE  [Ledger!LedgerNext]_(Ledger!ledgerVars)
<1> DEFINE c == w.cmd
           n == w.rec
<1>1. /\ c \in Command /\ n \in DispositionInboxRecord /\ WriteFollows(w)
      /\ w.rev \in Nat /\ w.rev # 0 /\ inbox[c].rev # 0
      /\ WellFormed(n) /\ ~Terminal(Record(c).state)
  BY DEF IInv, TypeOK, Write, WritesFollow, WriteFollows, Current
<1>2. /\ inbox'[c] = [rev |-> w.rev + 1, rec |-> n]
      /\ \A b \in Command : b # c => inbox'[b] = inbox[b]
  BY <1>1 DEF Install, IInv, TypeOK
<1>3. /\ Stored(c) /\ Stored(c)' /\ Record(c)' = n
      /\ WellFormed(Record(c)) /\ Record(c) \in DispositionInboxRecord
  BY <1>1, <1>2 DEF Stored, Record, IInv, RecordsEncoded, TypeOK
<1>4. ASSUME NEW b \in Command, b # c
      PROVE  /\ LedgerPhase(b)' = LedgerPhase(b) /\ Record(b)' = Record(b)
             /\ LedgerAnswer(b)' = LedgerAnswer(b)
  BY <1>2, <1>4, SameEntrySameLedger, SameFramesSameAnswer
<1>5. ASSUME n.outcome # NoOutcome
      PROVE  LET i == n.outcome.evidence.seq
             IN  StandsOn(journal, i, c, n.attempt) /\ journal[i].kind = n.outcome.evidence.kind
  BY <1>5 DEF SInv, OutcomesRest, Rests
<1> HIDE DEF c, n
<1>6. CASE Record(c).attempt = NoAttempt
  <2>1. LedgerPhase(c) = "open"
    BY <1>1, <1>3, <1>6, PhaseOfOpen DEF WellFormed, StateCarries, Terminal
  <2>2. FramesOf(c) = {} /\ FramesOf(c)' = {}
    BY <1>1, <1>6 DEF FramesAnswer, FramesOf
  <2>3. \A i : ~StandsOn(journal, i, c, n.attempt)
    BY <2>2 DEF StandsOn, FramesOf
  <2>4. n.outcome = NoOutcome
    BY <1>5, <2>3
  <2>5. TrueAnswers(c) = {} /\ TrueAnswers(c)' = {}
    BY <2>2 DEF FramesOf, TrueAnswers, Naming
  <2>6. LedgerAnswer(c) = "none" /\ LedgerAnswer(c)' = "none"
    BY <2>5, NoAnswer DEF LedgerAnswer
  <2>7. CASE n.state \in {"pending", "claimed"}
    <3>1. n.attempt = NoAttempt /\ authorized' = authorized
      BY <1>1, <2>7 DEF WellFormed, StateCarries, Terminal, Dispatchable, n
    <3>2. LedgerPhase(c)' = "open"
      BY <1>3, <2>7 DEF LedgerPhase
    <3> QED
      BY <1>3, <1>4, <1>6, <2>1, <2>6, <3>1, <3>2, MapsToNone
  <2>8. CASE n.state = "applying"
    <3>1. n.attempt.id \in AttemptId
      BY <1>1, <2>8 DEF WellFormed, StateCarries, Terminal, ValidAttempt, DispositionInboxRecord, DispositionAttempt
    <3>2. LedgerPhase(c)' = "authorized"
      BY <1>3, <2>8 DEF LedgerPhase
    <3>3. authorized' \in {authorized, authorized \cup {<<c, n.attempt.id>>}}
      BY <2>8 DEF Dispatchable, c, n
    <3>4. Ledger!Authorize(c, n.attempt.id)
      BY <1>1, <1>3, <1>4, <2>1, <2>6, <3>2, <3>3 DEF Ledger!Authorize
    <3> QED
      BY <1>1, <3>1, <3>4 DEF Ledger!LedgerNext
  <2>9. CASE Terminal(n.state)
    <3>1. n.state = "rejected" /\ n.attempt = NoAttempt /\ authorized' = authorized
      BY <1>1, <2>4, <2>9 DEF WellFormed, StateCarries, Terminal, Dispatchable, n
    <3>2. LedgerPhase(c)' = "rejected"
      BY <1>3, <3>1 DEF LedgerPhase
    <3>3. Ledger!Withdraw(c)
      BY <1>1, <1>3, <1>4, <1>6, <2>1, <2>6, <3>1, <3>2 DEF Ledger!Withdraw
    <3> QED
      BY <1>1, <3>3 DEF Ledger!LedgerNext
  <2> QED
    BY <1>1, <2>7, <2>8, <2>9 DEF DispositionInboxRecord, InboxState, Terminal
<1>7. CASE Record(c).attempt # NoAttempt
  <2> DEFINE i == n.outcome.evidence.seq
  <2>1. n.attempt = Record(c).attempt /\ Terminal(n.state)
    BY <1>1, <1>7 DEF WriteFollows, c, n
  <2>2. Record(c).state = "applying"
    BY <1>1, <1>3, <1>7 DEF WellFormed, StateCarries
  <2>3. n.outcome # NoOutcome
    BY <1>1, <1>7, <2>1 DEF WellFormed, StateCarries, Terminal
  <2>4. journal[i].kind \in OutcomeKind /\ TerminalState(journal[i].kind) = n.state
    BY <1>1, <1>5, <2>3 DEF WellFormed, ValidOutcome
  <2>5. i \in TrueAnswers(c)
    BY <1>5, <2>1, <2>3, TrueAnswersStand
  <2> HIDE DEF i
  <2>6. LedgerAnswer(c) = Verdict(journal[i].kind)
    BY <1>1, <2>5, AnswerIs
  <2>7. LedgerAnswer(c) # "none" /\ n.state = IF LedgerAnswer(c) = "executed" THEN "applied" ELSE "rejected"
    BY <2>4, <2>6 DEF Verdict, TerminalState
  <2>8. LedgerPhase(c) = "authorized"
    BY <1>3, <2>2, PhaseOfApplying
  <2>9. LedgerPhase(c)' = n.state
    BY <1>3, <2>1 DEF LedgerPhase, Terminal
  <2>10. authorized' = authorized
    BY <2>1 DEF Dispatchable, Terminal, n
  <2>11. LedgerAnswer(c)' = LedgerAnswer(c) /\ Record(c)'.attempt.id = Record(c).attempt.id
    BY <1>3, <2>1, SameFramesSameAnswer
  <2>12. Ledger!Settle(c)
    BY <1>1, <1>4, <2>7, <2>8, <2>9, <2>10, <2>11 DEF Ledger!Settle
  <2> QED
    BY <1>1, <2>12 DEF Ledger!LedgerNext
<1> QED
  BY <1>6, <1>7

\* A frame the runtime writes is the ledger's answer when its writer could give
\* it, and otherwise a frame no ledger, and no settlement, listens to.
LEMMA AnswerMaps ==
    ASSUME IInv, FramesAnswer, NEW c \in Command, NEW kind \in OutcomeKind,
           NEW lease \in 1..MaxJournalEpoch, RuntimeAnswers(c, kind, lease), FramesAnswer'
    PROVE  [Ledger!LedgerNext]_(Ledger!ledgerVars)
<1> DEFINE x == CommandDisposition(c, Record(c).attempt, kind, lease, writer)
           n == Len(journal) + 1
<1>1. /\ x \in Frame /\ ~IsFence(x) /\ journal' = Append(journal, x)
      /\ x.cmd = c /\ x.attempt = Record(c).attempt.id /\ x.kind = kind
  BY AnswerFrame
<1>2. /\ UNCHANGED <<inbox, authorized>>
      /\ Record(c).attempt # NoAttempt
      /\ kind # "not_applied" => <<c, Record(c).attempt.id>> \in authorized
  BY DEF RuntimeAnswers
<1>3. FramesOf(c) = {}
  BY Unanswered
<1> HIDE DEF x, n
<1>4. ASSUME NEW b \in Command
      PROVE  LedgerPhase(b)' = LedgerPhase(b) /\ Record(b)' = Record(b)
  BY <1>2, SameEntrySameLedger
<1>5. ASSUME NEW b \in Command, b # c PROVE LedgerAnswer(b)' = LedgerAnswer(b)
  <2>1. FramesOf(b)' = FramesOf(b) /\ \A k \in FramesOf(b) : journal'[k] = journal[k]
    BY <1>1, <1>5, FrameAppended
  <2>2. ASSUME NEW k PROVE k \in TrueAnswers(b)' <=> k \in TrueAnswers(b)
    BY <1>4, <2>1 DEF TrueAnswers, Naming, FramesOf
  <2>3. TrueAnswers(b)' = TrueAnswers(b) /\ TrueAnswers(b) \subseteq FramesOf(b)
    BY <2>2, TrueAnswersAreFrames
  <2> QED
    BY <2>1, <2>3 DEF LedgerAnswer
<1>6. TrueAnswers(c) = {} /\ LedgerAnswer(c) = "none"
  BY <1>3, TrueAnswersAreFrames, NoAnswer
<1>7. FramesOf(c)' = {n} /\ journal'[n].kind = kind
  BY <1>1, <1>3, FrameAppended DEF n
<1>8. TrueAnswers(c)' \subseteq {n}
  BY <1>7 DEF TrueAnswers, Naming, FramesOf
<1>9. CASE TrueAnswers(c)' = {}
  <2>1. LedgerAnswer(c)' = "none"
    BY <1>9 DEF LedgerAnswer
  <2> QED
    BY <1>2, <1>4, <1>5, <1>6, <2>1, MapsToNone
<1>10. CASE TrueAnswers(c)' = {n}
  <2>1. LedgerAnswer(c)' = Verdict(kind)
    BY <1>7, <1>10 DEF LedgerAnswer, Verdict
  <2>2. Record(c).attempt.id # NoAttemptId
    BY <1>2, <1>10 DEF IInv, RecordsEncoded, WellFormed, ValidAttempt, Stored, Record, Absent, PendingRecord
  <2>3. Verdict(kind) \in {"executed", "refused", "closed"}
    BY DEF Verdict
  <2>4. Verdict(kind) \in {"executed", "refused"} => <<c, Record(c).attempt.id>> \in authorized
    BY <1>2 DEF Verdict
  <2>5. Ledger!Answer(c, Verdict(kind))
    BY <1>2, <1>4, <1>5, <1>6, <2>1, <2>2, <2>4 DEF Ledger!Answer
  <2> QED
    BY <2>3, <2>5 DEF Ledger!LedgerNext
<1> QED
  BY <1>8, <1>9, <1>10

\* Opening a grant answers nobody.
LEMMA FenceMaps ==
    ASSUME IInv, OpenRuntimeJournal
    PROVE  UNCHANGED Ledger!ledgerVars
<1>1. /\ OpeningFence(writer') \in Frame /\ IsFence(OpeningFence(writer'))
      /\ journal' = Append(journal, OpeningFence(writer')) /\ UNCHANGED <<inbox, authorized>>
  BY DEF OpenRuntimeJournal, OpeningFence, Frame, IsFence, IInv, TypeOK
<1>2. ASSUME NEW b \in Command
      PROVE  LedgerPhase(b)' = LedgerPhase(b) /\ Record(b)' = Record(b)
  BY <1>1, SameEntrySameLedger
<1>3. ASSUME NEW b \in Command PROVE LedgerAnswer(b)' = LedgerAnswer(b)
  <2>1. FramesOf(b)' = FramesOf(b) /\ \A k \in FramesOf(b) : journal'[k] = journal[k]
    BY <1>1, FrameAppended
  <2>2. ASSUME NEW k PROVE k \in TrueAnswers(b)' <=> k \in TrueAnswers(b)
    BY <1>2, <2>1 DEF TrueAnswers, Naming, FramesOf
  <2>3. TrueAnswers(b)' = TrueAnswers(b) /\ TrueAnswers(b) \subseteq FramesOf(b)
    BY <2>2, TrueAnswersAreFrames
  <2> QED
    BY <2>1, <2>3 DEF LedgerAnswer
<1> QED
  BY <1>1, <1>2, <1>3, MapsToNone

\* Every step is one of the ledger, or none.
LEMMA NextMaps ==
    ASSUME IInv, SInv, FramesAnswer, [Next]_vars
    PROVE  [Ledger!LedgerNext]_(Ledger!ledgerVars)
<1>1. CASE UNCHANGED <<inbox, authorized, journal>>
  BY <1>1, SameEntrySameLedger, SameFramesSameAnswer, MapsToNone
<1>2. ASSUME NEW c \in Command, NEW d \in Deadline, AdmitDispositionCommand(c, d)
      PROVE  Ledger!LedgerNext
  BY <1>2, AdmissionAccepts DEF Ledger!LedgerNext
<1>3. ASSUME NEW w \in calls, CommitAcknowledged(w) \/ CommitUnacknowledged(w)
      PROVE  [Ledger!LedgerNext]_(Ledger!ledgerVars)
  BY <1>3, CommitMaps DEF CommitAcknowledged, CommitUnacknowledged
<1>4. CASE OpenRuntimeJournal
  BY <1>4, FenceMaps
<1>5. ASSUME NEW c \in Command, NEW kind \in OutcomeKind, NEW lease \in 1..MaxJournalEpoch,
             RuntimeAnswers(c, kind, lease)
      PROVE  [Ledger!LedgerNext]_(Ledger!ledgerVars)
  BY <1>5, FramesStep, AnswerMaps
<1> QED
  BY <1>1, <1>2, <1>3, <1>4, <1>5, HostSteps

\* What the four transitions promise together: a command is given one attempt,
\* only the attempt is dispatched and only by who was told of it, and the
\* command closes as the runtime really answered, whatever its frames claim.
THEOREM ImplementsCommandLedger == Spec => ImplementsLedger
<1>1. Init => Ledger!LedgerInit
  <2> SUFFICES ASSUME Init PROVE Ledger!LedgerInit
    OBVIOUS
  <2>1. \A c \in Command : /\ LedgerPhase(c) = "absent" /\ Record(c).attempt.id = NoAttemptId
                           /\ TrueAnswers(c) = {}
    BY DEF Init, LedgerPhase, Stored, Record, Absent, PendingRecord, NoAttempt, TrueAnswers, Naming
  <2>2. \A c \in Command : LedgerAnswer(c) = "none"
    BY <2>1, NoAnswer
  <2> QED
    BY <2>1, <2>2 DEF Init, Ledger!LedgerInit
<1>2. IInv /\ SInv /\ FramesAnswer /\ [Next]_vars => [Ledger!LedgerNext]_(Ledger!ledgerVars)
  BY NextMaps
<1> QED
  BY <1>1, <1>2, LedgerInvariance, PTL DEF Spec, ImplementsLedger, Ledger!LedgerSpec
-----------------------------------------------------------------------------
(* The state machine in the module's header.                               *)

\* The edges by which a stored record may become another.
Edge(r, next) ==
    /\ next.deadline = r.deadline
    /\ \/ next.state = "claimed" /\ r.state \in {"pending", "claimed"} /\ next.attempt = NoAttempt
       \/ next.state = "applying" /\ r.state = "claimed" /\ next.claim = r.claim
       \/ next.state = "rejected" /\ r.state \in {"pending", "claimed"} /\ next.claim = r.claim
          /\ next.attempt = NoAttempt
       \/ Terminal(next.state) /\ r.state = "applying" /\ next.outcome # NoOutcome
          /\ next.claim = r.claim /\ next.attempt = r.attempt

\* A write that is current takes its record along an edge.
WriteIsEdge(w) == Current(w) => Edge(Record(w.cmd), w.rec)
EInv == \A w \in calls : WriteIsEdge(w)

\* Each operation writes along an edge from the record it read,
LEMMA DecidesAnEdge ==
    ASSUME IInv, NEW c \in Command,
           \/ ClaimDispositionCommand(c) \/ BeginDispositionAttempt(c)
           \/ RejectDispositionCommand(c) \/ SettleDispositionCommand(c)
    PROVE  \E residency, next : Prepare(c, residency, next) /\ Edge(Record(c), next)
<1> DEFINE r == Record(c)
<1>1. r \in DispositionInboxRecord
  BY DEF IInv, TypeOK, Record
<1>2. CASE ClaimDispositionCommand(c)
  <2>1. PICK residency, claim, t : MayClaim(r, claim, t) /\ Prepare(c, residency, Claimed(r, claim))
    BY <1>2 DEF ClaimDispositionCommand
  <2>2. Stored(c) /\ WellFormed(r)
    BY <1>2 DEF ClaimDispositionCommand, IInv, RecordsEncoded
  <2>3. ~Terminal(r.state) /\ r.attempt = NoAttempt
    BY <2>1 DEF MayClaim
  <2>4. r.state \in {"pending", "claimed"}
    BY <1>1, <2>2, <2>3 DEF WellFormed, StateCarries, Terminal, DispositionInboxRecord, InboxState
  <2>5. /\ Claimed(r, claim).state = "claimed" /\ Claimed(r, claim).attempt = r.attempt
        /\ Claimed(r, claim).deadline = r.deadline
    BY <1>1 DEF Claimed, DispositionInboxRecord
  <2>6. Edge(r, Claimed(r, claim))
    BY <2>3, <2>4, <2>5 DEF Edge
  <2> QED BY <2>1, <2>6
<1>3. CASE BeginDispositionAttempt(c)
  <2>1. PICK residency, attempt, t : MayBegin(r, attempt, t) /\ Prepare(c, residency, Applying(r, attempt))
    BY <1>3 DEF BeginDispositionAttempt
  <2>2. r.state = "claimed"
    BY <2>1 DEF MayBegin
  <2>3. /\ Applying(r, attempt).state = "applying" /\ Applying(r, attempt).claim = r.claim
        /\ Applying(r, attempt).deadline = r.deadline
    BY <1>1 DEF Applying, DispositionInboxRecord
  <2>4. Edge(r, Applying(r, attempt))
    BY <2>2, <2>3 DEF Edge
  <2> QED BY <2>1, <2>4
<1>4. CASE RejectDispositionCommand(c)
  <2>1. PICK residency, t : Stored(c) /\ MayReject(r, residency, t) /\ Prepare(c, residency, Rejected(r))
    BY <1>4 DEF RejectDispositionCommand, RejectAt
  <2>2. ~Terminal(r.state) /\ r.attempt = NoAttempt /\ WellFormed(r)
    BY <2>1 DEF MayReject, IInv, RecordsEncoded
  <2>3. r.state \in {"pending", "claimed"}
    BY <1>1, <2>2 DEF WellFormed, StateCarries, Terminal, DispositionInboxRecord, InboxState
  <2>4. /\ Rejected(r).state = "rejected" /\ Rejected(r).claim = r.claim /\ Rejected(r).attempt = r.attempt
        /\ Rejected(r).deadline = r.deadline
    BY <1>1 DEF Rejected, DispositionInboxRecord
  <2>5. Edge(r, Rejected(r))
    BY <2>2, <2>3, <2>4 DEF Edge
  <2> QED BY <2>1, <2>5
<1>5. CASE SettleDispositionCommand(c)
  <2>0. PICK residency \in 1..MaxResidency : \E e : Prepare(c, residency, Settled(r, e, residency))
    BY <1>5 DEF SettleDispositionCommand
  <2>1. PICK e : Prepare(c, residency, Settled(r, e, residency))
    BY <2>0
  <2>2. r.state = "applying"
    BY <1>5 DEF SettleDispositionCommand
  <2>3. /\ Settled(r, e, residency).state = TerminalState(e.kind)
        /\ Settled(r, e, residency).outcome = [evidence |-> e, settling |-> residency]
        /\ Settled(r, e, residency).claim = r.claim /\ Settled(r, e, residency).attempt = r.attempt
        /\ Settled(r, e, residency).deadline = r.deadline
    BY <1>1 DEF Settled, DispositionInboxRecord
  <2>4. [evidence |-> e, settling |-> residency] # NoOutcome
    <3>1. residency # 0 /\ [evidence |-> e, settling |-> residency].settling = residency
      OBVIOUS
    <3> QED BY <3>1 DEF NoOutcome
  <2>5. Terminal(TerminalState(e.kind))
    BY DEF Terminal, TerminalState
  <2>6. Edge(r, Settled(r, e, residency))
    BY <2>2, <2>3, <2>4, <2>5 DEF Edge
  <2> QED BY <2>1, <2>6
<1> QED BY <1>2, <1>3, <1>4, <1>5

\* and loses its comparison if another was written meanwhile.
LEMMA EdgesStep == IInv /\ EInv /\ [Next]_vars => EInv'
<1> SUFFICES ASSUME IInv, EInv, [Next]_vars PROVE EInv'
  OBVIOUS
<1>1. ASSUME UNCHANGED inbox, calls' \subseteq calls PROVE EInv'
  BY <1>1 DEF EInv, WriteIsEdge, Current, Record
<1>2. ASSUME NEW c \in Command,
             \/ ClaimDispositionCommand(c) \/ BeginDispositionAttempt(c)
             \/ RejectDispositionCommand(c) \/ SettleDispositionCommand(c)
      PROVE  EInv'
  <2>1. PICK residency, next : Prepare(c, residency, next) /\ Edge(Record(c), next)
    BY <1>2, DecidesAnEdge
  <2> DEFINE w == [cmd |-> c, rev |-> inbox[c].rev, rec |-> next, residency |-> residency]
  <2>2. calls' = calls \cup {w} /\ UNCHANGED inbox /\ w.cmd = c /\ w.rec = next
    BY <2>1 DEF Prepare
  <2> HIDE DEF w
  <2>3. WriteIsEdge(w)
    BY <2>1, <2>2 DEF WriteIsEdge
  <2> QED BY <2>2, <2>3 DEF EInv, WriteIsEdge, Current, Record
<1>3. ASSUME NEW c \in Command, NEW d \in Deadline, AdmitDispositionCommand(c, d) PROVE EInv'
  <2>1. /\ inbox[c].rev = 0 /\ calls' = calls
        /\ \A b \in Command : b # c => inbox'[b] = inbox[b]
    BY <1>3 DEF AdmitDispositionCommand, IInv, TypeOK, Stored
  <2>2. ASSUME NEW v \in calls PROVE WriteIsEdge(v)'
    <3>1. v.cmd \in Command /\ v.rev \in Nat /\ v.rev # 0 /\ v.rev <= inbox[v.cmd].rev /\ WriteIsEdge(v)
      BY DEF IInv, EInv, TypeOK, Write, WritesFollow, WriteFollows
    <3>2. v.cmd # c
      BY <2>1, <3>1
    <3> QED BY <2>1, <3>1, <3>2 DEF WriteIsEdge, Current, Record
  <2> QED BY <2>1, <2>2 DEF EInv
<1>4. ASSUME NEW w \in calls, CommitAcknowledged(w) \/ CommitUnacknowledged(w) PROVE EInv'
  <2>1. /\ w.cmd \in Command /\ w.rev \in Nat /\ w.rev = inbox[w.cmd].rev
        /\ inbox \in [Command -> [rev : Nat, rec : DispositionInboxRecord]]
        /\ Install(w) /\ calls' = calls \ {w}
    BY <1>4 DEF CommitAcknowledged, CommitUnacknowledged, IInv, TypeOK, Write, Current
  <2>2. /\ inbox'[w.cmd].rev = w.rev + 1
        /\ \A c \in Command : c # w.cmd => inbox'[c] = inbox[c]
    BY <2>1 DEF Install
  <2>3. ASSUME NEW v \in calls PROVE WriteIsEdge(v)'
    <3>1. v.cmd \in Command /\ v.rev \in Nat /\ v.rev <= inbox[v.cmd].rev /\ WriteIsEdge(v)
      BY DEF IInv, EInv, TypeOK, Write, WritesFollow, WriteFollows
    <3>2. CASE v.cmd = w.cmd
      BY <2>1, <2>2, <3>1, <3>2 DEF WriteIsEdge, Current
    <3>3. CASE v.cmd # w.cmd
      BY <2>2, <3>1, <3>3 DEF WriteIsEdge, Current, Record
    <3> QED BY <3>2, <3>3
  <2> QED BY <2>1, <2>3 DEF EInv
<1> QED
  BY <1>1, <1>2, <1>3, <1>4
  DEF Next, vars, Tick, AcquireResidency, CommitFailed, OpenRuntimeJournal, RuntimeAnswers

LEMMA EdgesInvariance == Spec => [](IInv /\ EInv)
<1>1. Init => EInv
  BY DEF Init, EInv
<1> QED BY <1>1, InitEstablishes, StepPreserves, EdgesStep, PTL DEF Spec

OnlyEdges == \A c \in Command : Stored(c) => Record(c)' = Record(c) \/ Edge(Record(c), Record(c)')

\* A stored record moves along the edges of its state machine and no others,
\* however old the decision and whoever wrote meanwhile: nothing is applied that
\* was not claimed, no attempt is withdrawn, and only an outcome ends one.
\* (commitDispositionTransition, under each of the four transitions.)
THEOREM RecordsFollowEdges == Spec => [][OnlyEdges]_vars
<1>1. ASSUME IInv, EInv, [Next]_vars PROVE OnlyEdges
  <2> SUFFICES ASSUME NEW c \in Command, Stored(c) PROVE Record(c)' = Record(c) \/ Edge(Record(c), Record(c)')
    BY DEF OnlyEdges
  <2>1. ASSUME NEW b \in Command, NEW d \in Deadline, AdmitDispositionCommand(b, d) PROVE Record(c)' = Record(c)
    <3>1. b # c
      BY <2>1 DEF AdmitDispositionCommand
    <3> QED BY <2>1, <3>1 DEF AdmitDispositionCommand, IInv, TypeOK, Record
  <2>2. ASSUME NEW w \in calls, CommitAcknowledged(w) \/ CommitUnacknowledged(w)
        PROVE  Record(c)' = Record(c) \/ Edge(Record(c), Record(c)')
    <3>1. w.cmd \in Command /\ Current(w) /\ Install(w) /\ WriteIsEdge(w)
      BY <1>1, <2>2 DEF CommitAcknowledged, CommitUnacknowledged, IInv, EInv, TypeOK, Write
    <3>2. inbox'[w.cmd].rec = w.rec /\ \A a \in Command : a # w.cmd => inbox'[a] = inbox[a]
      BY <1>1, <3>1 DEF Install, IInv, TypeOK
    <3> QED BY <3>1, <3>2 DEF WriteIsEdge, Record
  <2>3. CASE UNCHANGED inbox
    BY <2>3 DEF Record
  <2> QED BY <1>1, <2>1, <2>2, <2>3, HostSteps
<1>2. IInv /\ EInv /\ [Next]_vars => [OnlyEdges]_vars
  BY <1>1
<1> QED BY <1>2, EdgesInvariance, PTL DEF Spec
=============================================================================
