------------------------- MODULE DispositionRecord -------------------------
(***************************************************************************)
(* The durable record of one disposition command, and the rules that are   *)
(* properties of a record rather than of a transition: its codec's         *)
(* validator, its residency mark, whether its claim is live, and what its  *)
(* settlement verifier believes of a piece of evidence.                    *)
(*                                                                         *)
(* Identity, payload, attribution and the accepted instant are immutable   *)
(* descriptor data no transition reads, and are left out.  An absent       *)
(* member (a nil pointer in the code) is a record of its own: the code     *)
(* refuses a zero residency in a claim and an empty attempt id, so neither *)
(* NoClaim nor NoAttempt can be confused with a stored member.             *)
(***************************************************************************)
EXTENDS Integers

CONSTANTS AttemptId,      \* attempt identities a Host may choose
          NoAttemptId,    \* stands for the empty attempt id
          MaxClaimTTL     \* MaxCommandClaimTTL, in ticks of the store's clock

ASSUME NoAttemptIdAssumption == NoAttemptId \notin AttemptId
ASSUME MaxClaimTTLAssumption == MaxClaimTTL \in Nat \ {0}

InboxState == {"pending", "claimed", "applying", "applied", "rejected"}
Terminal(state) == state \in {"applied", "rejected"}

OutcomeKind == {"applied", "no_op", "refused", "not_applied"}
\* Mutant: a refusal counted as the runtime having taken the command.
TerminalStateRefusedApplies(kind) == IF kind = "not_applied" THEN "rejected" ELSE "applied"
TerminalState(kind) == IF kind \in {"applied", "no_op"} THEN "applied" ELSE "rejected"

DispositionClaim == [residency : Nat, expires : Nat]
NoClaim == [residency |-> 0, expires |-> 0]

DispositionAttempt ==
    [id : AttemptId \cup {NoAttemptId}, journal : Nat, residency : Nat]
NoAttempt == [id |-> NoAttemptId, journal |-> 0, residency |-> 0]

\* What a settlement stores, and what the evidence reader reports of the
\* journal: the same members but the residency the settling caller named.
DispositionEvidence ==
    [kind : OutcomeKind \cup {"none"}, attempt : AttemptId \cup {NoAttemptId},
     attemptJournal : Nat, author : Nat, seq : Nat, fenceSeq : Nat]
DispositionOutcome ==
    [evidence : DispositionEvidence, settling : Nat]
NoEvidence == [kind |-> "none", attempt |-> NoAttemptId, attemptJournal |-> 0,
               author |-> 0, seq |-> 0, fenceSeq |-> 0]
NoOutcome == [evidence |-> NoEvidence, settling |-> 0]

DispositionInboxRecord ==
    [state : InboxState, deadline : Nat, claim : DispositionClaim,
     attempt : DispositionAttempt, outcome : DispositionOutcome]

PendingRecord(deadline) ==
    [state |-> "pending", deadline |-> deadline, claim |-> NoClaim,
     attempt |-> NoAttempt, outcome |-> NoOutcome]

-----------------------------------------------------------------------------
(* Who wrote a disposition decides what it may say: the grant the attempt  *)
(* selected answers for itself and names no fence, a recovery closure is   *)
(* written by a strictly later grant and names that grant's opening fence. *)

\* Mutant: no exception for a closure.
AuthorIsTheAttempts(e) == e.author = e.attemptJournal /\ e.fenceSeq = 0
AuthorFitsKind(e) ==
    IF e.kind = "not_applied"
    THEN /\ e.author > e.attemptJournal
         /\ e.fenceSeq # 0 /\ e.fenceSeq < e.seq
    ELSE e.author = e.attemptJournal /\ e.fenceSeq = 0

ValidClaim(claim) == claim.residency # 0

ValidAttempt(attempt) ==
    attempt.id # NoAttemptId /\ attempt.journal # 0 /\ attempt.residency # 0

ValidOutcome(outcome, attempt, state) ==
    LET e == outcome.evidence
    IN  /\ e.kind \in OutcomeKind /\ TerminalState(e.kind) = state
        /\ attempt # NoAttempt
        /\ e.attempt = attempt.id /\ e.attemptJournal = attempt.journal
        /\ e.author # 0 /\ e.seq # 0 /\ outcome.settling # 0
        /\ AuthorFitsKind(e)

\* Which members each state carries.
StateCarries(r) ==
    \/ r.state = "pending" /\ r.claim = NoClaim /\ r.attempt = NoAttempt /\ r.outcome = NoOutcome
    \/ r.state = "claimed" /\ r.claim # NoClaim /\ r.attempt = NoAttempt /\ r.outcome = NoOutcome
    \/ r.state = "applying" /\ r.claim # NoClaim /\ r.attempt # NoAttempt /\ r.outcome = NoOutcome
    \/ Terminal(r.state) /\ r.claim # NoClaim /\ r.attempt # NoAttempt /\ r.outcome # NoOutcome
    \/ r.state = "rejected" /\ r.attempt = NoAttempt /\ r.outcome = NoOutcome

\* validateDispositionState, which encoding and decoding a record both run.
WellFormed(r) ==
    /\ r.claim # NoClaim => ValidClaim(r.claim)
    /\ r.attempt # NoAttempt => ValidAttempt(r.attempt)
    /\ r.outcome # NoOutcome => ValidOutcome(r.outcome, r.attempt, r.state)
    /\ r.claim # NoClaim /\ r.attempt # NoAttempt => r.attempt.residency = r.claim.residency
    /\ StateCarries(r)

-----------------------------------------------------------------------------
\* The residency below which a caller is superseded: the claim's, live or
\* lapsed, and zero without one.
HighWater(r) == r.claim.residency
Superseded(r, residency) == residency < HighWater(r)

\* Mutant: a claim that never lapses.
ClaimHeldForever(r, t) == r.claim # NoClaim
\* Held up to, and not including, the expiry.
ClaimLive(r, t) == r.claim # NoClaim /\ t < r.claim.expires

\* validateBoundedExpiry: in the future of the clock, and not too far.
BoundedExpiry(expires, t) == t < expires /\ expires <= t + MaxClaimTTL

\* Where the due index files a record: at its deadline until it is settled.
DueBy(r, t) == ~Terminal(r.state) /\ r.deadline <= t

\* verifiedDispositionOutcome: what the settlement believes of the evidence,
\* every comparison against the stored attempt.
Verified(e, attempt) ==
    /\ e.kind \in OutcomeKind
    /\ e.attempt = attempt.id
    /\ e.attemptJournal = attempt.journal
    /\ e.seq # 0
    /\ AuthorFitsKind(e)
=============================================================================
