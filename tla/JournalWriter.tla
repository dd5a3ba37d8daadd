--------------------------- MODULE JournalWriter ---------------------------
(***************************************************************************)
(* The session journal's writers: OpenJournal, Append and Close, by any    *)
(* number of processes over one ledger and one lease name.  Each grant of  *)
(* the lease is one OpenJournal call and one JournalWriter.  The code       *)
(* reads the tip once, commits an opening fence by compare-and-swap at      *)
(* exactly that tip, and from then on compares with its own count alone.   *)
(*                                                                         *)
(* The ledger and the leaser are external.  A compare-and-swap the writer  *)
(* sent is on the wire until the ledger applies, refuses or loses it, and  *)
(* may be applied after the writer was told that its outcome is unknown.   *)
(* The lease may lapse at any moment, and the holder learns it later, or   *)
(* never.  Bodies, their validation and their upload before the append are *)
(* left out: a failure there changes nothing here.                         *)
(***************************************************************************)
EXTENDS Integers, Sequences, FiniteSets

CONSTANTS MaxEpoch,    \* bound: grants of the session's journal lease
          MaxLog,      \* bound: records in the ledger
          Content,     \* the identities and bodies a caller may append
          NoContent    \* an opening fence's

ASSUME JournalBoundsAssumption == MaxEpoch \in Nat \ {0} /\ MaxLog \in Nat
ASSUME NoContentAssumption == NoContent \notin Content

VARIABLES log,      \* the ledger: the bytes of each record, and who really wrote it
          wire,     \* compare-and-swaps sent and not yet applied, refused or lost
          writer,   \* each grant's JournalWriter
          issued,   \* the last epoch the leaser granted
          holder,   \* the grant that holds the lease, or zero
          acked     \* what each writer's caller was told is committed, and where

vars == <<log, wire, writer, issued, holder, acked>>

Epoch == 1..MaxEpoch

\* A prefix and a command disposition carry the writer's epoch; a public
\* event and every other kind carry none.
CallerKind == {"application_prefix", "public_event"}
Envelope == [kind : CallerKind, content : Content]
Bytes == [kind : CallerKind \cup {"opening_fence"}, lease : 0..MaxEpoch,
          content : Content \cup {NoContent}]

\* Mutant: nothing tells one grant's opening fence from another's.
AnonymousFence(e) == [kind |-> "opening_fence", lease |-> 0, content |-> NoContent]
Fence(e) == [kind |-> "opening_fence", lease |-> e, content |-> NoContent]
Stamped(e, env) ==
    [kind |-> env.kind, content |-> env.content,
     lease |-> IF env.kind = "application_prefix" THEN e ELSE 0]

Failure == {"none", "fenced", "unknown", "lease_lost"}
Phase == {"unissued", "acquired", "opening", "open", "appending", "closed"}

\* `tracked` is the last sequence this writer committed; before its fence is,
\* the tip it read.
WriterState == [phase : Phase, tracked : Nat, offered : Bytes, failure : Failure]
Call == [by : Epoch, at : Nat, frame : Bytes]

TypeOK ==
    /\ log \in Seq([frame : Bytes, by : Epoch])
    /\ wire \subseteq Call
    /\ writer \in [Epoch -> WriterState]
    /\ issued \in 0..MaxEpoch /\ holder \in 0..MaxEpoch
    /\ acked \subseteq [seq : Nat, by : Epoch, frame : Bytes]

Init ==
    /\ log = << >> /\ wire = {}
    /\ writer = [e \in Epoch |-> [phase |-> "unissued", tracked |-> 0,
                                  offered |-> Fence(e), failure |-> "none"]]
    /\ issued = 0 /\ holder = 0
    /\ acked = {}

-----------------------------------------------------------------------------
(* The leaser and the ledger.                                              *)

\* The grant ends without its holder: expiry, or an operator.
LeaseLapses ==
    /\ holder # 0
    /\ holder' = 0
    /\ UNCHANGED <<log, wire, writer, issued, acked>>

\* The ledger applies a call where its sender expected to, and refuses every
\* other one sent at that sequence.  A lost call stays on the wire for good.
LedgerAppends(call) ==
    /\ Len(log) = call.at /\ Len(log) < MaxLog
    /\ log' = Append(log, [frame |-> call.frame, by |-> call.by])
    /\ wire' = {other \in wire : other.at # call.at}
    /\ UNCHANGED <<writer, issued, holder, acked>>

-----------------------------------------------------------------------------
(* storage.AppendDefinite, as the code relies on it.                       *)

Sent(e) == [by |-> e, at |-> writer[e].tracked, frame |-> writer[e].offered]

Contested(e) == Len(log) > writer[e].tracked
Contester(e) == log[writer[e].tracked + 1].frame

\* The outcome of the compare-and-swap in progress: a conflict or a lost reply
\* is resolved by comparing the bytes at the contested sequence with its own.
AppendDefinite(e, outcome) ==
    \/ /\ outcome = "committed"
       /\ Contested(e) /\ Contester(e) = writer[e].offered
       /\ UNCHANGED wire
    \/ /\ outcome = "fenced"
       /\ Contested(e) /\ Contester(e) # writer[e].offered
       /\ UNCHANGED wire
    \* The contested record cannot be read, or there is none yet.
    \/ /\ outcome = "unknown"
       /\ UNCHANGED wire
    \* The ledger says it did not and will not apply it.
    \/ /\ outcome = "backend"
       /\ Contested(e) => log[writer[e].tracked + 1].by # e
       /\ wire' = wire \ {Sent(e)}

-----------------------------------------------------------------------------
(* OpenJournal.                                                            *)

Acquire(e) ==
    /\ e = issued + 1
    /\ holder = 0
    /\ issued' = e /\ holder' = e
    /\ writer' = [writer EXCEPT ![e].phase = "acquired"]
    /\ UNCHANGED <<log, wire, acked>>

\* Releasing is bounded by a timeout, and its failure is not retried.
Release(e) == holder' \in {holder, IF holder = e THEN 0 ELSE holder}

\* The tip cannot be read.
OpenFails(e) ==
    /\ writer[e].phase = "acquired"
    /\ writer' = [writer EXCEPT ![e].phase = "closed"]
    /\ Release(e)
    /\ UNCHANGED <<log, wire, issued, acked>>

\* One read of the tip and the fence sent at it, whatever became of the lease:
\* whatever commits in between is seen by the compare-and-swap.
OfferFence(e) ==
    /\ writer[e].phase = "acquired"
    /\ writer' = [writer EXCEPT ![e].phase = "opening", ![e].tracked = Len(log),
                                ![e].offered = Fence(e)]
    /\ wire' = wire \cup {[by |-> e, at |-> Len(log), frame |-> Fence(e)]}
    /\ UNCHANGED <<log, issued, holder, acked>>

Told(e) == acked \cup {[seq |-> writer[e].tracked + 1, by |-> e, frame |-> writer[e].offered]}

FenceCommitted(e) ==
    /\ writer[e].phase = "opening"
    /\ AppendDefinite(e, "committed")
    /\ writer' = [writer EXCEPT ![e].phase = "open", ![e].tracked = @ + 1]
    /\ acked' = Told(e)
    /\ UNCHANGED <<log, issued, holder>>

\* The grant is spent, whatever the reason; nothing is retried under it.
FenceRefused(e) ==
    /\ writer[e].phase = "opening"
    /\ \E outcome \in {"fenced", "unknown", "backend"} :
          /\ AppendDefinite(e, outcome)
          /\ writer' = [writer EXCEPT
                ![e].phase = "closed",
                ![e].failure = IF outcome = "backend" THEN "none" ELSE outcome]
    /\ Release(e)
    /\ UNCHANGED <<log, issued, acked>>

-----------------------------------------------------------------------------
(* Append and Close, which the writer's mutex makes one at a time.         *)

\* Mutant: the tip is read again for every append.
FreshTip(e) == Len(log)
ExpectedTip(e) == writer[e].tracked

\* Holding the lease is no guard: its Lost channel is looked at before the
\* upload, and may not be closed yet.
SendAppend(e, env) ==
    /\ writer[e].phase = "open" /\ writer[e].failure = "none"
    /\ writer' = [writer EXCEPT ![e].phase = "appending", ![e].offered = Stamped(e, env),
                                ![e].tracked = ExpectedTip(e)]
    /\ wire' = wire \cup {[by |-> e, at |-> ExpectedTip(e), frame |-> Stamped(e, env)]}
    /\ UNCHANGED <<log, issued, holder, acked>>

RefuseAfterLoss(e) ==
    /\ writer[e].phase = "open" /\ writer[e].failure = "none"
    /\ holder # e
    /\ writer' = [writer EXCEPT ![e].failure = "lease_lost"]
    /\ UNCHANGED <<log, wire, issued, holder, acked>>

AppendCommitted(e) ==
    /\ writer[e].phase = "appending"
    /\ AppendDefinite(e, "committed")
    /\ writer' = [writer EXCEPT ![e].phase = "open", ![e].tracked = @ + 1]
    /\ acked' = Told(e)
    /\ UNCHANGED <<log, issued, holder>>

\* Mutant: an unknown outcome is left to the caller to retry.
LatchesConflictsOnly(outcome) == outcome = "fenced"
\* A definite backend failure is not latched: the same record may be retried.
Latches(outcome) == outcome \in {"fenced", "unknown"}

AppendRefused(e) ==
    /\ writer[e].phase = "appending"
    /\ \E outcome \in {"fenced", "unknown", "backend"} :
          /\ AppendDefinite(e, outcome)
          /\ writer' = [writer EXCEPT
                ![e].phase = "open",
                ![e].failure = IF Latches(outcome) THEN outcome ELSE @]
    /\ UNCHANGED <<log, issued, holder, acked>>

\* The caller's, or the store's shutdown.
Close(e) ==
    /\ writer[e].phase = "open"
    /\ writer' = [writer EXCEPT ![e].phase = "closed"]
    /\ Release(e)
    /\ UNCHANGED <<log, wire, issued, acked>>

-----------------------------------------------------------------------------
Next ==
    \/ LeaseLapses
    \/ \E call \in wire : LedgerAppends(call)
    \/ \E e \in Epoch :
          \/ Acquire(e) \/ OpenFails(e) \/ OfferFence(e)
          \/ FenceCommitted(e) \/ FenceRefused(e)
          \/ \E env \in Envelope : SendAppend(e, env)
          \/ RefuseAfterLoss(e) \/ AppendCommitted(e) \/ AppendRefused(e)
          \/ Close(e)

Spec == Init /\ [][Next]_vars
-----------------------------------------------------------------------------
(* Safety.                                                                 *)

\* Whatever a writer reports as committed is its own record, at the sequence it
\* reports: identical bytes of another writer are never adopted, though a
\* public event's carry no epoch.  (AppendDefinite's comparison, and the fence
\* that ends every run; classifyAppendError.)
AcknowledgedIsOwn ==
    \A a \in acked :
        /\ a.seq \in DOMAIN log
        /\ log[a.seq] = [frame |-> a.frame, by |-> a.by]

\* A writer that may still append has been told of every record of its grant:
\* no record it was left uncertain of can appear behind its back, so a retry
\* never writes one twice.  (JournalWriter.latch.)
LiveWriterKnowsItsRecords ==
    \A e \in Epoch : writer[e].phase = "open" /\ writer[e].failure = "none" =>
        \A i \in DOMAIN log : log[i].by = e =>
            /\ i <= writer[e].tracked
            /\ [seq |-> i, by |-> e, frame |-> log[i].frame] \in acked

\* A writer that stops as fenced was superseded: another grant's record stands
\* where its next one would have, never a late one of its own.
\* (classifyAppendError's JournalErrorFenced.)
FencedMeansSuperseded ==
    \A e \in Epoch : writer[e].failure = "fenced" =>
        log[writer[e].tracked + 1].by # e

\* "failing the grant instead makes epoch order and ledger order agree"
\* (README.md:661-662).
EpochOrderIsLedgerOrder ==
    \A i, j \in DOMAIN log : i < j => log[i].by <= log[j].by
=============================================================================
