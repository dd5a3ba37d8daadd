# A TLA+ model of sessionstore

`sessionstore` is a Go library that keeps the durable state of interactive
sessions over four provider primitives: an append-only ledger with
compare-and-swap, a lease service that grants strictly increasing epochs, an
ordered index of rows with revisions, and a blob store. Many processes use it at
once: *Hosts* run sessions, *reconcilers* sweep for what is overdue, *public*
callers create sessions and submit commands. Nothing is locked. Every promise of
the library is made by a compare-and-swap at a revision somebody read earlier,
by an epoch that fences whoever was superseded, or by the order in which two
rows are written. These modules state those promises, model the code that makes
them with the interleavings and failures that could break them, check the models
with TLC, and prove the most important promises with TLAPS for every value of the
constants.

File names in this document are relative to the repository's root (`src/` in
`PROJECT.json`).

## 1. The system

| Component | State | Operations | Hard behaviour | What makes it correct |
|---|---|---|---|---|
| Disposition inbox (`disposition_inbox.go`, `disposition_claim.go`, `disposition_settlement.go`) | one ordered record per command: state, deadline, claim, attempt, outcome | admit, claim, begin attempt, reject, settle | Hosts racing for one command, lost replies, stale clocks, superseded residencies | one attempt per command, terminal for good, settled as the runtime really answered |
| Disposition evidence (`disposition_evidence.go`) | none (reads the session's journal) | read the evidence for one attempt | frames that claim a grant that is not their writer's, attempt ids used twice | evidence is the command's own and its author is the grant it stands under |
| Disposition due sweep (`disposition_due.go`) | a cursor per pass | list due commands | clocks, paging over a moving index | what is overdue is found |
| Residency grants (`residency.go`) | a lease per grant, an admission per grant | acquire, release, lose, shut down | shutdown racing publication and release, failed release | an epoch is issued, never asserted; no grant outlives the store |
| Journal writer (`journal.go`) | tracked sequence, latched failure, closed flag | open, append, close | leases that lapse unnoticed, lost replies, appends that land late | a grant's records are one run behind its fence; no writer rebases |
| Journal reader (`journal_reader.go`) | a cursor | page forward, page backward | the log grows between pages, scan and byte budgets | pages are a partition of what the tip showed |
| Protocol binding (`session_binding.go`, `keyspace.go`) | immutable witness rows per session and tenant | bind, check | two protocols racing for one session, legacy sessions without a witness | a session has one command protocol for good |
| Catalog (`catalog.go`, `placement.go`) | one row per session: host-owned and desired halves on one revision | create, host update, desired update, generation | replayed requests, two writers of one row | neither half undoes the other; generations only rise |
| Gates (`gates.go`, `shards.go`) | a projection row and a deadline intent per gate | open, resolve, list due, retire remnant | two rows, one crash between them | no open gate loses its deadline, no remnant lives for ever |
| Legacy inbox (`inbox.go`, `inbox_claim.go`) | one ordered record per command | admit, claim, begin applying, complete, reject | settling a command whose Host vanished | never rejected over a committed effect |
| Legacy recovery (`inbox_recovery.go`) | none (scans the journal) | classify a command's correlation | orphaned prefixes, late writers | absence and abandonment are proved, not inferred |
| Public create (`public_create.go`) | a reservation row, then catalog, then inbox | create | a crash between any two | retries converge on the reserved identities |
| Consumption cursor (`consumption.go`), host registry (`registry.go`), session pointers (`pointers.go`), host targets (`host_targets.go`), placement termination (`termination.go`), reconciliation claims (`reconcile.go`) | one fenced row each | save, publish, set, clear, drain, record, acquire, release | delayed calls of superseded callers | an epoch, sequence or generation never falls |
| Due sweep and sharding (`shards.go`, `cursor.go`) | a cursor with a fixed bound | page | resumption, lapses during the pass | nothing due at the bound is missed |
| Objects (`objects.go`, `object_metadata.go`) | a blob and its metadata row; a reader's lifecycle | put, get, read, close | partial puts, close racing reads | visible means stored; the reader ends once |
| Store lifecycle (`store.go`) | admitted operations, shutdown | admit, close | close waiting for what waits for close | close returns and nothing is admitted after it |
| Envelope codec (`envelope.go`, `event.go`) | none (one frame per record) | encode, decode | frames written by a runtime's own encoder, damaged, truncated or out of order | one frame per envelope, one envelope per frame |
| Options, errors, tooling | none | pure | – | – |

How they interact: every operation is admitted by the **store**, binds the
session's **protocol** and witnesses, and then touches its own rows. A **Host**
acquires a **residency** grant, opens the session's **journal**, claims commands
from an **inbox** under its residency, records its attempt, runs the command,
whose effect the runtime writes to the journal, and settles the command from what
the journal says. A **reconciler** finds overdue commands, gates and claims by
the due index and closes what nobody will. The **catalog** row says where a
session should run and where it does. `PROJECT.json` lists the status of each part and,
under `hazards`, the places where the code could go wrong in ways a test would hardly
reach, each with the properties that would tell. Section 6 says what is left out,
section 7 what comes next.

## 2. Modules

| Module | Models |
|---|---|
| `DispositionRecord` | a disposition command's durable record: the encode-time validator, the residency mark, claim liveness, what a settlement verifies |
| `DispositionEvidence` | the evidence reader, as a relation between a journal and the evidence it yields |
| `DispositionInbox` | the inbox's operations by any number of replicas, the clock, the grants, the runtime; the safety properties |
| `CommandLedger` | abstract: a command is accepted, withdrawn or given one attempt, answered at most once, closed as answered |
| `DispositionLedger` | the refinement: the inbox implements the ledger |
| `DispositionLiveness` | fairness and what must eventually happen |
| `JournalWriter` | OpenJournal, Append and Close by any number of grants over one ledger and one lease name |
| `FencedLog` | abstract: a log of unbroken runs, each behind its grant's fence, whose writers are told of their own records only |
| `JournalFencedLog` | the refinement: the writers implement the fenced log |
| `InboxCorrelation` | what a journal tells of one legacy command, as a relation, and the rules that read it |
| `InboxRecovery` | the recovery scan record by record, over any journal, shown to compute that relation |
| `JournalReader` | a caller's pages of the same journal, forward and backward, with their budgets and cursor |
| `Envelope` | the frame of a record: encoder, decoder and validation over the classes of values they tell apart |
| `Enumeration` | a finite set of numbers in ascending order, as pages and frames list them |
| `JournalReads` | the three together |
| `LegacyInbox` | the legacy inbox's operations by Hosts and reconcilers, the session's journal, the Hosts that write to it; the safety properties |
| `CommandEffects` | abstract: a command has effects until it is settled, and is settled as applied or rejected by what it had |
| `LegacyEffects` | the refinement: inbox and journal together implement it |
| `LegacyLiveness` | fairness and what must eventually happen |
| `ProtocolBinding` | the three rows that reserve a session's protocol and its names, created by racing writers of either protocol; the safety properties |
| `MCProtocolBinding` | its instance: identities, their digests, symmetry |
| `OrderedIndex` | what all rows have in common: a revision, and writes that name it and land later or never |
| `FencedRow` | registration, pointer and consumption cursor: rows under a mark that only rises |
| `CommandConsumption` | the cursor together with the commands it counts, the pages Hosts read and a provider that answers anyhow |
| `ReconciliationClaim` | the expiring claim by which replicas divide sessions |
| `Placement` | the catalog row's two halves and the record of how a generation ended |
| `PublicCreate` | reservation, catalog row and first command |
| `SessionRows`, `MCSessionRows` | the five together; their instance and its symmetry |
| `HostTargets` | Hosts' advertisements, and the resumable sweep that withdraws lapsed ones |
| `Gates` | a gate's projection and its deadline intent, and the retirement of remnants |
| `DeadlineSweeps` | the two together; fairness |
| `StoreLifecycle` | admission and Close |
| `ResidencyGrants`, `WriterHandles`, `ObjectReaders`, `ObjectPuts` | what holds an admission for longer than a call, and puts |
| `StoreClose` | the five together; fairness |
| `DispositionInboxProofs`, `JournalWriterProofs`, `LegacyInboxProofs`, `ProtocolBindingProofs`, `SessionRowsProofs`, `DeadlineSweepsProofs`, `StoreCloseProofs`, `JournalReadsProofs` | theorems |

Several modules are sums: components that share no state are put in one
specification and a behaviour has the rows of one of them, chosen by `Init`. TLC
explores their sum and not their product. Which part a behaviour has is seen from its
rows or from `told` (`FencedPart`, `GatesPart`, ...), and the properties of a part say so.

### 2.1 Disposition inbox

`inbox[c]` is the ordered row of command `c`: its revision and record (revision
zero: no row). An operation of the code reads a clock, reads the row, runs its
guards, encodes and validates the new record, and compare-and-swaps at the
revision it read. Here that is two steps. The *deciding* actions
(`ClaimDispositionCommand`, `BeginDispositionAttempt`, `RejectDispositionCommand`,
`SettleDispositionCommand`) do everything up to the write and put it in `calls`;
`CommitAcknowledged`, `CommitUnacknowledged` and `CommitFailed` are the provider's
compare-and-swap and what the caller learns of it. Between the two, anything may
happen. A call that crashes, or whose reply is lost, is a `Commit` whose caller is
told nothing. A refused call changes no state and has no step. Admission is one
step, because it is insert-if-absent and names no revision.

`Reading` is the clock an operation holds: the code reads it before the row, so
it may be arbitrarily old, and replicas' clocks may run `Skew` ahead. Residency
epochs are drawn from grants the provider issued (`ClaimResidency`) where the code
takes a grant, and are any number where the code takes a number.

The runtime that dispatches commands and writes their dispositions to the journal
is outside this repository. It is modelled as the weakest thing the code relies
on: writers are fenced, a dispatched attempt is answered at most once, an
unanswered one may be closed by a later grant. `lease` is the grant a frame's
bytes claim and may be false (`ForeignLease`); `by` is who wrote it, which only
properties look at.

Left out: identity, payload, attribution and timestamps, which are immutable and
no transition reads; page tokens; the wording of errors. The runtime command id
and kind are functions of the command.

### 2.2 Journal writer

A grant of the session's journal lease is one OpenJournal call and one
JournalWriter: `writer[e]` holds its phase, tracked sequence, the bytes it last
offered and its latched failure. `log` is the ledger, with each record's bytes
and, for properties, who wrote it. A compare-and-swap that was sent is on the
`wire` until the ledger applies it (`LedgerAppends`) or refuses it because the
sequence is taken; one whose writer was told "unknown" may still land. `AppendDefinite` is
the storage library's resolution of a lost reply or a conflict: it compares the bytes at
the contested sequence with those offered. The lease may lapse at any moment
(`LeaseLapses`); `Lost()` is noticed only when `Append` looks, so holding the lease
is never a guard. The upload of an overflowing body between the lease check and
the append changes nothing here.

### 2.3 Legacy inbox and recovery

`inbox[c]` and `calls` are as in 2.1: an operation decides (`ClaimCommand`,
`BeginApplyingCommand`, `CompleteCommand`, `RejectCommand`), and its
compare-and-swap commits later or fails (`Commit`, `CommitFailed`). The decision
reads the record, a clock that was read earlier (`Reading`) and, for a rejection
or a completion on another grant's behalf, the journal. Record and journal are read
in one step: the code reads the record first, and if the record moves while the
journal is walked the write does not commit, so a decision on the two readings
that can have an effect is one on the later of them.

`journal` is the log `JournalWriter` is proved to keep: a grant opens with a fence
and appends until another's fence follows. The Hosts that append are outside this
repository. They keep the obligations `inbox_recovery.go` states for them: a
prefix is written by a Host that began the application, once, its effect follows
it immediately, and one application is written at a time. They may stop anywhere.
`begun` holds who may still append a prefix. `by` and `of` of an entry say who
really wrote it and which command's effect it is, which only properties and the
same-grant completion look at: that completion is believed by the code, and a Host
is assumed to name an effect it wrote. `LateOpeners` says whether a grant may open
behind its successor's fence, which section 4 shows is possible.

`InboxCorrelation` states what a scan finds (absent, unresolved, conflicted,
committed, abandoned) as a relation over the journal, and `LegacyInbox` uses the
relation. `InboxRecovery` models the scan itself, with its captured tip, its
lookahead of one record and its precedence of outcomes, over journals whose
writers obey *nothing*, and checks that it yields the relation's answer for the
prefix of the journal it captured.

Left out: identity, payload and attribution, the reason of a rejection, the shape
of a correlation key (a prefix's `mapped` says whether it matches the command's
runtime id), the budgets of the walk.

### 2.4 Session protocol binding

Before a session has data three rows are created, each at revision zero and
never written again: a pin of its protocol, a witness of its tenant's identity, a
witness of its own. Their keys are digests (`TenantToken`, `SessionToken`), and
identities may share one. An operation of the code is a `call` that walks the rows
of its `kind`: `bindProtocolMode` alone (`pin`), `bindSessionScopeMode` (`scope`),
or `verifySessionScope` (`verify`), which creates nothing. At each row the walk is
`Read`, for a disposition pin `ReadWitness` and `Recheck`, `Put`, and `Reread` after
an error; every read and every write is a step, and anything may happen between
two. `sent` holds the creations on their way to the provider: one may land or be refused
as a conflict long after its caller was told nothing (`ReplyLost`).
`old` is what binaries older than the pin bound before any of these operations began;
`bindProtocolMode` excludes them from a store that serves disposition
sessions, so they take no step.

Left out: the single-tenant layout, which derives names without digests and
creates none of these rows; the marker of the store's layout, which
`keyspace.initialize` creates in the same manner.

### 2.5 The rows of a session

`OrderedIndex` holds what `registry.go`, `pointers.go`, `consumption.go`,
`reconcile.go`, `catalog.go`, `termination.go`, `public_create.go` and
`host_targets.go` do alike: read a row, run guards, write at the revision read.
`rows` maps a row to its revision and record, `calls` holds the writes that were
prepared and have not arrived. `Offer` is an operation up to its write, `Land` the
provider's compare-and-swap, `Lose` a write that was refused, lost, or whose
caller died; between `Offer` and `Land` anything may happen. Rows are never
deleted outright: a clear or a withdrawal is a tombstone that keeps its mark. `told`
is what callers were told; no operation reads it, the properties compare it with the rows.
`Land` and the caller's learning of it are one step with two outcomes, so that a
reply may be lost; a caller who is shown a row is told what it holds.

*Fenced rows.* `PutHostRegistration`, `SetSessionPointer`,
`SaveDispositionCommandCursor` and the clears, each behind `EpochFence` and, where the
code has one, a sequence or order fence. *Consumption.* Hosts of any epoch page over the
stream with `ListSessionDispositionCommands`; `Answers` is what a provider may answer
(rows again, rows out of order, rows from below the bound, too many, but none left
out), `Damage` a row that no longer decodes. *Claim.* `told[h]` is the instant until
which a replica counts on its claim. *Placement.* The Host's half of the catalog
row goes by epoch and journal tip, the controller's by expected revision and
idempotency key, of which the row remembers the last. `asked` is the revision a
request expects, which its retries repeat. *Public create.* `Reserve`, then
`PreparePublicCreate`, then `AdmitPublicCreate`, each of which any caller may
begin, abandon and begin again with other proposals, beside callers that create the
session and admit the command plainly.

Left out: what a row says beside its fences (routes, workloads, summaries,
hydration), which is one value; the creation of a registration and the like by
insert, which is a write at revision zero.

### 2.6 Deadline sweeps

*Host targets.* `PublishHostTarget` and `DrainHostTarget` are Hosts'; the sweep is
`ReconcileHostTargets` (its clock, read at the beginning), `ListDue` (a page after the
cursor, up to the bound the first pass began with), `ReconcileHostTargetRow` (judged as
listed, written at the listed revision), and what becomes of the write: `Withdraws`,
`Contended`, `Unverified`, `WithdrawalFails`. `EndOfPage` goes on, stops with a cursor
after its pages, or ends the pass. A Host may refresh between any two of these.

*Gates.* A call of `OpenGate`, `ResolveGate` or `RetireGateDeadlineIntent` is a
record in `calls` that walks its stages; each read and each write is a step, and
`Stop` is a crash, a refusal or a failure at any of them. Opening reads the catalog,
commits the intent, restamps one of an earlier attempt, and projects the gate;
resolving clears the projection and then deletes the intent. A retirement is
judged by an intent's age on a clock read before, by the catalog, and written at
the revision that was listed. `Disposition` sessions park a retired intent, so that a
later opening may file it again; legacy ones bury it. `MaxOpenSpan` is how long an
opening may last; `GateAssumption` (`MaxOpenSpan + Skew < MinRemnantAge`) is what the
comment on `MinGateIntentRemnantAge` in `shards.go` requires of the age.

### 2.7 The Store's lifecycle

`admitted` holds what keeps the Store from closing. `Close` refuses newcomers and
cancels, `ActiveWait` waits for every admission, `ProviderClose` follows.
A residency grant (`ResidencyGrants`) is acquired step by step up to its publication,
while the shutdown hook, armed before that, may already release it; its acquirer, its
holder and the hook take the release gate in turn, look again, and call the
provider, which may refuse or lose its answer. A journal writer (`WriterHandles`) has one
mutex for appends, which last as long as the provider does, and for Close; its
admission is given back whatever becomes of the lease. A stream (`ObjectReaders`) ends
once, by a read, by Close or by its context; whoever is first closes the provider's
reader, waits for the reads in it and gives the admission back. A put
(`ObjectPuts`) stores under a drawn generation, verifies, writes the metadata row, and
reads it again after an error; any step may fail, or fail only for its caller.

Left out: the contents of a body beside whether it is what its digest says, chunking.

### 2.8 Reading a journal

`JournalReader` adds pages to `InboxRecovery`'s journal. `PlanJournalRead` captures the
tip, `WalkJournal` reads one page with its own limits; `end` is how far the
provider's cursor went, which may be past the captured tip, because the journal grew,
or short of it. A record counts one unit of the byte budget, a public event two.

`Envelope` abstracts a field's bytes to the classes the codec tells apart (good,
empty, zero, invalid, too narrow, too large, cut off by the frame's end), and counts
each field as one unit of extent. `DecodeEnvelope` is the decoder's order of tests: the
header, the tags and each field's bytes, the set of fields a kind must and may
have, and the validation of what was read. `Changed` is what storage, or a runtime
with an encoder of its own, makes of a frame: another header, or a field
removed, inserted, replaced or swapped.

## 3. Runs

| Run | Instance | Shows |
|---|---|---|
| `disposition_contention` | 1 command, 2 attempt ids, 2 residencies, 2 calls in flight, clock skew 1, fairness | one attempt per command (`AttemptIsTheOnlyAuthority`); the residency mark was issued and never falls (`MarkFollowsTheProvider`); a live claim is neither renewed nor rejected by others (`LiveClaimExcludes`); guards never pass what the encoder refuses (`GuardsAdmitEncodable`); every step is one of the command ledger (`ImplementsLedger`); every command closes, dispatched (`AttemptCloses`) or not (`UnattemptedCommandCloses`) |
| `disposition_settlement` | 2 commands sharing one attempt id, 2 journal grants, frames claiming either | settlements rest on the command's own disposition, by its true author |
| `journal_fencing` | 3 grants, 4 records, prefix and public event | acknowledged records are the writer's own; a live writer knows all its records; "fenced" means superseded; the ledger is a fenced log |
| `journal_epoch_order` (violation) | 2 grants, 2 records | a lapsed grant opens after its successor |
| `journal_reads` | 2 commands, 2 grants, 5 records, Hosts that obey nothing; pages of at most 2 records under two budgets; every valid envelope of every kind, with one change | the scan yields the relation for the journal it captured (`WalkReadsItsSnapshot`); what settlements rest on stands as the journal grows (`FindingsHold`); pages tile the captured journal (`PagesTile`); a frame is read as the envelope it is the one frame of, or refused (`OneFramePerEnvelope`) |
| `legacy_effects` | 1 command, 2 grants that apply and may die, 1 that recovers, 2 calls, clock skew 1, fairness | applied by its own effect; a live claim excludes; inbox and journal implement `CommandEffects`, which has no effect behind a rejection; every command is settled |
| `legacy_late_opener` (violation) | 1 command, 2 grants, the first opens late | a rejected command has an effect |
| `protocol_binding` | 4 sessions of 3 tenants, digests colliding between tenants and between sessions, witnesses of older binaries, 2 calls of either protocol | what is bound is one session's and one protocol's for good; an old session stays legacy; a refusal has a cause |
| `session_rows` | one part at a time: 2 marks and orders, pages of 2; 2 replicas and claims of 2 ticks on skewed clocks; 2 requests, 4 generations; 2 launches with 2 proposals; 2 calls in flight, 5 revisions | what callers were told stands (`ToldStands`); the cursor passes over no command (`NoCommandPassedOver`); no two replicas count on one claim (`OneReplicaReconciles`); neither half of a catalog row is undone and a generation names one desired state (`NeitherHalfUndone`); a retried request becomes one generation (`RequestAppliedOnce`); recorded outcomes stand (`ToldOutcomesStand`); creations converge (`CreateConverges`) |
| `deadline_sweeps` | 2 Hosts of 2 processes each, pages of 1 row, passes of 2 pages; or 1 gate, 2 Hosts in turn, 2 calls; fairness | the sweep takes away no advertisement that stands (`AdvertisementStands`) and all that lapsed (`LapsedIsWithdrawn`); an open gate is due (`OpenGateHasDeadline`); remnants are retired (`RemnantsAreRetired`); a successor's gate write fences (`SuccessorFencesGates`) |
| `gate_overlap` (violation) | 1 gate, resolved by one Host while another opens it | a gate is open with no deadline |
| `store_close` | two grants; a stream with two readers and a Close; two puts; a grant beside a put; a grant beside a writer; fairness | nothing uses a closed provider (`ProviderOutlivesItsUse`); no lease is released twice (`LeaseReleasedOnce`); what can be found, and what a stream ended cleanly on, is whole (`ObjectsAreWhole`); Close ends (`CloseCompletes`) |

Why the bounds are enough. Contention needs two of everything that competes: two
residencies (one supersedes the other), two calls in flight (one is stale when
it commits), two attempt ids (a wrong attempt is possible); a third call only
repeats the staleness of the second. Three ticks, a deadline at the first and
claims of at most two let a claim lapse after the deadline as well as at it.
Settlement needs two commands, for an attempt id used twice, and two journal
grants, for an author and a false claim. The journal needs three grants, so that a
stale writer can be two grants behind and a late opener can stand between two
others, and four records, so that a superseded writer had something to lose after
its fence. The legacy inbox needs two grants that apply, one of which may be
superseded with its prefix written or about to be, and a third, later than both, to
recover; four records hold an orphaned prefix or an application and the fences
around them. `MaxLog` stops only appliers, so the recovering grant can always fence.
A scan is interesting at a prefix followed by another prefix, an event or a fence,
and by a second occurrence of any of these: five records; pages of at most two
records cross every boundary of such a journal. One change to a frame repeats a
field, drops it, moves it, or breaks it, which are the ways for two frames to say the
same; two changes were checked as well, of the codec alone. A name can be wrong in
three ways (another tenant's digest, another session's, both), which four
sessions cover. A row is created by one call and contested by another; the second read
of the pin needs a call of the winner's protocol, which is the other of the two.

A session's row needs a write that is stale when it lands and one that is not (two
calls), two marks and, for an order that must not fall, two orders; a clear and a
write after it fit in five revisions. (Orders up to three were checked as well.) Four
generations, of which the last has none after it, let a request be retried
behind another. A sweep must end a pass with a cursor and be overtaken by a refresh
and by a successor: two Hosts, pages of one row, two ticks. A gate must be opened by
one Host, left by it, opened again by the next, and swept meanwhile. With
`MinRemnantAge` 1 the assumption leaves an opening no tick and no skew; an
opening of one tick under a skew of one, with a remnant age of three, was
checked for safety as well. What a Store waits for does not interact beside the
admissions and the gate they are given back under; `Mix` names what is used
together in one behaviour. The proofs of section 5 have none of these bounds.

The bounds themselves are in the guards: `MaxTime`, `MaxResidency`, `MaxCalls`,
`MaxJournalEpoch` for the disposition inbox; `MaxEpoch`, `MaxLog` for the journal;
these and `MaxTime`, `MaxCalls`, `MaxClaimTTL` for the legacy inbox; `MaxRev`,
`MaxTime`, `MaxCalls` for every row; `MaxAdverts` for Hosts' writes to a target, below
`MaxRev`, so that the sweep always has a revision left, as it has a call and a gate's
sweep has a revision. Because of
them the system may stop, so runs do not check for deadlock. Symmetry is used
on the calls of the protocol binding and on the replicas, outcomes, requests,
launches and proposals of `session_rows`, which nothing tells apart and which no
liveness property is checked with, and nowhere else.

### Fairness

`DispositionLiveness` assumes that the clock advances, that a call returns one way
or another (the code bounds every provider call by its context), that a
reconciler keeps sweeping the due index (strong fairness: it retries whatever
it lost), that the provider does not fail the same caller for ever, and that
the runtime opens a successor journal grant and closes what it finds unanswered,
which is the runtime's recovery contract as `disposition_settlement.go` states it. Nothing is
assumed of Hosts: they may stop after any step.

`LegacyLiveness` assumes the same of the clock, the calls, the provider and the
reconciler, and that a session whose command is stuck is attached once more, by a
grant that recovers what it finds (strong fairness: it retries). Without that the
code promises nothing: only a later grant's fence proves that an orphaned prefix will
never have its effect. Nothing is assumed of the Hosts that apply.

`DeadlineSweeps` assumes that the clock advances, that calls return, that a replica
begins another pass whenever it has none (the code's callers run it periodically) and
goes on with its page, and, strongly, that the provider fails neither its
listings, nor its reads, nor its withdrawals for ever: each may fail any number
of times. Nothing is assumed of Hosts.

`StoreClose` assumes that a goroutine that was started goes on: the steps of an
acquisition, of a release that has begun, of a hook whose context was canceled,
and that a provider's call returns, an append's and a read's only once they are canceled
or closed beneath. A mutex lets a waiting hook in though appends keep taking it
(strong fairness, which `sync.Mutex` grants). Holders and readers do nothing they
need not: nobody is assumed to release a grant, close a stream or close the Store.

No fairness is assumed in the other runs, which check safety.

## 4. Where the code and its documentation disagree

* `README.md:661-662` says that failing a grant whose fence conflicts "makes epoch
  order and ledger order agree", and `inbox_recovery.go:79-82` concludes that a
  fence at epoch F proves every grant below F has lost the stream. OpenJournal does
  not look at its lease between acquiring it and committing its fence at the tip
  it reads in between: a grant that lapsed there opens *behind* its successor's
  fence and becomes the live writer. `EpochOrderIsLedgerOrder` is violated. What
  does hold is the order of runs, not of epochs: a grant that has written is over
  once another's fence follows (`ImplementsFencedLog`).
* The same opener reaches the legacy inbox. `inbox_recovery.go:80-81` and
  `inbox_claim.go:448-450` reject an applying command on the word of a later
  grant's fence. With a late opener `RejectedLeavesNoEffect` is violated: the
  earlier grant opens behind that fence, applies, and the command is both rejected and
  effective. Everything section 5 proves of the legacy inbox assumes that grants
  open in order.
* `gates.go:46-47` says that a gate publicly open with no durable record of its
  deadline "is never produced by these two operations". While one Host opens a gate,
  between its intent and its projection, another Host resolves the same gate: it finds
  no projection, so it has nothing to clear, and deletes the intent; the first then projects.
  `OpenGateHasDeadline` is violated (`gate_overlap`). With one of the two at a time for
  a gate (openings may still overlap) it holds, whatever crashes between the two rows
  (`deadline_sweeps`).

Two more sentences are stronger than the code; nothing is lost by either.
`disposition_claim.go:219-220` says that once the apply deadline has passed no new
claim may start, for every caller: the clock is read before the row, and the
compare-and-swap does not look again, so a claim decided before the deadline may
commit after it. A claim's expiry is still bounded, and `UnattemptedCommandCloses`
holds. `inbox_recovery.go:108-110` and `inbox_claim.go:486-488` say that a Host which
breaks its writer obligations leaves a command unresolved permanently: a walk takes
the strongest outcome it meets, so that a second prefix of the command which an
event follows turns the answer into "committed".

## 5. What is proved

Every safety invariant and every action property of the passing runs is a theorem, and so
is each of the three refinements they check. A fourth refinement (the Store's) and seven
further results, on the measures of calls and the edges of records, are no property of a run and
are named below. Assumptions, all of them the `ASSUME`s of the
modules: the bounds and deadlines are numbers, where the code says so at least one;
placeholders ("no attempt id", "no content", "no command", "no put", "plain", "none")
are not one of what they stand in for; Hosts are numbered, what uses the Store at once has
different names, and so have creations and requests; a session has a tenant, and both have
digests; and a remnant's age exceeds an opening's span and the skew (2.6). Nothing else: any number
of commands, attempts, grants, Hosts, calls in flight, records, any skew and any
deadlines. Four theorems have a hypothesis more, in their statements: `RejectedHasNoEffect`,
`AppliedByOwnEffect` and `ImplementsEffects` of the legacy inbox `~LateOpeners`, and
`OpenGatesAreDue` `~Overlap`. Section 4 shows what happens without `~LateOpeners` and
`~Overlap`.

**Disposition inbox** (`DispositionInboxProofs`): `TypeCorrect`,
`OneAttemptPerCommand`, `SettledForever`, `GuardsEncode`. The safety properties are not
inductive: they say nothing of writes in flight. The invariant `IInv` adds `WritesFollow`: a
write that is still current was decided on the record it would replace, so that
record was not terminal and the write keeps its attempt and the claim the attempt
was begun under; and `RecordsEncoded`: every stored record passed the encoder, so
an attempt is never without its claim. From it, a write that is *not* current
cannot commit, and one that is cannot change what is promised. For `MarkRises` and
`ClaimHolds`, `CInv` says what a write knows of the claim it replaces: it names an epoch that was
issued and, if it is current, none below the mark; while the claim is live by every clock
it keeps it or takes it for a higher residency, and rejects only for its holder.
`RecordsFollowEdges` says that the edges drawn in the module's header are all there are: every
operation writes along an edge from the record it read (`DecidesAnEdge`), and what is still
current is written over that record (`EInv`). No edge leads back, so a record is replaced only
by claims again and again, and otherwise twice at most.

*Settlement*: `SettlesOwnCommand`, `SettlesByTrueAuthor`. The invariant `SInv` says that
a fence's lease is its writer's, that every disposition stands under the fence of the
grant that wrote it, that the journal only grows, and that every stored outcome and
every settlement in flight names a disposition of the command's own attempt.

*Refinement*: `ImplementsCommandLedger`. `FramesAnswer` says that a command has one
disposition frame at most, which names its attempt; so what the runtime answered is a
function of the journal, and one a later frame cannot change. Each step then maps
to a step of `CommandLedger` or leaves it alone: an admission accepts, the commit of an
attempt launches, of a rejection withdraws, of a settlement closes as answered, and a
frame answers (`NextMaps`).

**Journal writer** (`JournalWriterProofs`): `WritersImplementFencedLog`,
`AcknowledgesOwn`, `KnowsItsRecords`, `FencedByAnother`, `TypeCorrect`. What the
properties leave out is the wire. `IInv` says what a call on it may still do: a
fence's grant has no record yet, any other call expects to follow a record of its
own grant, a writer has at most one, and a writer that may append again has none.
A call in progress and its record in the ledger exclude each other, so a reply can
be resolved by bytes alone: a fence carries its epoch, and any other record
follows one of its own grant, so equal bytes mean the same writer.

**Legacy inbox** (`LegacyInboxProofs`): `TypeCorrect`, `RejectedHasNoEffect`,
`AppliedByOwnEffect`, `ApplyingStands`, `MarkNeverFalls`, `LiveClaimHolds`,
`RecordsFollowEdges`, `ImplementsEffects`, which is every safety property of the run
`legacy_effects` and more. What a write knows of the record it replaces (`RowFollows`) does not
rest on the journal, so the theorems about records alone follow from `RInv` in whatever order
grants open. The three that tie a record to its effect assume that grants open in order
(`~LateOpeners`). Their argument turns on
`NoMore(c)`: command `c` has no effect, whoever may still append a prefix of it is
behind another grant's fence, and no prefix of it is at the tip. It is stable: an
effect needs a prefix at the tip, a prefix needs its grant to own the stream, and
a fenced grant never owns it again. `IInv` says that `NoMore` holds of every
rejected command and of every rejection in flight that is still current, that
a grant that may append a prefix began the application under the claim the record
still carries, and that a current completion names an effect that is there. A
rejection reads "absent" or "abandoned" from the journal. If the command is
not applying, nobody began it and nothing can follow. If it is, the claim's own
grant gave the application up, or a later grant's fence is in the journal and the
order of opening makes that a fence over the applier.

**Protocol binding** (`ProtocolBindingProofs`): `TypeCorrect`, `BoundForGood`,
`OldStaysLegacy`, `RefusalsHaveCause`, `CallsOnlyAdvance`, which is every property of its run
and more. The
argument rests on rows that never change once there (`RowsGrow`). `CallInv` says
of a call that each row it passed holds what it wanted, and that a call about to pin
the disposition protocol past the test of the witness had found none;
`OldWitnessed` that an old session's witness is there from the beginning, so that no such
call is for an old session; `WitnessBehindPin` that any other session's witness
stands behind its pin. A disposition caller that finds a witness and then no pin is
therefore looking at an old session or at another identity's name. `CallsOnlyAdvance` ranks the steps of
an operation: each step of a call goes to a later row, or to a later step of its row, up to its
end, and leaves every other call where it is; so a call is never kept going by those it
races with.

**Session rows** (`SessionRowsProofs`): `ToldForGood`, `NothingPassedOver`, `OneReplica`,
`HalvesStand`, `AppliedOnce`, `OutcomesStand`, `CreationsConverge`, `TypeCorrect`,
`FencedRowsOnlySucceed`, which is every property of `session_rows` and more. A behaviour keeps the part it began with, because no
action adds a row (`PartsStand`), so each part has an invariant of its own. They have one
argument in common: a write is *current* as long as nobody wrote its row since it was
decided, and a write that is not current cannot land. Of a current write, `FencedInv` says
that its mark and order are at least those of the row it replaces, which are at least all
that was told; `ClaimInv` that whoever counts on the claim it replaces is its own writer, or
every clock has passed the deadline; `PlacementInv` that the catalog row it writes succeeds
the one it replaces in both halves, that a request's write repeats the generation it
already became or rests on the revision the request expects, and that a termination
replaces an earlier generation's only; `CreateInv` that it rests on rows that are already
there and are never written again. `ConsumptionInv` says that what lies before a Host's
start, before the cursor, and before every cursor on its way was handed to somebody. That a
page which ascends and leaves no row out has its rows one by one is an induction along
the page; it is made by the first row at which the page would go wrong, which exists because
the numbers are well ordered. `FencedRowsOnlySucceed` states a fenced row as an atomic register:
whatever lands passes its fences against the row it *really* replaces, not only against the one
its caller had read (`SuccessorInv`).

**Deadlines** (`DeadlineSweepsProofs`): `OpenGatesAreDue`, `SuccessorsFence`,
`AdvertisementsStand`, `PassesEnd`, `SweepPassesNoneOver`, `TypeCorrect`. A gate and its intent are two rows, so the invariant `GatesInv` has
one predicate per call and stage (`CallOK`): what a call may still rely on, though
others write either row meanwhile. A call about to project its gate has an intent, and if that
is no longer due, it is so old that the call has no time left to project (`GateAssumption`).
A sweep about to retire an intent has seen it that old, and its gate closed, or the
row is another by now and the write is refused. A call that keeps its catalog read has a mark
no lower than the row's, or will lose its write; hence `SuccessorsFence`, which needs no
hypothesis on overlaps. Of a sweep over host targets, `TargetsInv` says that a row it listed
is the one stored or behind it, and that a withdrawal in flight, if still
current, replaces a row that some clock had passed. `TypeCorrect` adds that no page is
longer than its limit, which counts the rows before each row of a page, and that a pass ends
at a place in the order, since a page has a last row. The same last row divides what is due:
a page has the rows up to it, the cursor leaves those behind it (`ListingTiles`), so that a pass
passes no row over and lists none twice, however often it is resumed (`SweepPassesNoneOver`).
`PassesEnd` counts a pass by its pages and, within one, by the rows and the write left
(`PassRank`): each of its steps goes to another page, lowers the count or ends the pass, and
no Host's step raises it.

**The Store** (`StoreCloseProofs`): `TypeCorrect`, `ProviderOutlives`, `ReleasedOnce`,
`WholeObjects`, `HoldersImplementLifecycle`, `ShutdownOnlyDrains`. Every holder has a predicate of its record and of whether it is admitted
(`GrantOK`, `WriterOK`, `ReaderOK`, `PutOK`): in a stage in which it may use the provider, it
is admitted. A step of one holder admits and releases that holder only, and admits none
once the Store is closing (`OnlyAdmits`), so that it leaves the others' predicates
alone. The provider leaves "open" only when nothing is admitted, and nothing is admitted
afterwards. Of a grant the predicate adds that one caller at most is behind the release gate,
and none at the provider once the lease was released; of a stream, that one caller terminates
it, whose verdict is settled before anybody is told; of a put, that its metadata row
follows the body that was verified.

*Refinement*: `HoldersImplementLifecycle`. `LifecycleSpec` knows holders by name only: one is
admitted while the Store is open, one is released, and the Store closes its provider when nobody
is left. Grants, writers, streams and puts together take its steps and no others.
`ShutdownOnlyDrains` follows: after `Close` nobody is admitted, so the admissions that `Close`
waits for only become fewer.

**Journal reads** (`JournalReadsProofs`): `WalkIsRight`, `FindingsStand`, `PagesDoTile`,
`FramesAreCanonical`. A walk remembers two records, the relation looks at all of them. What
ties them is `Summary`: the prefixes of the command whose reading no later record can change
are *settled*, the walk's answer is the strongest of these readings, the earliest of
its kind, and the one prefix that is not settled, if there is one, is the record just read.
`JournalInv` provides that a strongest reading, a latest opening and a highest fence exist in
every journal. The same facts show that a reading once settled stays (`FindingsStand`).
Pages and frames list a finite set of numbers in ascending order (`Enumerate`). Three facts
of it, shown by counting, do the work of an induction along the list:
the list of a union of two ranges is one list after the other (`EnumerationsJoin`), so pages
tile; a sequence that ascends is the list of its own elements (`AscentEnumerates`), so a frame
whose tags ascend and that passes `validateDecodedFields` is the encoder's, whatever was
changed in it.

Only model-checked: the liveness properties (`AttemptCloses`, `UnattemptedCommandCloses`,
`EveryCommandIsSettled`, `LapsedIsWithdrawn`, `RemnantsAreRetired`, `CloseCompletes`), since
fairness and ENABLED are beyond the prover; of `LapsedIsWithdrawn` and `CloseCompletes` the half
that is safety is proved (`PassesEnd`, `ShutdownOnlyDrains`); and the three runs of section 4, which
are counterexamples.

## 6. What is not modelled

`PROJECT.json` gives the reason per component.

* Options and error types have no behaviour; `internal/` is development tooling. The
  providers are external and appear as the code uses them.
* The digests and frames of the keyspace, the codecs of the rows and the parsing of
  object references are pure encodings: their contents appear as records. The
  marker of the store's layout (`keyspace.initialize`) is created in the manner of the
  session's witnesses, once per store.
* The pages of `ListDispositionDueCommands`, `ListDueCommands` and `ListDueGates` have
  the cursor, the bound and the order that `HostTargets` models with the sweep's;
  they write nothing, and what a pass finds (not on which page) drives the liveness
  properties. The placing of rows in shards is a digest.
* `ListCompatibleHosts`, `ListSessions`, `ReadGates` and the other reads change nothing
  and are shown whatever the rows hold. `deleteObject` has no caller.

## 7. Plan

The model covers every component that keeps state, and every safety property of the
runs is proved. What is left:

1. Of `RemnantsAreRetired`, `AttemptCloses` and `EveryCommandIsSettled` the half that is
   safety: a measure of the sweep and of the settlers that no other actor's step raises.
   `RecordsFollowEdges` gives it for the records, not yet for the calls in flight.
2. An abstract specification of a host's advertisement as a lease, and of the gates' two rows as
   one, each with its refinement.
