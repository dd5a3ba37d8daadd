----------------------------- MODULE StoreClose -----------------------------
(***************************************************************************)
(* A Store with everything that holds an admission of it for longer than a *)
(* call: residency grants, journal writers, object streams; and puts, for  *)
(* the calls.                                                              *)
(***************************************************************************)
EXTENDS ResidencyGrants, WriterHandles, ObjectReaders, ObjectPuts

CONSTANT Mix  \* bound: what is used together in one behaviour

\* Every holder of an admission is a holder of its own.
ASSUME HolderAssumption ==
    /\ Grant \cap Writer = {} /\ Grant \cap Reader = {} /\ Grant \cap Put = {}
    /\ Writer \cap Reader = {} /\ Writer \cap Put = {} /\ Reader \cap Put = {}

allVars == <<closing, admitted, provider, grant, writer, reader, objects, puts>>

Init ==
    /\ StoreInit
    /\ \E used \in Mix : GrantsInit(used) /\ WritersInit(used) /\ ReadersInit(used) /\ PutsInit(used)

StoreNext == Close \/ ActiveWait \/ ProviderClose

Next ==
    \/ StoreNext /\ UNCHANGED <<grant, writer, reader, objects, puts>>
    \/ GrantsNext /\ UNCHANGED <<writer, reader, objects, puts>>
    \/ WritersNext /\ UNCHANGED <<grant, reader, objects, puts>>
    \/ ReadersNext /\ UNCHANGED <<grant, writer, objects, puts>>
    \/ PutsNext /\ UNCHANGED <<grant, writer, reader>>

Spec == Init /\ [][Next]_allVars

FairSpec ==
    /\ Spec
    /\ WF_storeVars(ActiveWait \/ ProviderClose)
    /\ GrantsFairness /\ WritersFairness /\ ReadersFairness /\ PutsFairness

TypeOK ==
    /\ closing \in BOOLEAN /\ provider \in {"open", "closing", "closed"}
    /\ admitted \subseteq Grant \cup Writer \cup Reader \cup Put
    /\ grant \in [Grant -> ResidencyGrant]
    /\ writer \in [Writer -> WriterHandle]
    /\ reader \in [Reader -> ObjectReader]
    /\ objects \in [Generation -> StoredObject]
    /\ puts \in [Put -> PutCall]

\* Nothing uses the provider once the Store closes it: no lease is held or in
\* the provider's hands, no stream is open, no read is in progress, though the
\* shutdown raced with each of them.  (The admission that each keeps, and when
\* it gives it back.)
ProviderOutlivesItsUse ==
    provider # "open" =>
        /\ \A g \in Grant : ~GrantUsesProvider(g)
        /\ \A w \in Writer : ~WriterUsesProvider(w)
        /\ \A r \in Reader : ~ReaderUsesProvider(r)
        /\ \A p \in Put : ~PutUsesProvider(p)

\* What can be found, and what a stream ended without complaint on, is whole.
ObjectsAreWhole == NilCloseMeansWhole /\ VisibleIsWhole

\* Close ends, though reads and appends are stuck in the provider and
\* holders do nothing:
\* only a lease the provider refused to release can keep it waiting.
CloseCompletes ==
    closing ~> provider = "closed" \/ \E g \in Grant : grant[g].refused
=============================================================================
