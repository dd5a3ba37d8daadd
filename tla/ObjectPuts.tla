----------------------------- MODULE ObjectPuts -----------------------------
(***************************************************************************)
(* PutObject stores a body under its digest and a random generation, reads *)
(* back what the provider kept, and then makes the object visible by a     *)
(* metadata row.  Any step may fail, or fail only for its caller, and the  *)
(* caller may stop; the caller tries again under another generation.       *)
(***************************************************************************)
EXTENDS StoreLifecycle

CONSTANTS Put,         \* calls of PutObject with one digest, and the media type of each
          Generation   \* the generations drawn

VARIABLES objects,  \* generation -> what the provider keeps, and its metadata row
          puts      \* calls

NoPut == "none"
ASSUME PutAssumption == NoPut \notin Put

\* `kept` is the provider's blob; `row` the call whose metadata the row holds.
StoredObject == [kept : {"nothing", "exact", "damaged"}, row : Put \cup {NoPut}]
PutCall == [at : {"idle", "binding", "storing", "verifying", "committing", "rereading", "told", "failed", "gone"},
            generation : Generation]

\* Those in `used` will be called.
PutsInit(used) ==
    /\ objects = [g \in Generation |-> [kept |-> "nothing", row |-> NoPut]]
    /\ \E drawn \in [Put -> Generation] :
          puts = [p \in Put |-> [at |-> IF p \in used THEN "idle" ELSE "gone", generation |-> drawn[p]]]

GoesTo(p, place) ==
    /\ puts' = [puts EXCEPT ![p].at = place]
    /\ IF place \in {"told", "failed"} THEN ReleaseAdmission(p) ELSE UNCHANGED storeVars

Object(p) == objects[puts[p].generation]
Keeps(p, kept) == objects' = [objects EXCEPT ![puts[p].generation].kept = kept]

PutObject(p) ==
    /\ puts[p].at = "idle"
    /\ puts' = [puts EXCEPT ![p].at = "binding"]
    /\ AdmitForeground(p)
    /\ UNCHANGED objects

BindSessionScope(p) ==
    /\ puts[p].at = "binding"
    /\ GoesTo(p, "storing")
    /\ UNCHANGED objects

\* The provider keeps a key's first body.  It may damage it, and it may fail
\* its caller although it kept it; of a body that does not verify it keeps
\* nothing.
BlobsPut(p) ==
    /\ puts[p].at = "storing"
    /\ \/ /\ Object(p).kept = "nothing"
          /\ \E kept \in {"exact", "damaged"}, place \in {"verifying", "failed"} : Keeps(p, kept) /\ GoesTo(p, place)
       \/ GoesTo(p, "failed") /\ UNCHANGED objects

Verified(kept) == kept = "exact"

VerifyPersisted(p) ==
    /\ puts[p].at = "verifying"
    /\ \/ Verified(Object(p).kept) /\ GoesTo(p, "committing")
       \/ GoesTo(p, "failed")
    /\ UNCHANGED objects

\* A row there already, or an answer that was lost, is read again.
PersistObjectMetadata(p) ==
    /\ puts[p].at = "committing"
    /\ \/ /\ Object(p).row = NoPut
          /\ objects' = [objects EXCEPT ![puts[p].generation].row = p]
          /\ \E place \in {"told", "rereading", "failed"} : GoesTo(p, place)
       \/ GoesTo(p, "rereading") /\ UNCHANGED objects

RereadObjectMetadata(p) ==
    /\ puts[p].at = "rereading"
    /\ \/ Object(p).row = p /\ GoesTo(p, "told")
       \/ GoesTo(p, "failed")
    /\ UNCHANGED objects

\* The caller's context is canceled, or its process stops.
PutStops(p) ==
    /\ puts[p].at \in {"binding", "storing", "verifying", "committing", "rereading"}
    /\ GoesTo(p, "failed")
    /\ UNCHANGED objects

\* Another call of the same caller: the generation is drawn again.
PutAgain(p) ==
    /\ puts[p].at = "failed"
    /\ \E g \in Generation : puts' = [puts EXCEPT ![p] = [at |-> "binding", generation |-> g]]
    /\ AdmitForeground(p)
    /\ UNCHANGED objects

PutGoesOn(p) ==
    \/ BindSessionScope(p) \/ BlobsPut(p) \/ VerifyPersisted(p)
    \/ PersistObjectMetadata(p) \/ RereadObjectMetadata(p) \/ PutStops(p)

PutsNext == \E p \in Put : PutObject(p) \/ PutAgain(p) \/ PutGoesOn(p)

PutsFairness == \A p \in Put : WF_<<storeVars, objects, puts>>(PutGoesOn(p))

-----------------------------------------------------------------------------
PutUsesProvider(p) == puts[p].at \notin {"idle", "told", "failed", "gone"}

\* An object that can be found is stored whole, and a caller that was told its
\* metadata finds that metadata, whatever the provider damaged, failed or hid
\* and however often a generation was drawn.  (verifyPersisted before
\* persistObjectMetadata, and the row that is read again.)
VisibleIsWhole ==
    /\ \A g \in Generation : objects[g].row # NoPut => objects[g].kept = "exact"
    /\ \A p \in Put : puts[p].at = "told" => Object(p).row = p
=============================================================================
