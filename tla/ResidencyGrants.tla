-------------------------- MODULE ResidencyGrants --------------------------
(***************************************************************************)
(* A residency grant holds a lease and a Store admission until a release   *)
(* succeeds.  Its holder, its acquirer, when the Store closes or the       *)
(* caller gives up before it has the grant, and the shutdown hook may each *)
(* release it, at once; the provider may refuse.                           *)
(***************************************************************************)
EXTENDS StoreLifecycle

CONSTANT Grant  \* grants, each acquired once

VARIABLE grant  \* grant -> its acquisition, its lease, and who releases it

Releaser == {"acquirer", "hook", "holder"}

\* acquired: how far AcquireResidency is; then its caller holds the grant, or
\* does not.  refused: did the provider ever refuse to release it?
ResidencyGrant ==
    [acquired : {"idle", "leasing", "leased", "armed", "bound", "refusing", "held", "gone"},
     lease : {"none", "held", "returned"}, released : BOOLEAN, refused : BOOLEAN,
     hook : Hook, published : BOOLEAN,
     in : [Releaser -> {"out", "waiting", "gate", "provider"}]]

\* Those in `used` will be acquired.
GrantsInit(used) ==
    grant = [g \in Grant |->
        [acquired |-> IF g \in used THEN "idle" ELSE "gone", lease |-> "none", released |-> FALSE, refused |-> FALSE,
         hook |-> "unset", published |-> FALSE, in |-> [c \in Releaser |-> "out"]]]

Becomes(g, r) == grant' = [grant EXCEPT ![g] = r]
InRelease(g, place) == {c \in Releaser : grant[g].in[c] = place}
GateFree(g) == InRelease(g, "gate") \cup InRelease(g, "provider") = {}

-----------------------------------------------------------------------------
(* Release.                                                                *)

\* A released grant answers at once.
EnterRelease(r, c) == IF r.released THEN r ELSE [r EXCEPT !.in[c] = "waiting"]

TakeReleaseGate(g, c) ==
    /\ grant[g].in[c] = "waiting" /\ GateFree(g)
    /\ Becomes(g, [grant[g] EXCEPT !.in[c] = "gate"])
    /\ UNCHANGED storeVars

\* The holder's own context may be canceled; the others wait the whole timeout.
ReleaseTimesOut(g, c) ==
    /\ grant[g].in[c] = "waiting"
    /\ c = "holder" \/ ~GateFree(g)
    /\ Becomes(g, [grant[g] EXCEPT !.in[c] = "out"])
    /\ UNCHANGED storeVars

\* Mutant: who was let in releases, whatever happened while it waited.
MustReleaseOnceIn(g) == TRUE
MustRelease(g) == ~grant[g].released

RecheckReleased(g, c) ==
    /\ grant[g].in[c] = "gate"
    /\ Becomes(g, [grant[g] EXCEPT !.in[c] = IF MustRelease(g) THEN "provider" ELSE "out"])
    /\ UNCHANGED storeVars

LeaseReleases(g, c) ==
    /\ grant[g].in[c] = "provider"
    /\ Becomes(g, [grant[g] EXCEPT !.in[c] = "out", !.lease = "returned", !.released = TRUE,
                       !.hook = IF grant[g].published THEN StopHook(@) ELSE @])
    /\ ReleaseAdmission(g)

\* Mutant: a refused release gives the admission back all the same.
AdmissionIsLost(g) == ReleaseAdmission(g)
AdmissionAfterRefusal(g) == UNCHANGED storeVars

\* Refused, or its answer lost; the grant can be released again.
LeaseRefuses(g, c) ==
    /\ grant[g].in[c] = "provider"
    /\ \E lease \in {"held", "returned"} :
          /\ grant[g].lease = "returned" => lease = "returned"
          /\ Becomes(g, [grant[g] EXCEPT !.in[c] = "out", !.lease = lease, !.refused = TRUE])
    /\ AdmissionAfterRefusal(g)

-----------------------------------------------------------------------------
(* Acquisition.                                                            *)

AcquireResidency(g) ==
    /\ grant[g].acquired = "idle"
    /\ Becomes(g, [grant[g] EXCEPT !.acquired = "leasing"])
    /\ AdmitForeground(g)

LeaserAcquires(g) ==
    /\ grant[g].acquired = "leasing"
    /\ \/ /\ Becomes(g, [grant[g] EXCEPT !.acquired = "leased", !.lease = "held"])
          /\ UNCHANGED storeVars
       \/ /\ Becomes(g, [grant[g] EXCEPT !.acquired = "gone"])
          /\ ReleaseAdmission(g)

BindCancelHandle(g) ==
    /\ grant[g].acquired = "leased"
    /\ Becomes(g, [grant[g] EXCEPT !.acquired = "armed", !.hook = "armed"])
    /\ UNCHANGED storeVars

PublishStop(g) ==
    /\ grant[g].acquired = "armed"
    /\ Becomes(g, [grant[g] EXCEPT !.acquired = "bound", !.published = TRUE,
                       !.hook = IF grant[g].released THEN StopHook(@) ELSE @])
    /\ UNCHANGED storeVars

ShutdownHook(g) ==
    /\ closing /\ grant[g].hook = "armed"
    /\ Becomes(g, EnterRelease([grant[g] EXCEPT !.hook = "ran"], "hook"))
    /\ UNCHANGED storeVars

\* The Store closed, or the caller's context was canceled, meanwhile.
DecideAcquire(g) ==
    /\ grant[g].acquired = "bound"
    /\ \/ Becomes(g, EnterRelease([grant[g] EXCEPT !.acquired = "refusing"], "acquirer"))
       \/ ~closing /\ Becomes(g, [grant[g] EXCEPT !.acquired = "held"])
    /\ UNCHANGED storeVars

\* A cleanup that failed leaves the grant with the caller, in its error.
CleanupReturns(g) ==
    /\ grant[g].acquired = "refusing" /\ grant[g].in["acquirer"] = "out"
    /\ Becomes(g, [grant[g] EXCEPT !.acquired = IF grant[g].released THEN "gone" ELSE "held"])
    /\ UNCHANGED storeVars

HolderReleases(g) ==
    /\ grant[g].acquired = "held" /\ grant[g].in["holder"] = "out" /\ ~grant[g].released
    /\ Becomes(g, EnterRelease(grant[g], "holder"))
    /\ UNCHANGED storeVars

\* What goes on by itself once it has begun; a provider answers.
GrantGoesOn(g) ==
    \/ LeaserAcquires(g) \/ BindCancelHandle(g) \/ PublishStop(g) \/ DecideAcquire(g) \/ CleanupReturns(g)
    \/ ShutdownHook(g)
ReleaseGoesOn(g, c) ==
    \/ TakeReleaseGate(g, c) \/ ReleaseTimesOut(g, c) \/ RecheckReleased(g, c)
    \/ LeaseReleases(g, c) \/ LeaseRefuses(g, c)

GrantsNext ==
    \E g \in Grant :
        \/ AcquireResidency(g) \/ HolderReleases(g) \/ GrantGoesOn(g)
        \/ \E c \in Releaser : ReleaseGoesOn(g, c)

GrantsFairness ==
    \A g \in Grant :
        /\ WF_<<storeVars, grant>>(GrantGoesOn(g))
        /\ \A c \in Releaser : WF_<<storeVars, grant>>(ReleaseGoesOn(g, c))

-----------------------------------------------------------------------------
GrantUsesProvider(g) ==
    \/ grant[g].acquired = "leasing"
    \/ InRelease(g, "provider") # {}
    \/ grant[g].lease = "held" /\ ~grant[g].released

\* A lease is released by one caller at a time, and never again once that
\* succeeded, though the acquirer, the holder and shutdown all try.
\* (releaseGate, and the second look at released behind it.)
LeaseReleasedOnce ==
    \A g \in Grant :
        /\ Cardinality(InRelease(g, "provider")) <= 1
        /\ grant[g].released => InRelease(g, "provider") = {}
=============================================================================
