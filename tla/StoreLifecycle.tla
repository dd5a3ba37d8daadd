-------------------------- MODULE StoreLifecycle --------------------------
(***************************************************************************)
(* A Store admits operations until it is closed.  An operation's admission *)
(* is released when it returns, but a residency grant and an object stream *)
(* keep theirs for as long as they last.  Close refuses what comes later,  *)
(* cancels what is under way, waits for every admission to be released,    *)
(* and only then closes the provider beneath.                              *)
(***************************************************************************)
EXTENDS Naturals, FiniteSets

VARIABLES closing,   \* has Close been called?
          admitted,  \* what holds an admission
          provider   \* the provider beneath the Store

storeVars == <<closing, admitted, provider>>

StoreInit ==
    /\ closing = FALSE
    /\ admitted = {}
    /\ provider = "open"

AdmitForeground(h) ==
    /\ ~closing
    /\ admitted' = admitted \cup {h}
    /\ UNCHANGED <<closing, provider>>

\* Releasing a second time does nothing.
ReleaseAdmission(h) ==
    /\ admitted' = admitted \ {h}
    /\ UNCHANGED <<closing, provider>>

Close ==
    /\ ~closing
    /\ closing' = TRUE
    /\ UNCHANGED <<admitted, provider>>

ActiveWait ==
    /\ closing /\ admitted = {} /\ provider = "open"
    /\ provider' = "closing"
    /\ UNCHANGED <<closing, admitted>>

\* The provider's own close is bounded by a timeout.
ProviderClose ==
    /\ provider = "closing"
    /\ provider' = "closed"
    /\ UNCHANGED <<closing, admitted>>

\* Where an acquired handle's cancellation hook stands.  It runs once, in a
\* goroutine of its own, as soon as the context it watches is canceled; that
\* may be before its acquirer published the means to stop it.
Hook == {"unset", "armed", "ran", "stopped"}
StopHook(hook) == IF hook = "armed" THEN "stopped" ELSE hook
=============================================================================
