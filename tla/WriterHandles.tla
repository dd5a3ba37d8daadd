--------------------------- MODULE WriterHandles ---------------------------
(***************************************************************************)
(* A journal writer as what holds a lease and a Store admission (what it   *)
(* appends is JournalWriter's).  One mutex covers an append, which may     *)
(* take as long as the provider does, and Close, which its holder, its     *)
(* opener and the shutdown hook may call; unlike a residency grant it      *)
(* gives its admission back even when its lease is not released.           *)
(***************************************************************************)
EXTENDS StoreLifecycle

CONSTANT Writer  \* writers, each opened once

VARIABLE writer  \* writer -> how it was opened, its mutex, and who waits for it

WriterUser == {"append", "holder", "opener", "hook"}

\* lease: the provider may be left with a lease nobody will release.
WriterHandle ==
    [opened : {"idle", "opening", "armed", "bound", "refusing", "held", "gone"},
     closed : BOOLEAN, lease : {"none", "held", "left"}, hook : Hook, published : BOOLEAN,
     in : [WriterUser -> {"out", "waiting", "locked"}]]

\* Those in `used` will be opened.
WritersInit(used) ==
    writer = [w \in Writer |->
        [opened |-> IF w \in used THEN "idle" ELSE "gone", closed |-> FALSE, lease |-> "none",
         hook |-> "unset", published |-> FALSE, in |-> [u \in WriterUser |-> "out"]]]

Writes(w, s) == writer' = [writer EXCEPT ![w] = s]
Unlocked(w) == \A u \in WriterUser : writer[w].in[u] # "locked"

OpenJournal(w) ==
    /\ writer[w].opened = "idle"
    /\ Writes(w, [writer[w] EXCEPT !.opened = "opening"])
    /\ AdmitForeground(w)

\* Opened behind its fence; or it failed and tried to give its lease back.
OpeningEnds(w) ==
    /\ writer[w].opened = "opening"
    /\ \/ /\ Writes(w, [writer[w] EXCEPT !.opened = "armed", !.lease = "held", !.hook = "armed"])
          /\ UNCHANGED storeVars
       \/ /\ \E lease \in {"none", "left"} : Writes(w, [writer[w] EXCEPT !.opened = "gone", !.lease = lease])
          /\ ReleaseAdmission(w)

BindShutdown(w) ==
    /\ writer[w].opened = "armed" /\ Unlocked(w)
    /\ Writes(w, [writer[w] EXCEPT !.opened = "bound", !.published = TRUE,
                      !.hook = IF writer[w].closed THEN StopHook(@) ELSE @])
    /\ UNCHANGED storeVars

OpenReturns(w) ==
    /\ writer[w].opened = "bound"
    /\ Writes(w, IF closing THEN [writer[w] EXCEPT !.opened = "refusing", !.in["opener"] = "waiting"]
                 ELSE [writer[w] EXCEPT !.opened = "held"])
    /\ UNCHANGED storeVars

\* The shutdown hook calls Close, as the holder may.
CallClose(w, u) ==
    /\ \/ u = "hook" /\ closing /\ writer[w].hook = "armed"
       \/ u = "holder" /\ writer[w].opened = "held" /\ ~writer[w].closed /\ writer[w].in[u] = "out"
    /\ Writes(w, [writer[w] EXCEPT !.in[u] = "waiting", !.hook = IF u = "hook" THEN "ran" ELSE @])
    /\ UNCHANGED storeVars

CloseWriter(w, u) ==
    /\ u # "append" /\ writer[w].in[u] = "waiting" /\ Unlocked(w)
    /\ Writes(w, IF writer[w].closed THEN [writer[w] EXCEPT !.in[u] = "out"]
                 ELSE [writer[w] EXCEPT !.in[u] = "locked", !.closed = TRUE,
                           !.hook = IF writer[w].published THEN StopHook(@) ELSE @])
    /\ UNCHANGED storeVars

\* Refused, or after its timeout, the lease is left to expire.
LeaseReleaseReturns(w, u) ==
    /\ u # "append" /\ writer[w].in[u] = "locked"
    /\ \E lease \in {"none", "left"} : Writes(w, [writer[w] EXCEPT !.in[u] = "out", !.lease = lease])
    /\ ReleaseAdmission(w)

BeginAppend(w) ==
    /\ writer[w].opened = "held" /\ ~writer[w].closed /\ Unlocked(w)
    /\ Writes(w, [writer[w] EXCEPT !.in["append"] = "locked"])
    /\ UNCHANGED storeVars

AppendReturns(w) ==
    /\ writer[w].in["append"] = "locked"
    /\ Writes(w, [writer[w] EXCEPT !.in["append"] = "out"])
    /\ UNCHANGED storeVars

\* The Store's Close cancels the context of an append, and the provider gives up.
Canceled(w) == closing

WriterGoesOn(w) == OpeningEnds(w) \/ BindShutdown(w) \/ OpenReturns(w) \/ CallClose(w, "hook")

WritersNext ==
    \E w \in Writer :
        \/ OpenJournal(w) \/ WriterGoesOn(w) \/ CallClose(w, "holder") \/ BeginAppend(w) \/ AppendReturns(w)
        \/ \E u \in WriterUser : CloseWriter(w, u) \/ LeaseReleaseReturns(w, u)

\* A mutex lets a waiter in though others keep taking it.
WritersFairness ==
    \A w \in Writer :
        /\ WF_<<storeVars, writer>>(WriterGoesOn(w))
        /\ WF_<<storeVars, writer>>(Canceled(w) /\ AppendReturns(w))
        /\ SF_<<storeVars, writer>>(CloseWriter(w, "hook"))
        /\ \A u \in {"holder", "opener"} : WF_<<storeVars, writer>>(CloseWriter(w, u))
        /\ \A u \in WriterUser : WF_<<storeVars, writer>>(LeaseReleaseReturns(w, u))

-----------------------------------------------------------------------------
WriterUsesProvider(w) ==
    \/ writer[w].opened = "opening" \/ writer[w].lease = "held"
    \/ ~Unlocked(w)
=============================================================================
