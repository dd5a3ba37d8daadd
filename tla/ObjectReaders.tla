--------------------------- MODULE ObjectReaders ---------------------------
(***************************************************************************)
(* The stream GetObject returns.  It verifies what it reads against the    *)
(* size and digest it was asked for, holds a Store admission, and ends     *)
(* once: by a read that fails or reaches the verified end, by Close, or by *)
(* the cancellation of its context.  Whoever is first ends it; the others  *)
(* wait for that.                                                          *)
(***************************************************************************)
EXTENDS StoreLifecycle

CONSTANTS Reader,   \* streams
          Length    \* the reads an object takes

ASSUME ReaderAssumption == Length \in Nat

VARIABLE reader  \* stream -> its object, its state, and who is in its methods

User == {"reading", "reading too", "closing", "hook"}
\* What the provider keeps is the object, or it is short, long or altered.
Body == {"exact", "other"}

\* reader[r].in: where a user is; "reading" and "closing" are in the provider.
\* primary is the cause of the end; clean, that the provider closed cleanly and
\* no read failed besides.
ObjectReader ==
    [got : {"idle", "opening", "opened", "armed", "returned", "gone"}, hook : Hook, published : BOOLEAN,
     body : Body, left : 0..Length, under : {"none", "open", "closed"},
     closing : BOOLEAN, done : BOOLEAN, primary : {"none", "eof", "error"}, clean : BOOLEAN, whole : BOOLEAN,
     told : SUBSET {"nil", "error"},
     in : [User -> {"out", "turn", "reading", "closing", "draining", "releasing", "waiting"}]]

\* Those in `used` will be opened.
ReadersInit(used) ==
    \E body \in [Reader -> Body] :
        reader = [r \in Reader |->
            [got |-> IF r \in used THEN "idle" ELSE "gone", hook |-> "unset", published |-> FALSE,
             body |-> body[r], left |-> Length, under |-> "none",
             closing |-> FALSE, done |-> FALSE, primary |-> "none", clean |-> TRUE,
             whole |-> FALSE, told |-> {}, in |-> [u \in User |-> "out"]]]

Turns(r, s) == reader' = [reader EXCEPT ![r] = s]
At(r, place) == {u \in User : reader[r].in[u] = place}

-----------------------------------------------------------------------------
(* GetObject.                                                              *)

GetObject(r) ==
    /\ reader[r].got = "idle"
    /\ Turns(r, [reader[r] EXCEPT !.got = "opening"])
    /\ AdmitForeground(r)

BlobsGet(r) ==
    /\ reader[r].got = "opening"
    /\ \/ /\ Turns(r, [reader[r] EXCEPT !.got = "opened", !.under = "open"])
          /\ UNCHANGED storeVars
       \/ /\ Turns(r, [reader[r] EXCEPT !.got = "gone"])
          /\ ReleaseAdmission(r)

BindReader(r) ==
    /\ reader[r].got = "opened"
    /\ Turns(r, [reader[r] EXCEPT !.got = "armed", !.hook = "armed"])
    /\ UNCHANGED storeVars

PublishReader(r) ==
    /\ reader[r].got = "armed"
    /\ Turns(r, [reader[r] EXCEPT !.got = "returned", !.published = TRUE,
                     !.hook = IF reader[r].done THEN StopHook(@) ELSE @])
    /\ UNCHANGED storeVars

-----------------------------------------------------------------------------
(* Read.                                                                   *)

\* A read waits for the one in progress, or for the end, or begins.
ReadPlace(r, u) ==
    IF reader[r].done THEN "out"
    ELSE IF reader[r].closing THEN "waiting"
    ELSE IF At(r, "reading") \ {u} # {} THEN "turn"
    ELSE "reading"

Read(r, u) ==
    /\ u \in {"reading", "reading too"}
    /\ reader[r].got = "returned" /\ reader[r].in[u] = "out" /\ ~reader[r].done
    /\ Turns(r, [reader[r] EXCEPT !.in[u] = ReadPlace(r, u)])
    /\ UNCHANGED storeVars

ReadTurn(r, u) ==
    /\ reader[r].in[u] = "turn" /\ ReadPlace(r, u) # "turn"
    /\ Turns(r, [reader[r] EXCEPT !.in[u] = ReadPlace(r, u)])
    /\ UNCHANGED storeVars

Verifies(s) == s.left = 0 /\ s.body = "exact"

\* What the verifier can make of one read: more of the object, its end, or an
\* error: a provider's, a canceled context's, or a body that does not verify.
Verdicts(r) ==
    (IF reader[r].left > 0 /\ reader[r].under = "open" THEN {"data"} ELSE {})
        \cup (IF Verifies(reader[r]) /\ reader[r].under = "open" THEN {"eof"} ELSE {})
        \cup {"error"}

\* The first failure, or the end, ends the stream.
ReadReturns(r, u) ==
    /\ reader[r].in[u] = "reading"
    /\ \E v \in Verdicts(r) :
          LET s == [reader[r] EXCEPT !.left = IF v = "data" THEN @ - 1 ELSE @,
                                     !.whole = @ \/ (v = "eof" /\ reader[r].body = "exact")]
          IN  Turns(r, IF v = "data" THEN [s EXCEPT !.in[u] = IF s.closing THEN "waiting" ELSE "out"]
                       ELSE IF s.closing THEN [s EXCEPT !.in[u] = "waiting", !.clean = FALSE]
                       ELSE [s EXCEPT !.in[u] = "closing", !.closing = TRUE, !.primary = v])
    /\ UNCHANGED storeVars

-----------------------------------------------------------------------------
(* The end.                                                                *)

BeginTermination(s, u) ==
    IF s.done THEN s
    ELSE IF s.closing THEN [s EXCEPT !.in[u] = "waiting"]
    ELSE [s EXCEPT !.in[u] = "closing", !.closing = TRUE, !.primary = "error"]

CloseReader(r) ==
    /\ reader[r].got = "returned" /\ reader[r].in["closing"] = "out" /\ reader[r].told = {}
    /\ ~reader[r].done
    /\ Turns(r, BeginTermination(reader[r], "closing"))
    /\ UNCHANGED storeVars

\* Its context is canceled by its caller, or by the Store's Close.
CancelHook(r) ==
    /\ reader[r].hook = "armed"
    /\ Turns(r, BeginTermination([reader[r] EXCEPT !.hook = "ran"], "hook"))
    /\ UNCHANGED storeVars

\* Mutant: the provider's reader is closed when nobody reads from it.
UnderlyingClosesWhenIdle(r) == At(r, "reading") = {}
UnderlyingCloses(r) == TRUE

\* What bounds a read that the provider keeps.
UnderlyingClose(r, u) ==
    /\ reader[r].in[u] = "closing" /\ UnderlyingCloses(r)
    /\ \E cleanly \in BOOLEAN :
          Turns(r, [reader[r] EXCEPT !.in[u] = "draining", !.under = "closed",
                        !.clean = @ /\ cleanly,
                        !.hook = IF reader[r].published THEN StopHook(@) ELSE @])
    /\ UNCHANGED storeVars

Drained(r) == At(r, "reading") = {}

\* Mutant: Close answers for the provider's reader alone.
CloseErrorOfProvider(s) == ~s.clean
CloseError(s) == s.primary # "eof" \/ ~s.clean

CompleteTermination(r, u) ==
    /\ reader[r].in[u] = "draining" /\ Drained(r)
    /\ Turns(r, [reader[r] EXCEPT !.in[u] = "releasing", !.done = TRUE])
    /\ UNCHANGED storeVars

Answer(s, u) ==
    IF u # "closing" THEN s
    ELSE [s EXCEPT !.told = @ \cup {IF CloseError(s) THEN "error" ELSE "nil"}]

ReleaseReader(r, u) ==
    /\ reader[r].in[u] = "releasing"
    /\ Turns(r, Answer([reader[r] EXCEPT !.in[u] = "out"], u))
    /\ ReleaseAdmission(r)

WaitTerminal(r, u) ==
    /\ reader[r].in[u] = "waiting" /\ reader[r].done
    /\ Turns(r, Answer([reader[r] EXCEPT !.in[u] = "out"], u))
    /\ UNCHANGED storeVars

\* After the end Close answers what it did.
CloseAgain(r) ==
    /\ reader[r].got = "returned" /\ reader[r].done /\ reader[r].in["closing"] = "out"
    /\ Turns(r, Answer(reader[r], "closing"))
    /\ UNCHANGED storeVars

ReaderGoesOn(r) == BlobsGet(r) \/ BindReader(r) \/ PublishReader(r)
UserGoesOn(r, u) ==
    \/ ReadTurn(r, u) \/ UnderlyingClose(r, u) \/ CompleteTermination(r, u)
    \/ ReleaseReader(r, u) \/ WaitTerminal(r, u)

ReadersNext ==
    \E r \in Reader :
        \/ GetObject(r) \/ ReaderGoesOn(r) \/ CloseReader(r) \/ CancelHook(r) \/ CloseAgain(r)
        \/ \E u \in User : Read(r, u) \/ ReadReturns(r, u) \/ UserGoesOn(r, u)

\* A provider's reader answers a read once it is closed, not before.
ReadersFairness ==
    \A r \in Reader :
        /\ WF_<<storeVars, reader>>(ReaderGoesOn(r))
        /\ WF_<<storeVars, reader>>(closing /\ CancelHook(r))
        /\ \A u \in User :
              /\ WF_<<storeVars, reader>>(UserGoesOn(r, u))
              /\ WF_<<storeVars, reader>>(reader[r].under = "closed" /\ ReadReturns(r, u))

-----------------------------------------------------------------------------
ReaderUsesProvider(r) ==
    reader[r].got = "opening" \/ reader[r].under = "open" \/ At(r, "reading") # {}

\* A Close that reports nothing wrong followed the verified end of the object,
\* whoever read, closed or was canceled at the same time; and every Close
\* answers the same.  (exactVerifier, closeErr.)
NilCloseMeansWhole ==
    \A r \in Reader :
        /\ "nil" \in reader[r].told => reader[r].whole
        /\ Cardinality(reader[r].told) <= 1
=============================================================================
