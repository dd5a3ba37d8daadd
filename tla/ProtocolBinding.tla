-------------------------- MODULE ProtocolBinding --------------------------
(***************************************************************************)
(* Names in the store are digests of identities.  Before a session's data  *)
(* is written three immutable rows are created, in this order: a pin that   *)
(* reserves the session's command protocol, a witness that its tenant's    *)
(* name is this tenant's, and a witness that its session's name is this    *)
(* session's.  Writers of both protocols, and of identities whose digests  *)
(* collide, race to create them.  Binaries older than the pin left          *)
(* witnesses without one.                                                  *)
(***************************************************************************)
EXTENDS Naturals, Sequences

CONSTANTS Tenant, Session,  \* identities
          TenantOf,         \* session -> its tenant
          TenantToken,      \* tenant -> digest
          SessionToken,     \* session -> digest of its tenant and itself
          Call,             \* bound: the operations
          None              \* no identity, no token, no mode

Mode == {"legacy", "disposition"}
Stage == {"protocol", "tenant", "session"}

ASSUME IdentityAssumption ==
    /\ TenantOf \in [Session -> Tenant]
    /\ DOMAIN TenantToken = Tenant /\ DOMAIN SessionToken = Session
    /\ None \notin Tenant \cup Session \cup Mode

VARIABLES rows,   \* the provider's rows: key -> value
          call,   \* the operations in progress and over
          sent,   \* the creations on their way to the provider
          old     \* the sessions a binary without the pin has bound

vars == <<rows, call, sent, old>>

-----------------------------------------------------------------------------
(* Rows.                                                                   *)

\* The session witness is named by the session's digest alone.
Key(stage, s) ==
    [stage |-> stage,
     tenant |-> IF stage = "session" THEN None ELSE TenantToken[TenantOf[s]],
     session |-> IF stage = "tenant" THEN None ELSE SessionToken[s]]

Witness == [tenant : Tenant \cup {None}, session : Session \cup {None}, mode : Mode \cup {None}]
Absent == [tenant |-> None, session |-> None, mode |-> None]

Value(stage, s, mode) ==
    [tenant |-> TenantOf[s],
     session |-> IF stage = "tenant" THEN None ELSE s,
     mode |-> IF stage = "protocol" THEN mode ELSE None]

Keys == {Key(stage, s) : stage \in Stage, s \in Session}
Row(stage, s) == rows[Key(stage, s)]
Found(stage, s) == Row(stage, s) # Absent

-----------------------------------------------------------------------------
(* Operations.                                                             *)

Stages(kind) ==
    CASE kind = "pin" -> <<"protocol">>
      [] kind = "scope" -> <<"protocol", "tenant", "session">>
      [] kind = "verify" -> <<"tenant", "session">>

Kind == {"pin", "scope", "verify"}
Reading == {"read", "witness", "recheck", "reread"}
Outcome == {"none", "bound", "conflict", "collision", "failed"}

Operation == [session : Session, mode : Mode, kind : Kind, at : 1..4,
              step : Reading \cup {"put", "sent", "done"}, outcome : Outcome]
Idle == [session |-> None, mode |-> None, kind |-> None, at |-> 1,
         step |-> "idle", outcome |-> "none"]

TypeOK ==
    /\ rows \in [Keys -> Witness]
    /\ DOMAIN call = Call
    /\ \A k \in Call :
          \/ call[k] = Idle
          \/ /\ call[k] \in Operation
             /\ call[k].outcome = "none" <=> call[k].step # "done"
             /\ call[k].outcome = "bound" <=> call[k].at > Len(Stages(call[k].kind))
    /\ sent \subseteq [call : Call, stage : Stage]
    /\ old \subseteq Session

Steps(k) == Stages(call[k].kind)
Here(k) == Steps(k)[call[k].at]
Wanted(k) == Value(Here(k), call[k].session, call[k].mode)
Current(k) == Row(Here(k), call[k].session)

\* An old binary bound whole sessions, or a tenant and no more.
Init ==
    /\ \E tenants \in SUBSET Tenant : \E bound \in SUBSET {s \in Session : TenantOf[s] \in tenants} :
          /\ \A t, u \in tenants : TenantToken[t] = TenantToken[u] => t = u
          /\ \A s, r \in bound : SessionToken[s] = SessionToken[r] => s = r
          /\ old = bound
          /\ rows = [key \in Keys |->
                IF \E t \in tenants : key.stage = "tenant" /\ TenantToken[t] = key.tenant
                THEN [Absent EXCEPT !.tenant =
                         CHOOSE t \in tenants : TenantToken[t] = key.tenant]
                ELSE IF \E s \in bound : Key("session", s) = key
                THEN LET s == CHOOSE s \in bound : Key("session", s) = key
                     IN  Value("session", s, None)
                ELSE Absent]
    /\ call = [k \in Call |-> Idle]
    /\ sent = {}

Becomes(k, step) == call' = [call EXCEPT ![k].step = step]
Ends(k, outcome) == call' = [call EXCEPT ![k].step = "done", ![k].outcome = outcome]

\* On to the next row, or done.
Passes(k) ==
    LET last == call[k].at = Len(Steps(k))
    IN  call' = [call EXCEPT ![k].at = @ + 1,
                             ![k].step = IF last THEN "done" ELSE "read",
                             ![k].outcome = IF last THEN "bound" ELSE "none"]

\* The row is there: it is what this call wants, or the call is over.
Compared(k) ==
    IF Current(k) = Wanted(k) THEN Passes(k)
    ELSE IF Here(k) = "protocol" /\ Current(k).session = call[k].session
    THEN Ends(k, "conflict") ELSE Ends(k, "collision")

Start(k, s, mode, kind) ==
    /\ call[k] = Idle
    /\ call' = [call EXCEPT ![k] = [session |-> s, mode |-> mode, kind |-> kind,
                                    at |-> 1, step |-> "read", outcome |-> "none"]]
    /\ UNCHANGED <<rows, sent, old>>

\* Mutant: an old session's witness is not looked for.
AfterAbsenceUnchecked(k) == "put"
AfterAbsence(k) ==
    IF Here(k) = "protocol" /\ call[k].mode = "disposition" THEN "witness" ELSE "put"

Read(k) ==
    /\ call[k].step = "read"
    /\ IF Found(Here(k), call[k].session) THEN Compared(k)
       ELSE IF call[k].kind = "verify" THEN Ends(k, "failed")
       ELSE Becomes(k, AfterAbsence(k))
    /\ UNCHANGED <<rows, sent, old>>

\* A session bound without a pin is taken to be legacy.
ReadWitness(k) ==
    /\ call[k].step = "witness"
    /\ Becomes(k, IF Found("session", call[k].session) THEN "recheck" ELSE "put")
    /\ UNCHANGED <<rows, sent, old>>

\* Mutant: the pin is not read again.
RecheckRefuses(k) ==
    /\ call[k].step = "recheck"
    /\ Ends(k, "conflict")
    /\ UNCHANGED <<rows, sent, old>>
\* Unless a creator has installed both since the first read.
Recheck(k) ==
    /\ call[k].step = "recheck"
    /\ IF Found("protocol", call[k].session) THEN Compared(k) ELSE Ends(k, "conflict")
    /\ UNCHANGED <<rows, sent, old>>

Put(k) ==
    /\ call[k].step = "put"
    /\ sent' = sent \cup {[call |-> k, stage |-> Here(k)]}
    /\ Becomes(k, "sent")
    /\ UNCHANGED <<rows, old>>

\* After a conflict, and for the pin after any error, the row is read again.
AfterError(k) == IF Here(k) = "protocol" THEN Becomes(k, "reread") ELSE Ends(k, "failed")

Reread(k) ==
    /\ call[k].step = "reread"
    /\ IF Found(Here(k), call[k].session) THEN Compared(k) ELSE Ends(k, "failed")
    /\ UNCHANGED <<rows, sent, old>>

ReadFails(k) ==
    /\ call[k].step \in Reading
    /\ Ends(k, "failed")
    /\ UNCHANGED <<rows, sent, old>>

-----------------------------------------------------------------------------
(* The provider: a creation takes effect once, if at all, whether or not its *)
(* caller still waits for it.                                              *)

Awaited(w) == call[w.call].step = "sent" /\ Here(w.call) = w.stage
NewKey(w) == Key(w.stage, call[w.call].session)

\* Mutant: the row is put without naming revision zero.
OverwrittenBy(w) == TRUE
Creates(w) == rows[NewKey(w)] = Absent

Create(w) ==
    /\ Creates(w)
    /\ rows' = [rows EXCEPT ![NewKey(w)] = Value(w.stage, call[w.call].session, call[w.call].mode)]
    /\ sent' = sent \ {w}
    /\ IF Awaited(w) THEN Passes(w.call) \/ AfterError(w.call) ELSE UNCHANGED call
    /\ UNCHANGED old

Conflict(w) ==
    /\ ~Creates(w)
    /\ sent' = sent \ {w}
    /\ IF Awaited(w) THEN Becomes(w.call, "reread") \/ AfterError(w.call) ELSE UNCHANGED call
    /\ UNCHANGED <<rows, old>>

\* The caller learns nothing: the creation was lost, or is still to land.
ReplyLost(k) ==
    /\ call[k].step = "sent"
    /\ AfterError(k)
    /\ \/ sent' = sent \ {[call |-> k, stage |-> Here(k)]}
       \/ UNCHANGED sent
    /\ UNCHANGED <<rows, old>>

-----------------------------------------------------------------------------
Next ==
    \/ \E k \in Call, s \in Session, mode \in Mode, kind \in Kind : Start(k, s, mode, kind)
    \/ \E k \in Call : \/ Read(k) \/ ReadWitness(k) \/ Recheck(k)
                       \/ Put(k) \/ Reread(k) \/ ReadFails(k) \/ ReplyLost(k)
    \/ \E w \in sent : Create(w) \/ Conflict(w)

Spec == Init /\ [][Next]_vars
-----------------------------------------------------------------------------
(* Safety.                                                                 *)

Bound(k) == call[k].outcome = "bound"

\* What a successful operation established is in its rows for good: two of
\* them for one session agree on its protocol, and two whose sessions share a
\* name are for one session.  (bindProtocolMode, bindWitness.)
BoundIsDurable ==
    \A k \in Call : Bound(k) =>
        \A i \in DOMAIN Steps(k) :
            LET stage == Steps(k)[i]
            IN  Row(stage, call[k].session) = Value(stage, call[k].session, call[k].mode)

\* A session whose data was written before pins existed is never dispatched
\* under the disposition protocol.  "An old session collision witness without
\* a protocol witness is conservatively legacy" (bindProtocolMode).
OldSessionStaysLegacy ==
    \A s \in old : Row("protocol", s) # Value("protocol", s, "disposition")

\* An operation is refused for a protocol or an identity only if another holds
\* the name for good, never because a creator of its own kind was half way.
\* (The second read of bindProtocolMode.)
RefusedForCause ==
    \A k \in Call :
        LET s == call[k].session
        IN  /\ call[k].outcome = "conflict" =>
                  \/ \E mode \in Mode \ {call[k].mode} : Row("protocol", s) = Value("protocol", s, mode)
                  \/ Found("session", s) /\ Row("session", s).session # s
                  \/ s \in old
            /\ call[k].outcome = "collision" =>
                  \E i \in DOMAIN Steps(k) :
                      LET stage == Steps(k)[i]
                      IN  /\ Found(stage, s)
                          /\ \A mode \in Mode : Row(stage, s) # Value(stage, s, mode)
=============================================================================
