--------------------------- MODULE CommandLedger ---------------------------
(***************************************************************************)
(* What the disposition protocol promises of commands, with no records,    *)
(* revisions, claims, clocks or journals: a command is accepted, then      *)
(* either withdrawn or given one attempt.  Only the attempt is dispatched, *)
(* only to whoever was told of it when it was recorded; the runtime        *)
(* answers at most once; and the command closes the way it was answered.   *)
(***************************************************************************)
EXTENDS Naturals

CONSTANTS Command, AttemptId, NoAttemptId

VARIABLES phase,       \* absent, open, authorized, applied, rejected
          attempt,     \* the attempt a command was given
          dispatchable,\* <<command, attempt>> somebody was told to dispatch
          answer       \* none, executed, refused, closed

ledgerVars == <<phase, attempt, dispatchable, answer>>

LedgerInit ==
    /\ phase = [c \in Command |-> "absent"]
    /\ attempt = [c \in Command |-> NoAttemptId]
    /\ dispatchable = {}
    /\ answer = [c \in Command |-> "none"]

Accept(c) ==
    /\ phase[c] = "absent"
    /\ phase' = [phase EXCEPT ![c] = "open"]
    /\ UNCHANGED <<attempt, dispatchable, answer>>

Withdraw(c) ==
    /\ phase[c] = "open"
    /\ phase' = [phase EXCEPT ![c] = "rejected"]
    /\ UNCHANGED <<attempt, dispatchable, answer>>

Authorize(c, id) ==
    /\ phase[c] = "open"
    /\ phase' = [phase EXCEPT ![c] = "authorized"]
    /\ attempt' = [attempt EXCEPT ![c] = id]
    /\ dispatchable' \in {dispatchable, dispatchable \cup {<<c, id>>}}
    /\ UNCHANGED answer

\* Only a dispatched attempt can be executed or refused; a closure says that
\* it was not.
Answer(c, given) ==
    /\ attempt[c] # NoAttemptId
    /\ answer[c] = "none"
    /\ given \in {"executed", "refused"} => <<c, attempt[c]>> \in dispatchable
    /\ answer' = [answer EXCEPT ![c] = given]
    /\ UNCHANGED <<phase, attempt, dispatchable>>

Settle(c) ==
    /\ phase[c] = "authorized"
    /\ answer[c] # "none"
    /\ phase' = [phase EXCEPT ![c] = IF answer[c] = "executed" THEN "applied" ELSE "rejected"]
    /\ UNCHANGED <<attempt, dispatchable, answer>>

LedgerNext ==
    \E c \in Command :
        \/ Accept(c) \/ Withdraw(c) \/ Settle(c)
        \/ \E id \in AttemptId : Authorize(c, id)
        \/ \E given \in {"executed", "refused", "closed"} : Answer(c, given)

LedgerSpec == LedgerInit /\ [][LedgerNext]_ledgerVars
=============================================================================
