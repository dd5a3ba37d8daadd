------------------------- MODULE DispositionLedger -------------------------
(***************************************************************************)
(* The disposition inbox implements the command ledger.  The answer is     *)
(* read off the journal by who really wrote each frame, not by what the    *)
(* evidence reader makes of it: the reader may refuse a true answer, which *)
(* leaves the command authorized, but never settles one from a false one.  *)
(***************************************************************************)
EXTENDS DispositionInbox

LedgerPhase(c) ==
    IF ~Stored(c) THEN "absent"
    ELSE CASE Record(c).state \in {"pending", "claimed"} -> "open"
           [] Record(c).state = "applying" -> "authorized"
           [] OTHER -> Record(c).state

\* The dispositions of c's own attempt that their true writer could make.
TrueAnswers(c) ==
    LET attempt == Record(c).attempt
    IN  {i \in Naming(journal, attempt.id) :
            /\ journal[i].cmd = c
            /\ IF journal[i].kind = "not_applied"
               THEN journal[i].by > attempt.journal
               ELSE journal[i].by = attempt.journal}

LedgerAnswer(c) ==
    IF TrueAnswers(c) = {} THEN "none"
    ELSE LET kind == journal[CHOOSE i \in TrueAnswers(c) : TRUE].kind
         IN  CASE kind \in {"applied", "no_op"} -> "executed"
               [] kind = "refused" -> "refused"
               [] OTHER -> "closed"

Ledger == INSTANCE CommandLedger WITH
    phase <- [c \in Command |-> LedgerPhase(c)],
    attempt <- [c \in Command |-> Record(c).attempt.id],
    dispatchable <- authorized,
    answer <- [c \in Command |-> LedgerAnswer(c)]

\* Every step of the inbox is a step of the ledger or none: one attempt per
\* command, dispatched only by who was told, settled only as the runtime
\* really answered.  (The four transitions of the disposition inbox.)
ImplementsLedger == Ledger!LedgerSpec
=============================================================================
