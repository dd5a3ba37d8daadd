------------------------- MODULE CommandConsumption -------------------------
(***************************************************************************)
(* A disposition session's commands as its Hosts consume them: in the       *)
(* order the provider accepted them, a page at a time, with the durable     *)
(* cursor of FencedRow.  A Host of any epoch may be consuming; one that     *)
(* was superseded does not know.  The provider is trusted to leave no row   *)
(* out of an answer, and with nothing else; a row may be destroyed or       *)
(* damaged from outside.  Orders are numbered as they come.                 *)
(***************************************************************************)
EXTENDS FencedRow, SequencesExt

CONSTANT MaxPage   \* bound: rows in a page

ASSUME ConsumptionAssumption == MaxPage \in Nat \ {0}

\* stream: order -> whether its row can be vouched for.  Of each Host: where it
\* started, where it goes on, and the orders it was handed.
ConsumptionPart == DOMAIN rows = {"cursor"} /\ "stream" \in DOMAIN told

None == MaxOrder + 1   \* no position: the Host has not started

ConsumptionTypeOK ==
    /\ IndexTypeOK
    /\ Found("cursor") => Record("cursor") \in DispositionCommandCursor
    /\ told.mark \in 0..MaxMark /\ told.order \in Order
    /\ told.stream \in Seq(BOOLEAN) /\ Len(told.stream) <= MaxOrder
    /\ told.from \in [Mark -> Order \cup {None}] /\ told.at \in [Mark -> Order \cup {None}]
    /\ told.handed \in [Mark -> Seq(Order)]

ConsumptionInit ==
    /\ rows = [i \in {"cursor"} |-> Absent]
    /\ calls = {}
    /\ now = 0
    /\ told = [mark |-> 0, order |-> 0, stream |-> << >>, from |-> [e \in Mark |-> None],
               at |-> [e \in Mark |-> None], handed |-> [e \in Mark |-> << >>]]

-----------------------------------------------------------------------------
(* The stream.                                                             *)

AcceptCommand ==
    /\ Len(told.stream) < MaxOrder
    /\ told' = [told EXCEPT !.stream = Append(@, TRUE)]
    /\ UNCHANGED <<rows, calls, now>>

\* A row that does not decode, is filed elsewhere, or was deleted.
Damage(order) ==
    /\ order \in DOMAIN told.stream
    /\ told' = [told EXCEPT !.stream[order] = FALSE]
    /\ UNCHANGED <<rows, calls, now>>

\* What the provider may answer to a listing after `bound`: rows from below it,
\* the same row again, rows in the wrong order or too many, but none left out.
Answers(bound) ==
    {answer \in SeqOf(DOMAIN told.stream, MaxPage + 1) :
        \A order \in DOMAIN told.stream :
            bound < order /\ (\E i \in DOMAIN answer : order < answer[i])
                => \E i \in DOMAIN answer : answer[i] = order}

-----------------------------------------------------------------------------
(* The consumer.                                                           *)

\* Mutant: a row may have the order of the one before it.
FollowsLoosely(previous, order) == previous <= order
Follows(previous, order) == previous < order

Ascending(bound, answer) ==
    \A i \in DOMAIN answer : Follows(IF i = 1 THEN bound ELSE answer[i - 1], answer[i])

\* A page is handed out whole, or the call fails: one row that cannot be vouched
\* for, in any place, fails it.
ListSessionDispositionCommands(e, limit, answer, next) ==
    /\ told.at[e] # None
    /\ Len(answer) <= limit
    /\ Ascending(told.at[e], answer)
    /\ \A i \in DOMAIN answer : told.stream[answer[i]]
    /\ answer # << >> /\ next = Last(answer)
    /\ told' = [told EXCEPT !.handed[e] = @ \o answer, !.at[e] = next]
    /\ UNCHANGED <<rows, calls, now>>

\* A Host starts where the session's cursor is, or at the head of the stream.
StartConsuming(e) ==
    /\ told.at[e] = None
    /\ LET consumed == IF Found("cursor") THEN Record("cursor").order ELSE 0
       IN  told' = [told EXCEPT !.from[e] = consumed, !.at[e] = consumed]
    /\ UNCHANGED <<rows, calls, now>>

\* It acts on a command, then says so: as far as it was handed, or less.
SaveConsumed(e, order) ==
    /\ told.at[e] # None
    /\ order \in (told.from[e] + 1)..told.at[e]
    /\ SaveDispositionCommandCursor(e, order)

ConsumptionNext ==
    \/ AcceptCommand
    \/ \E order \in Order : Damage(order)
    \/ \E e \in Mark :
          \/ StartConsuming(e)
          \/ \E order \in Order : SaveConsumed(e, order)
          \/ /\ told.at[e] # None
             /\ \E limit \in 1..MaxPage, answer \in Answers(told.at[e]), next \in Order :
                    ListSessionDispositionCommands(e, limit, answer, next)
    \/ \E w \in calls : Commit(w) \/ Lose(w)

-----------------------------------------------------------------------------
(* Safety.                                                                 *)

\* No command is passed over: each Host is handed the stream in order, each
\* command once, from where it started; and everything up to the session's
\* cursor was handed to a Host, whichever of them wrote it, whatever rows are
\* destroyed and however the provider answers.  (The page's checks in
\* ListSessionDispositionCommands, which "fails closed on a row it cannot vouch
\* for", and the cursor's two fences.)
NoCommandPassedOver ==
    ConsumptionPart =>
        /\ \A e \in Mark : \A i \in DOMAIN told.handed[e] : told.handed[e][i] = told.from[e] + i
        /\ Found("cursor") =>
              \A order \in 1..Record("cursor").order :
                 \E e \in Mark : \E i \in DOMAIN told.handed[e] : told.handed[e][i] = order
=============================================================================
