---------------------------- MODULE PublicCreate ----------------------------
(***************************************************************************)
(* A public caller creates a session together with its first command: a    *)
(* reservation under the command's name, then the session's catalog row,   *)
(* then the command in the inbox.  Each row is created once and whoever     *)
(* comes second is shown what is there.  A caller may stop between any two  *)
(* and come back with other proposals, or with another launch under the    *)
(* same command; others create the session, or admit the command, plainly. *)
(***************************************************************************)
EXTENDS OrderedIndex

CONSTANTS Launch,    \* what a command may be asked to launch: its identity
          Proposal,  \* runtime id, times and workload, the first writer's
          Plain      \* the launch of a row that no public caller created

ASSUME CreateAssumption == Plain \notin Launch

CreatePart == DOMAIN rows = {"reservation", "catalog", "inbox"}

PublicCreateReservation == [launch : Launch, proposal : Proposal]
\* A plain row has proposals of its own, of which none is compared.
PlainRecord == [launch : {Plain}, proposal : Proposal]

\* What callers were told is prepared, and what is admitted.
CreateTypeOK ==
    /\ IndexTypeOK
    /\ Found("reservation") => Record("reservation") \in PublicCreateReservation
    /\ \A i \in {"catalog", "inbox"} :
          Found(i) => Record(i) \in PublicCreateReservation \cup PlainRecord
    /\ told \in [prepared : SUBSET PublicCreateReservation, admitted : SUBSET PublicCreateReservation]

CreateInit ==
    /\ rows = [i \in {"reservation", "catalog", "inbox"} |-> Absent]
    /\ calls = {}
    /\ now = 0
    /\ told = [prepared |-> {}, admitted |-> {}]

-----------------------------------------------------------------------------
\* Mutant: the session is created with the retrying caller's proposals.
WinnerIsCaller(launch, proposal) == [launch |-> launch, proposal |-> proposal]
Winner(launch, proposal) == Record("reservation")

Reserved(launch) == Found("reservation") /\ Record("reservation").launch = launch

Prepared(r) == Found("catalog") /\ Record("catalog") = r

\* The first half of PreparePublicCreate, the reservation, ...
Reserve(launch, proposal) ==
    /\ CreatePart
    /\ OfferAt("reservation", 0, [launch |-> launch, proposal |-> proposal])
    /\ UNCHANGED told

\* ... and the second, the catalog row: the caller's reservation landed, or it
\* was shown one of the same launch.
PreparePublicCreate(launch, proposal) ==
    /\ CreatePart
    /\ Reserved(launch)
    /\ LET r == Winner(launch, proposal)
       IN  IF Found("catalog")
           THEN /\ Prepared(r)
                /\ told' = [told EXCEPT !.prepared = @ \cup {r}]
                /\ UNCHANGED <<rows, calls, now>>
           ELSE OfferAt("catalog", 0, r) /\ UNCHANGED told

CreatePlainCatalogEntry(proposal) ==
    /\ CreatePart
    /\ OfferAt("catalog", 0, [launch |-> Plain, proposal |-> proposal])
    /\ UNCHANGED told

AdmitPublicCreate(launch) ==
    /\ CreatePart
    /\ Reserved(launch)
    /\ Prepared(Record("reservation"))
    /\ IF Found("inbox")
       THEN /\ Record("inbox") = Record("reservation")
            /\ told' = [told EXCEPT !.admitted = @ \cup {Record("inbox")}]
            /\ UNCHANGED <<rows, calls, now>>
       ELSE OfferAt("inbox", 0, Record("reservation")) /\ UNCHANGED told

PlainAdmissible == Found("catalog") /\ Record("catalog").launch = Plain

\* The command's own name, admitted past the public door.
AdmitPlain(proposal) ==
    /\ CreatePart
    /\ PlainAdmissible
    /\ OfferAt("inbox", 0, [launch |-> Plain, proposal |-> proposal])
    /\ UNCHANGED told

\* A caller whose creation landed may not learn of it; one whose creation did
\* not is shown the row that did, or learns of it when it returns.
CreateCommit(w) ==
    /\ Land(w)
    /\ told' \in {told} \cup
         (IF w.rec.launch = Plain \/ w.id = "reservation" THEN {}
          ELSE IF w.id = "catalog" THEN {[told EXCEPT !.prepared = @ \cup {w.rec}]}
          ELSE {[told EXCEPT !.admitted = @ \cup {w.rec}]})

CreateNext ==
    \/ \E launch \in Launch, proposal \in Proposal :
          Reserve(launch, proposal) \/ PreparePublicCreate(launch, proposal)
    \/ \E launch \in Launch : AdmitPublicCreate(launch)
    \/ \E proposal \in Proposal : CreatePlainCatalogEntry(proposal) \/ AdmitPlain(proposal)
    \/ \E w \in calls : CreateCommit(w) \/ Lose(w)

-----------------------------------------------------------------------------
(* Safety.                                                                 *)

\* However often and by whomever a creation is begun, abandoned and begun
\* again, all who are told that it is prepared or admitted are told the same,
\* which is what the reservation, the session and the command hold; and the
\* command's name in a session it created is taken by nothing else.
\* (publicCreateWinner, samePublicCreate and the public-create check of
\* admitDispositionCommand.)
CreateConverges ==
    CreatePart =>
        /\ \A r \in told.prepared : Found("reservation") /\ Record("reservation") = r /\ Prepared(r)
        /\ Found("inbox") => Record("inbox").launch = Record("catalog").launch
        /\ \A r \in told.admitted : Prepared(r) /\ Record("inbox") = r
=============================================================================
