------------------------ MODULE DispositionEvidence ------------------------
(***************************************************************************)
(* The production evidence reader: what a walk of a session's journal, up  *)
(* to the tip it captured, says of one attempt.                            *)
(*                                                                         *)
(* A frame is an opening fence or a command disposition; frames of other   *)
(* kinds are stepped over by the reader and left out.  `lease` is the      *)
(* grant the frame's own bytes claim.  `by` is the grant that really wrote *)
(* it: no reader sees it, and only properties mention it.  The runtime     *)
(* command id and the command kind are functions of the command, so a      *)
(* frame that names the command agrees on them.                            *)
(***************************************************************************)
EXTENDS DispositionRecord, Sequences, FiniteSets

CONSTANT Command

OpeningFence(epoch) ==
    [frame |-> "fence", lease |-> epoch, by |-> epoch]
CommandDisposition(c, attempt, kind, lease, by) ==
    [frame |-> "disposition", lease |-> lease, by |-> by, cmd |-> c,
     attempt |-> attempt.id, attemptJournal |-> attempt.journal, kind |-> kind]

IsFence(frame) == frame.frame = "fence"

\* f is the nearest opening fence before sequence i.
OpenedBy(log, f, i) ==
    /\ f \in 1..(i - 1)
    /\ IsFence(log[f])
    /\ \A g \in (f + 1)..(i - 1) : ~IsFence(log[g])

\* The sequences of the dispositions that name an attempt.
Naming(log, id) == {i \in DOMAIN log : ~IsFence(log[i]) /\ log[i].attempt = id}

\* Mutant: the frame's own claim is believed.
ClaimedGrant(log, f, i) == log[i].lease
\* The author of a frame is the grant whose fence it stands under.
AuthorGrant(log, f, i) == log[f].lease

\* Mutant: any command's frame will do.
AttributableToAnyCommand(log, f, i, c) ==
    OpenedBy(log, f, i) /\ log[i].lease = AuthorGrant(log, f, i)
\* A frame is accepted when it is about the command, and claims the grant
\* whose fence it stands under.
Attributable(log, f, i, c) ==
    /\ log[i].cmd = c
    /\ OpenedBy(log, f, i)
    /\ log[i].lease = AuthorGrant(log, f, i)

\* What the reader reports of the frame at i: only a recovery closure names
\* its author's fence.
EvidenceAt(log, f, i) ==
    [kind |-> log[i].kind, attempt |-> log[i].attempt,
     attemptJournal |-> log[i].attemptJournal,
     author |-> AuthorGrant(log, f, i), seq |-> i,
     fenceSeq |-> IF log[i].kind = "not_applied" THEN f ELSE 0]

\* The evidence for command c's attempt: none when the reader refuses, which
\* it does for no frame, for more than one, and for one it cannot attribute.
ReadDispositionEvidence(log, c, attempt) ==
    LET named == Naming(log, attempt.id)
    IN  {EvidenceAt(log, x[1], x[2]) :
            x \in {y \in (DOMAIN log) \X named : named = {y[2]} /\ Attributable(log, y[1], y[2], c)}}
=============================================================================
