----------------------------- MODULE FencedLog -----------------------------
(***************************************************************************)
(* What a session's journal promises its readers, with no leases, tips,    *)
(* replies or retries: a log to which each grant contributes one unbroken  *)
(* run that starts with its opening fence, and nothing after another       *)
(* grant's fence ended that run.  A writer is told of its own records      *)
(* only, in order, and each at the sequence it really has.                 *)
(***************************************************************************)
EXTENDS Naturals, Sequences

CONSTANT Grant

VARIABLES entries,  \* who wrote each record, and whether it opened a run
          told      \* the sequences each grant was told it committed

logVars == <<entries, told>>

LogInit == entries = << >> /\ told = {}

Owner == IF entries = << >> THEN 0 ELSE entries[Len(entries)].by

Opened(e) == \E i \in DOMAIN entries : entries[i].by = e

Open(e) ==
    /\ ~Opened(e)
    /\ entries' = Append(entries, [by |-> e, opens |-> TRUE])
    /\ UNCHANGED told

Extend(e) ==
    /\ Owner = e
    /\ entries' = Append(entries, [by |-> e, opens |-> FALSE])
    /\ UNCHANGED told

\* Nothing of the grant's own is skipped.
Tell(e, seq) ==
    /\ seq \in DOMAIN entries /\ entries[seq].by = e
    /\ \A i \in 1..(seq - 1) : entries[i].by = e => <<i, e>> \in told
    /\ told' = told \cup {<<seq, e>>}
    /\ UNCHANGED entries

LogNext ==
    \E e \in Grant :
        \/ Open(e) \/ Extend(e)
        \/ \E seq \in DOMAIN entries : Tell(e, seq)

LogSpec == LogInit /\ [][LogNext]_logVars
=============================================================================
