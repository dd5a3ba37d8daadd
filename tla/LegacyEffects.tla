--------------------------- MODULE LegacyEffects ---------------------------
(***************************************************************************)
(* The legacy inbox over its journal implements CommandEffects, as long as *)
(* grants open the journal in their order.                                 *)
(***************************************************************************)
EXTENDS LegacyInbox

Fate(c) ==
    IF ~Stored(c) THEN "absent"
    ELSE IF Terminal(Record(c).state) THEN Record(c).state ELSE "open"

EffectsOf(c) == {i \in DOMAIN journal : journal[i].of = c}

Effects == INSTANCE CommandEffects WITH
    fate <- [c \in Command |-> Fate(c)],
    effects <- [c \in Command |-> Cardinality(EffectsOf(c))]

\* Every step is one of the command's life or none: an effect happens once and
\* to an open command only, whatever is decided, in flight or unread meanwhile.
\* (RejectCommand and CompleteCommand read the journal before they settle.)
ImplementsCommandEffects == Effects!EffectsSpec
=============================================================================
