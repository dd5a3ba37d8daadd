--------------------------- MODULE CommandEffects ---------------------------
(***************************************************************************)
(* What the legacy inbox and the journal promise together, with no claims, *)
(* grants, clocks, prefixes or reads: an accepted command takes effect at   *)
(* most once, and is closed as applied only after its effect and as         *)
(* rejected only if it has none and never will.                             *)
(***************************************************************************)
EXTENDS Naturals

CONSTANT Command

VARIABLES fate,     \* absent, open, applied, rejected
          effects   \* how often each command took effect

effectVars == <<fate, effects>>

EffectsInit ==
    /\ fate = [c \in Command |-> "absent"]
    /\ effects = [c \in Command |-> 0]

Accept(c) ==
    /\ fate[c] = "absent"
    /\ fate' = [fate EXCEPT ![c] = "open"]
    /\ UNCHANGED effects

TakeEffect(c) ==
    /\ fate[c] = "open" /\ effects[c] = 0
    /\ effects' = [effects EXCEPT ![c] = 1]
    /\ UNCHANGED fate

Close(c, how) ==
    /\ fate[c] = "open"
    /\ how = IF effects[c] = 0 THEN "rejected" ELSE "applied"
    /\ fate' = [fate EXCEPT ![c] = how]
    /\ UNCHANGED effects

EffectsNext ==
    \E c \in Command :
        \/ Accept(c) \/ TakeEffect(c)
        \/ \E how \in {"applied", "rejected"} : Close(c, how)

EffectsSpec == EffectsInit /\ [][EffectsNext]_effectVars
=============================================================================
