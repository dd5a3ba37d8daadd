------------------------- MODULE JournalReadsProofs -------------------------
(***************************************************************************)
(* Theorems about reading a journal: the walk that correlates one command  *)
(* (scanCommandApplication) and the pages of a caller (walkJournal), for   *)
(* every journal its writers can leave, and the frame of a record, for     *)
(* every envelope and whatever becomes of its bytes.                       *)
(*                                                                         *)
(* The walk remembers two records; the meaning of a correlation looks at   *)
(* all of them.  What carries the proof is what the walk's memory says of  *)
(* the records it has read: the best reading among the prefixes whose      *)
(* reading no later record can change, and the one prefix, if any, whose   *)
(* reading the next record decides.                                        *)
(*                                                                         *)
(* Pages and frames both list a finite set of numbers in ascending order.  *)
(* What is shown of Enumerate, by counting, replaces an induction: what    *)
(* two ranges list is what their union lists, and an ascending sequence is *)
(* the only one that lists what it holds.                                  *)
(***************************************************************************)
EXTENDS JournalReads, FiniteSetTheorems, TLAPS

Entry == [kind : EnvelopeKind, lease : Nat, cmd : Command \cup {NoCommand}, mapped : BOOLEAN]

\* What the walk remembers.
Application ==
    [outcome : Outcome, prefix : Nat, epoch : Nat, effect : Nat, superseding : Nat,
     pending : Nat, prefixBefore : BOOLEAN]

\* One log continues another.
Continues(log, longer) ==
    /\ log \in Seq(Entry) /\ longer \in Seq(Entry)
    /\ Len(log) <= Len(longer)
    /\ \A i \in DOMAIN log : longer[i] = log[i]

-----------------------------------------------------------------------------
(* The relation of InboxCorrelation.                                       *)

\* The places of a log hold records.
LEMMA LogDomain ==
    ASSUME NEW log \in Seq(Entry)
    PROVE  /\ Len(log) \in Nat /\ DOMAIN log = 1..Len(log)
           /\ \A i \in DOMAIN log : log[i] \in Entry
OBVIOUS

\* The outcomes are totally ranked, an absent one lowest.
LEMMA OutcomesRanked ==
    ASSUME NEW a \in Outcome, NEW b \in Outcome
    PROVE  /\ Precedence[a] \in 0..4
           /\ Precedence[a] = Precedence[b] => a = b
           /\ Precedence[a] = 0 <=> a = "absent"
           /\ Precedence[a] = 4 <=> a = "conflicted"
           /\ Precedence[a] = 3 <=> a = "committed"
BY DEF Outcome, Precedence

\* The reading of a prefix, case by case.
LEMMA FindingIs ==
    ASSUME NEW log, NEW i
    PROVE  Finding(log, i) =
              IF ~log[i].mapped THEN "conflicted"
              ELSE IF Stacked(log, i) THEN "unresolved"
              ELSE IF FollowedBy(log, i, "public_event") THEN "committed"
              ELSE IF FencedOff(log, i) THEN "abandoned" ELSE "unresolved"
BY DEF Finding

\* A prefix has a reading.
LEMMA FindingIsOutcome ==
    ASSUME NEW log, NEW i
    PROVE  Finding(log, i) \in Outcome \ {"absent"}
BY FindingIs DEF Outcome

\* Later records change the reading of the last record at most.
LEMMA FindingsSettle ==
    ASSUME NEW log, NEW longer, Continues(log, longer), NEW i \in DOMAIN log,
           i < Len(log) \/ ~log[i].mapped \/ Stacked(log, i)
    PROVE  Finding(longer, i) = Finding(log, i)
<1>1. /\ Len(log) \in Nat /\ DOMAIN log = 1..Len(log) /\ i \in 1..Len(log)
      /\ Len(longer) \in Nat /\ Len(log) <= Len(longer) /\ longer[i] = log[i]
      /\ \A j \in 1..Len(log) : longer[j] = log[j]
  BY LogDomain DEF Continues
<1>2. Stacked(longer, i) <=> Stacked(log, i)
  BY <1>1 DEF Stacked
<1>3. i < Len(log) =>
        /\ FencedOff(longer, i) <=> FencedOff(log, i)
        /\ \A kind : FollowedBy(longer, i, kind) <=> FollowedBy(log, i, kind)
  BY <1>1 DEF FencedOff, FollowedBy
<1> QED
  BY <1>1, <1>2, <1>3, FindingIs

\* i has the best reading of a set of prefixes, the latest of them.
Leads(log, S, i) ==
    /\ i \in S
    /\ \A j \in S \ {i} : \/ Precedence[Finding(log, j)] < Precedence[Finding(log, i)]
                          \/ Finding(log, j) = Finding(log, i) /\ j < i

\* The deciding prefix of a correlation is the one that leads.
LEMMA DecidingLeads ==
    ASSUME NEW log, NEW c, NEW i
    PROVE  i \in Deciding(log, c) <=> Leads(log, Naming(log, c), i)
BY DEF Deciding, Leads

\* At most one leads.
LEMMA OneLeads ==
    ASSUME NEW log \in Seq(Entry), NEW S, S \subseteq DOMAIN log, NEW i, NEW j,
           Leads(log, S, i), Leads(log, S, j)
    PROVE  i = j
<1>1. i \in Nat /\ j \in Nat
  BY LogDomain DEF Leads
<1>2. Precedence[Finding(log, i)] \in Nat /\ Precedence[Finding(log, j)] \in Nat
  BY FindingIsOutcome, OutcomesRanked
<1> QED
  BY <1>1, <1>2 DEF Leads

\* A later prefix takes the lead unless its reading is worse.
LEMMA LeadsGrows ==
    ASSUME NEW log \in Seq(Entry), NEW S, S \subseteq DOMAIN log, NEW p, Leads(log, S, p),
           NEW i \in DOMAIN log, \A j \in S : j < i
    PROVE  Leads(log, S \cup {i},
                 IF Precedence[Finding(log, i)] < Precedence[Finding(log, p)] THEN p ELSE i)
<1>1. \A j \in S \cup {i} : j \in Nat
  BY LogDomain
<1>2. \A j, k : /\ Precedence[Finding(log, j)] \in Nat
                /\ Precedence[Finding(log, j)] = Precedence[Finding(log, k)] => Finding(log, j) = Finding(log, k)
  BY FindingIsOutcome, OutcomesRanked
<1>3. p \in S /\ p < i
  BY DEF Leads
<1>4. ASSUME NEW j \in S PROVE Precedence[Finding(log, j)] <= Precedence[Finding(log, p)]
  BY <1>2 DEF Leads
<1>5. CASE Precedence[Finding(log, i)] < Precedence[Finding(log, p)]
  BY <1>3, <1>5 DEF Leads
<1>6. CASE ~(Precedence[Finding(log, i)] < Precedence[Finding(log, p)])
  <2>1. ASSUME NEW j \in S
        PROVE  \/ Precedence[Finding(log, j)] < Precedence[Finding(log, i)]
               \/ Finding(log, j) = Finding(log, i) /\ j < i
    BY <1>2, <1>4, <1>6
  <2> QED
    BY <1>6, <2>1 DEF Leads
<1> QED
  BY <1>5, <1>6

\* A single prefix leads.
LEMMA FirstLeads ==
    ASSUME NEW log, NEW i
    PROVE  Leads(log, {i}, i)
BY DEF Leads

\* The lead among settled prefixes stands whatever is appended.
LEMMA LeadsKept ==
    ASSUME NEW log, NEW longer, NEW S, NEW p, Leads(log, S, p),
           \A i \in S : Finding(longer, i) = Finding(log, i)
    PROVE  Leads(longer, S, p)
BY DEF Leads

-----------------------------------------------------------------------------
(* What a log leaves open: the correlated prefix at its end.               *)

Awaits(log, c, i) == i = Len(log) /\ i \in Naming(log, c) /\ log[i].mapped /\ ~Stacked(log, i)
Awaiting(log, c) == IF Awaits(log, c, Len(log)) THEN Len(log) ELSE 0
Settled(log, c) == Naming(log, c) \ {Awaiting(log, c)}

\* What is settled reads the same in every longer log.
LEMMA SettledFindings ==
    ASSUME NEW log, NEW longer, Continues(log, longer), NEW c, NEW i \in Settled(log, c)
    PROVE  Finding(longer, i) = Finding(log, i)
<1>1. i \in DOMAIN log /\ DOMAIN log = 1..Len(log) /\ Len(log) \in Nat
  BY LogDomain DEF Settled, Naming, Continues
<1>2. i < Len(log) \/ ~log[i].mapped \/ Stacked(log, i)
  BY <1>1 DEF Settled, Awaiting, Awaits
<1> QED
  BY <1>1, <1>2, FindingsSettle

\* The open prefix is the last record; all others are settled.
LEMMA AwaitingIsLast ==
    ASSUME NEW log \in Seq(Entry), NEW c
    PROVE  /\ Awaiting(log, c) # 0 =>
                /\ Naming(log, c) = Settled(log, c) \cup {Awaiting(log, c)}
                /\ Awaiting(log, c) \in DOMAIN log /\ Awaiting(log, c) = Len(log)
                /\ \A j \in Settled(log, c) : j < Awaiting(log, c)
                /\ log[Awaiting(log, c)].mapped /\ ~Stacked(log, Awaiting(log, c))
           /\ Awaiting(log, c) = 0 => Naming(log, c) = Settled(log, c)
           /\ Settled(log, c) \subseteq DOMAIN log /\ Naming(log, c) \subseteq DOMAIN log
BY LogDomain DEF Awaiting, Awaits, Settled, Naming

\* One more record: the prefix that was open is settled, and the record is
\* a settled prefix of the command, an open one, or none of its.
LEMMA OneMoreRecord ==
    ASSUME NEW log, NEW longer, Continues(log, longer), NEW n, n = Len(longer), n = Len(log) + 1, NEW c
    PROVE  /\ Naming(longer, c) = IF IsPrefix(longer[n]) /\ longer[n].cmd = c
                                  THEN Naming(log, c) \cup {n} ELSE Naming(log, c)
           /\ Awaiting(longer, c) = IF /\ IsPrefix(longer[n]) /\ longer[n].cmd = c
                                       /\ longer[n].mapped /\ ~Stacked(longer, n)
                                    THEN n ELSE 0
           /\ Settled(longer, c) = IF /\ IsPrefix(longer[n]) /\ longer[n].cmd = c
                                      /\ ~longer[n].mapped \/ Stacked(longer, n)
                                   THEN Naming(log, c) \cup {n} ELSE Naming(log, c)
           /\ n \in DOMAIN longer /\ n # 0
           /\ \A j \in Naming(log, c) : j < n
           /\ Naming(log, c) \subseteq DOMAIN longer
<1>1. /\ Len(log) \in Nat /\ DOMAIN log = 1..Len(log) /\ DOMAIN longer = 1..n
      /\ \A i \in 1..Len(log) : longer[i] = log[i]
      /\ longer \in Seq(Entry)
  BY LogDomain DEF Continues
<1>2. DOMAIN longer = DOMAIN log \cup {n} /\ n \notin DOMAIN log /\ n # 0 /\ 0 \notin DOMAIN longer
  BY <1>1
<1>3. /\ Naming(log, c) \subseteq DOMAIN log
      /\ Naming(longer, c) = IF IsPrefix(longer[n]) /\ longer[n].cmd = c
                             THEN Naming(log, c) \cup {n} ELSE Naming(log, c)
  <2>1. Naming(log, c) \subseteq DOMAIN log
    BY DEF Naming
  <2>2. \A i \in DOMAIN log : i \in Naming(longer, c) <=> i \in Naming(log, c)
    BY <1>1, <1>2 DEF Naming
  <2>3. n \in Naming(longer, c) <=> IsPrefix(longer[n]) /\ longer[n].cmd = c
    BY <1>2 DEF Naming, IsPrefix
  <2>4. Naming(longer, c) \subseteq DOMAIN log \cup {n}
    BY <1>2 DEF Naming
  <2> QED
    BY <1>2, <2>1, <2>2, <2>3, <2>4
<1>4. Awaits(longer, c, n) <=> /\ IsPrefix(longer[n]) /\ longer[n].cmd = c
                               /\ longer[n].mapped /\ ~Stacked(longer, n)
  BY <1>2 DEF Awaits, Naming, IsPrefix
<1>5. Awaiting(longer, c) = IF Awaits(longer, c, n) THEN n ELSE 0
  BY DEF Awaiting
<1>6. \A j \in DOMAIN log : j < n
  BY <1>1
<1> QED
  BY <1>2, <1>3, <1>4, <1>5, <1>6 DEF Settled

Led(log, S) == S = {} \/ \E i : Leads(log, S, i)

\* A later prefix leaves one that leads.
LEMMA LedGrows ==
    ASSUME NEW log \in Seq(Entry), NEW S, S \subseteq DOMAIN log, Led(log, S),
           NEW i \in DOMAIN log, \A j \in S : j < i
    PROVE  Led(log, S \cup {i})
<1>1. CASE S = {}
  <2>1. S \cup {i} = {i}
    BY <1>1
  <2> QED
    BY <2>1, FirstLeads DEF Led
<1>2. ASSUME NEW p, Leads(log, S, p) PROVE Led(log, S \cup {i})
  BY <1>2, LeadsGrows DEF Led
<1> QED
  BY <1>1, <1>2 DEF Led

\* Among settled prefixes one always leads: the walk's memory can exist.
LEMMA SettledLed ==
    ASSUME NEW log, NEW longer, Continues(log, longer), Len(longer) = Len(log) + 1, NEW c,
           Led(log, Settled(log, c))
    PROVE  Led(longer, Settled(longer, c))
<1> DEFINE n == Len(longer)
           P == Awaiting(log, c)
<1>1. Led(longer, Settled(log, c))
  BY SettledFindings, LeadsKept DEF Led
<1>2. longer \in Seq(Entry) /\ log \in Seq(Entry)
  BY DEF Continues
<1>3. DOMAIN log \subseteq DOMAIN longer
  BY <1>2, LogDomain DEF Continues
<1> HIDE DEF P
<1>4. Led(longer, Naming(log, c))
  <2>1. CASE P = 0
    BY <1>1, <1>2, <2>1, AwaitingIsLast DEF P
  <2>2. CASE P # 0
    <3>1. /\ Naming(log, c) = Settled(log, c) \cup {P} /\ P \in DOMAIN longer
          /\ Settled(log, c) \subseteq DOMAIN longer /\ \A j \in Settled(log, c) : j < P
      BY <1>2, <1>3, <2>2, AwaitingIsLast DEF P
    <3>2. Led(longer, Settled(log, c) \cup {P})
      BY <1>1, <1>2, <3>1, LedGrows
    <3> QED
      BY <3>1, <3>2
  <2> QED
    BY <2>1, <2>2
<1>5. /\ Settled(longer, c) = Naming(log, c) \cup {n} \/ Settled(longer, c) = Naming(log, c)
      /\ n \in DOMAIN longer /\ Naming(log, c) \subseteq DOMAIN longer
      /\ \A j \in Naming(log, c) : j < n
  BY OneMoreRecord
<1> HIDE DEF n
<1>6. Led(longer, Naming(log, c) \cup {n})
  BY <1>2, <1>4, <1>5, LedGrows
<1> QED
  BY <1>4, <1>5, <1>6

\* So one leads among all prefixes of any log, the open one included.
LEMMA AllLed ==
    ASSUME NEW log \in Seq(Entry), NEW c, Led(log, Settled(log, c))
    PROVE  Led(log, Naming(log, c))
<1>1. CASE Awaiting(log, c) = 0
  BY <1>1, AwaitingIsLast
<1>2. CASE Awaiting(log, c) # 0
  BY <1>2, AwaitingIsLast, LedGrows
<1> QED
  BY <1>1, <1>2

\* The places of a log that is one record longer.
LEMMA LongerDomain ==
    ASSUME NEW log, NEW longer, Continues(log, longer), NEW n, n = Len(longer), n = Len(log) + 1
    PROVE  /\ log \in Seq(Entry) /\ longer \in Seq(Entry) /\ Len(log) \in Nat /\ n \in Nat /\ n # 0
           /\ DOMAIN log = 1..Len(log) /\ DOMAIN longer = 1..n /\ n \in DOMAIN longer
           /\ \A j \in DOMAIN log : longer[j] = log[j] /\ j \in DOMAIN longer
           /\ longer[n] \in Entry
<1>1. log \in Seq(Entry) /\ longer \in Seq(Entry) /\ \A j \in DOMAIN log : longer[j] = log[j]
  BY DEF Continues
<1>2. Len(log) \in Nat /\ DOMAIN log = 1..Len(log) /\ DOMAIN longer = 1..n
  BY <1>1, LogDomain
<1> QED
  BY <1>1, <1>2, LogDomain

-----------------------------------------------------------------------------
(* The highest opening fence.                                              *)

Leases(log) == {log[i].lease : i \in {k \in DOMAIN log : log[k].kind = "opening_fence"}}
Highest(log, e) == e \in Leases(log) \cup {0} /\ \A f \in Leases(log) : f <= e

\* Fences carry numbers.
LEMMA LeasesAreNumbers ==
    ASSUME NEW log \in Seq(Entry)
    PROVE  Leases(log) \subseteq Nat
<1>1. \A i \in DOMAIN log : log[i].lease \in Nat
  BY LogDomain DEF Entry
<1> QED
  BY <1>1 DEF Leases

\* There is one highest fence.
LEMMA SupersedingIs ==
    ASSUME NEW log \in Seq(Entry), NEW e, Highest(log, e)
    PROVE  SupersedingEpoch(log) = e
<1>1. Leases(log) \subseteq Nat
  BY LeasesAreNumbers
<1>2. ASSUME NEW f \in Leases(log) \cup {0}, \A g \in Leases(log) : g <= f PROVE f = e
  BY <1>1, <1>2 DEF Highest
<1>3. SupersedingEpoch(log) = CHOOSE f \in Leases(log) \cup {0} : \A g \in Leases(log) : g <= f
  BY DEF SupersedingEpoch, Leases
<1> HIDE DEF Leases
<1> QED
  BY <1>2, <1>3 DEF Highest

\* One more record leaves the highest fence, or is it.
LEMMA HighestGrows ==
    ASSUME NEW log, NEW longer, Continues(log, longer), NEW n, n = Len(longer), n = Len(log) + 1,
           NEW e, Highest(log, e)
    PROVE  Highest(longer, IF longer[n].kind = "opening_fence" /\ longer[n].lease > e
                           THEN longer[n].lease ELSE e)
<1>1. /\ Len(log) \in Nat /\ DOMAIN log = 1..Len(log) /\ DOMAIN longer = 1..n
      /\ \A i \in DOMAIN log : longer[i] = log[i]
      /\ longer \in Seq(Entry) /\ log \in Seq(Entry)
  BY LogDomain DEF Continues
<1>2. DOMAIN longer = DOMAIN log \cup {n}
  BY <1>1
<1>3. Leases(longer) = IF longer[n].kind = "opening_fence" THEN Leases(log) \cup {longer[n].lease} ELSE Leases(log)
  BY <1>1, <1>2 DEF Leases
<1>4. Leases(log) \subseteq Nat /\ longer[n].lease \in Nat /\ e \in Nat
  <2>1. n \in DOMAIN longer
    BY <1>2
  <2>2. longer[n] \in Entry /\ Leases(log) \subseteq Nat
    BY <1>1, <2>1, LeasesAreNumbers, LogDomain
  <2> QED
    BY <2>2 DEF Highest, Entry
<1>5. e \in Leases(log) \cup {0} /\ \A f \in Leases(log) : f <= e
  BY DEF Highest
<1> HIDE DEF Leases
<1>6. CASE longer[n].kind = "opening_fence" /\ longer[n].lease > e
  <2>1. \A f \in Leases(log) : f <= longer[n].lease
    BY <1>4, <1>5, <1>6
  <2> QED
    BY <1>3, <1>4, <1>6, <2>1 DEF Highest
<1>7. CASE ~(longer[n].kind = "opening_fence" /\ longer[n].lease > e)
  BY <1>3, <1>4, <1>5, <1>7 DEF Highest
<1> QED
  BY <1>6, <1>7

-----------------------------------------------------------------------------
(* What a walk's memory says of a set of prefixes of a log.                *)

Says(log, S, app) ==
    IF S = {} THEN app.outcome = "absent" /\ app.prefix = 0 /\ app.epoch = 0 /\ app.effect = 0
    ELSE /\ Leads(log, S, app.prefix)
         /\ app.outcome = Finding(log, app.prefix)
         /\ app.epoch = log[app.prefix].lease
         /\ app.effect = IF app.outcome = "committed" THEN app.prefix + 1 ELSE 0

\* When it speaks of all prefixes it is the correlation.
LEMMA ApplicationIs ==
    ASSUME NEW log \in Seq(Entry), NEW c, NEW app, Says(log, Naming(log, c), app),
           Highest(log, app.superseding)
    PROVE  CommandApplication(log, c) =
              [outcome |-> app.outcome, prefix |-> app.prefix, epoch |-> app.epoch,
               effect |-> app.effect, superseding |-> app.superseding]
<1>1. SupersedingEpoch(log) = app.superseding
  BY SupersedingIs
<1>2. CASE Naming(log, c) = {}
  BY <1>1, <1>2 DEF CommandApplication, Says
<1>3. CASE Naming(log, c) # {}
  <2>1. Deciding(log, c) = {app.prefix}
    BY <1>3, DecidingLeads, OneLeads, AwaitingIsLast DEF Says
  <2>2. (CHOOSE i \in Deciding(log, c) : TRUE) = app.prefix
    BY <2>1
  <2> QED
    BY <1>1, <1>3, <2>2 DEF CommandApplication, Says
<1> QED
  BY <1>2, <1>3

\* What the memory says of settled prefixes, it says of a longer log.
LEMMA SaysKept ==
    ASSUME NEW log, NEW longer, Continues(log, longer), NEW S, S \subseteq DOMAIN log, NEW app,
           \A i \in S : Finding(longer, i) = Finding(log, i), Says(log, S, app)
    PROVE  Says(longer, S, app)
BY LeadsKept DEF Says, Continues, Leads

Remembers(log, S, app) == app \in Application /\ Says(log, S, app)

Later(log, S, i) ==
    /\ log \in Seq(Entry) /\ S \subseteq DOMAIN log /\ i \in DOMAIN log
    /\ \A j \in S : j < i
    /\ journal[i] = log[i]

\* The walk files the reading of prefix i.
Files(log, i, app, new) ==
    new = Observe(app, Finding(log, i), i, IF Finding(log, i) = "committed" THEN i + 1 ELSE 0)

\* What Observe leaves alone.
SameElse(app, new) ==
    new.superseding = app.superseding /\ new.pending = app.pending /\ new.prefixBefore = app.prefixBefore

\* Observe takes one more prefix into account, the latest.
LEMMA ObserveAdds ==
    ASSUME NEW log, NEW S, NEW i, Later(log, S, i),
           NEW app, Remembers(log, S, app),
           NEW new, Files(log, i, app, new)
    PROVE  Remembers(log, S \cup {i}, new) /\ SameElse(app, new)
<1> DEFINE outcome == Finding(log, i)
           effect == IF outcome = "committed" THEN i + 1 ELSE 0
<1> DEFINE taken == [app EXCEPT !.outcome = outcome, !.prefix = i, !.epoch = journal[i].lease, !.effect = effect]
<1> USE DEF Later, Remembers, Files, SameElse
<1>0. new = Observe(app, outcome, i, effect) /\ app \in Application /\ Says(log, S, app)
  BY DEF Files
<1>1. /\ i \in Nat /\ log[i].lease \in Nat /\ outcome \in Outcome /\ outcome # "absent" /\ effect \in Nat
  <2>1. i \in Nat /\ log[i] \in Entry
    BY LogDomain
  <2>2. log[i].lease \in Nat
    BY <2>1 DEF Entry
  <2>3. outcome \in Outcome \ {"absent"}
    BY FindingIsOutcome
  <2> QED
    BY <2>1, <2>2, <2>3
<1>2. /\ taken \in Application
      /\ taken.outcome = outcome /\ taken.prefix = i /\ taken.epoch = log[i].lease /\ taken.effect = effect
      /\ taken.superseding = app.superseding /\ taken.pending = app.pending
      /\ taken.prefixBefore = app.prefixBefore
  BY <1>0, <1>1 DEF Application
<1>3. new =
          IF Precedence[outcome] < Precedence[app.outcome] THEN app ELSE taken
  BY <1>0 DEF Observe
<1> HIDE DEF taken, effect
<1>4. /\ Precedence[outcome] \in Nat /\ Precedence[app.outcome] \in Nat
      /\ app.outcome = "absent" => Precedence[app.outcome] = 0
  BY <1>0, <1>1, OutcomesRanked DEF Application
<1>5. CASE S = {}
  <2>1. Leads(log, S \cup {i}, i)
    <3>1. S \cup {i} = {i}
      BY <1>5
    <3> QED
      BY <3>1, FirstLeads
  <2>2. new = taken
    BY <1>0, <1>3, <1>4, <1>5 DEF Says
  <2>3. effect = IF outcome = "committed" THEN i + 1 ELSE 0
    BY DEF effect
  <2> QED
    BY <1>2, <2>1, <2>2, <2>3 DEF Says
<1>6. CASE S # {}
  <2>1. Leads(log, S, app.prefix) /\ app.outcome = Finding(log, app.prefix)
    BY <1>0, <1>6 DEF Says
  <2>2. Leads(log, S \cup {i}, IF Precedence[outcome] < Precedence[app.outcome] THEN app.prefix ELSE i)
    BY <2>1, LeadsGrows
  <2>3. CASE Precedence[outcome] < Precedence[app.outcome]
    BY <1>0, <1>3, <1>6, <2>2, <2>3 DEF Says
  <2>4. CASE ~(Precedence[outcome] < Precedence[app.outcome])
    BY <1>2, <1>3, <2>2, <2>4 DEF Says, effect
  <2> QED
    BY <2>3, <2>4
<1> QED
  BY <1>5, <1>6

-----------------------------------------------------------------------------
(* The walk.  After n records its memory is the settled prefixes' verdict,  *)
(* the open prefix, whether the last record was a prefix, and the highest  *)
(* fence.                                                                  *)

Summary(log, c, app) ==
    /\ app \in Application
    /\ app.pending = Awaiting(log, c)
    /\ app.prefixBefore <=> Len(log) # 0 /\ IsPrefix(log[Len(log)])
    /\ Highest(log, app.superseding)
    /\ Says(log, Settled(log, c), app)

\* The walk reads record n: the log it has read grows from log to longer.
Reads(log, longer, n) ==
    /\ Continues(log, longer) /\ n = Len(longer) /\ n = Len(log) + 1
    /\ \A i \in DOMAIN longer : journal[i] = longer[i]

\* What Resolve makes of the open prefix is its reading once it is followed.
LEMMA ResolveAdds ==
    ASSUME NEW log, NEW longer, NEW n, Reads(log, longer, n), NEW c,
           NEW app, app \in Application, app.pending = Awaiting(log, c), Says(log, Settled(log, c), app),
           NEW new, new = Resolve(app, n)
    PROVE  /\ new \in Application /\ Says(longer, Naming(log, c), new)
           /\ new.superseding = app.superseding /\ new.prefixBefore = app.prefixBefore
<1> DEFINE i == Awaiting(log, c)
<1>1. /\ log \in Seq(Entry) /\ longer \in Seq(Entry) /\ Len(log) \in Nat
      /\ DOMAIN log = 1..Len(log) /\ DOMAIN longer = 1..n /\ n \in DOMAIN longer
      /\ \A j \in DOMAIN log : longer[j] = log[j] /\ j \in DOMAIN longer
  BY LongerDomain DEF Reads
<1>2. Says(longer, Settled(log, c), app)
  BY <1>1, SaysKept, SettledFindings, AwaitingIsLast DEF Reads
<1>3. CASE i = 0
  BY <1>1, <1>2, <1>3, AwaitingIsLast DEF Resolve
<1>4. CASE i # 0
  <2>1. /\ Naming(log, c) = Settled(log, c) \cup {i} /\ i = Len(log) /\ i \in DOMAIN log
        /\ Settled(log, c) \subseteq DOMAIN log /\ \A j \in Settled(log, c) : j < i
        /\ log[i].mapped /\ ~Stacked(log, i)
    BY <1>1, <1>4, AwaitingIsLast
  <2> HIDE DEF i
  <2>2. /\ i \in DOMAIN longer /\ i \in Nat /\ i + 1 = n /\ i < n /\ longer[i] = log[i] /\ longer[i].mapped
        /\ Settled(log, c) \subseteq DOMAIN longer /\ journal[i] = longer[i] /\ journal[n] = longer[n]
    BY <1>1, <2>1 DEF Reads
  <2>7. n = Len(longer)
    BY DEF Reads
  <2>3. ~Stacked(longer, i)
    <3>1. i > 1 => longer[i - 1] = log[i - 1]
      BY <1>1, <2>1
    <3> QED
      BY <2>1, <3>1 DEF Stacked
  <2>4. /\ \A kind : FollowedBy(longer, i, kind) <=> journal[n].kind = kind
        /\ FencedOff(longer, i) <=> journal[n].kind = "opening_fence" /\ journal[n].lease > journal[i].lease
    BY <2>2, <2>7 DEF FollowedBy, FencedOff
  <2>5. Finding(longer, i) = IF journal[n].kind = "public_event" THEN "committed"
                             ELSE IF journal[n].kind = "opening_fence" /\ journal[n].lease > journal[i].lease
                             THEN "abandoned" ELSE "unresolved"
    BY <2>2, <2>3, <2>4, FindingIs
  <2>6. Resolve(app, n) = Observe(app, Finding(longer, i), i, IF Finding(longer, i) = "committed" THEN i + 1 ELSE 0)
    BY <1>4, <2>2, <2>5 DEF Resolve, i
  <2> QED
    <3>1. Files(longer, i, app, new) /\ Remembers(longer, Settled(log, c), app)
      BY <1>2, <2>6 DEF Files, Remembers
    <3>2. Later(longer, Settled(log, c), i)
      BY <1>1, <2>1, <2>2 DEF Later
    <3>3. Remembers(longer, Settled(log, c) \cup {i}, new) /\ SameElse(app, new)
      BY <3>1, <3>2, ObserveAdds
    <3> QED
      BY <2>1, <3>3 DEF Remembers, SameElse
<1> QED
  BY <1>3, <1>4

\* Meet files the record itself: settled at once, left open, or not the command's.
LEMMA MeetAdds ==
    ASSUME NEW log, NEW longer, NEW n, Reads(log, longer, n), NEW c,
           NEW app, app \in Application, Says(longer, Naming(log, c), app),
           app.prefixBefore <=> Len(log) # 0 /\ IsPrefix(log[Len(log)]),
           NEW new, new = Meet(app, n, c)
    PROVE  /\ new \in Application /\ Says(longer, Settled(longer, c), new)
           /\ new.pending = Awaiting(longer, c) /\ new.superseding = app.superseding
<1> DEFINE cleared == [app EXCEPT !.pending = 0]
           opened == [app EXCEPT !.pending = n]
<1>1. /\ log \in Seq(Entry) /\ longer \in Seq(Entry) /\ Len(log) \in Nat
      /\ DOMAIN log = 1..Len(log) /\ DOMAIN longer = 1..n /\ n \in DOMAIN longer /\ n \in Nat
      /\ \A j \in DOMAIN log : longer[j] = log[j]
      /\ journal[n] = longer[n] /\ n = Len(log) + 1
  <2>1. Continues(log, longer) /\ n = Len(longer) /\ n = Len(log) + 1
    BY DEF Reads
  <2>2. /\ log \in Seq(Entry) /\ longer \in Seq(Entry) /\ Len(log) \in Nat
        /\ DOMAIN log = 1..Len(log) /\ DOMAIN longer = 1..n /\ n \in DOMAIN longer /\ n \in Nat
        /\ \A j \in DOMAIN log : longer[j] = log[j]
    BY <2>1, LongerDomain
  <2> QED
    BY <2>1, <2>2 DEF Reads
<1>2. /\ cleared \in Application /\ Says(longer, Naming(log, c), cleared)
      /\ cleared.pending = 0 /\ cleared.superseding = app.superseding
  BY DEF Application, Says
<1>3. /\ opened \in Application /\ Says(longer, Naming(log, c), opened)
      /\ opened.pending = n /\ opened.superseding = app.superseding
  BY <1>1 DEF Application, Says
<1>4. app.prefixBefore <=> Stacked(longer, n)
  <2>1. n > 1 => longer[n - 1] = log[Len(log)] /\ n - 1 = Len(log)
    BY <1>1
  <2> QED
    BY <1>1, <2>1 DEF Stacked, IsPrefix
<1>5. Meet(app, n, c) =
          IF ~(IsPrefix(longer[n]) /\ longer[n].cmd = c) THEN cleared
          ELSE IF ~longer[n].mapped THEN Observe(cleared, "conflicted", n, 0)
          ELSE IF Stacked(longer, n) THEN Observe(cleared, "unresolved", n, 0)
          ELSE opened
  BY <1>1, <1>4 DEF Meet
<1> HIDE DEF cleared, opened
<1>6. /\ Awaiting(longer, c) = IF /\ IsPrefix(longer[n]) /\ longer[n].cmd = c
                                  /\ longer[n].mapped /\ ~Stacked(longer, n)
                               THEN n ELSE 0
      /\ Settled(longer, c) = IF /\ IsPrefix(longer[n]) /\ longer[n].cmd = c
                                 /\ ~longer[n].mapped \/ Stacked(longer, n)
                              THEN Naming(log, c) \cup {n} ELSE Naming(log, c)
      /\ \A j \in Naming(log, c) : j < n
      /\ Naming(log, c) \subseteq DOMAIN longer
  <2>1. Continues(log, longer) /\ n = Len(longer) /\ n = Len(log) + 1
    BY DEF Reads
  <2>2. Awaiting(longer, c) = IF /\ IsPrefix(longer[n]) /\ longer[n].cmd = c
                                 /\ longer[n].mapped /\ ~Stacked(longer, n)
                              THEN n ELSE 0
    BY <2>1, OneMoreRecord
  <2>3. Settled(longer, c) = IF /\ IsPrefix(longer[n]) /\ longer[n].cmd = c
                                /\ ~longer[n].mapped \/ Stacked(longer, n)
                             THEN Naming(log, c) \cup {n} ELSE Naming(log, c)
    BY <2>1, OneMoreRecord
  <2>4. (\A j \in Naming(log, c) : j < n) /\ Naming(log, c) \subseteq DOMAIN longer
    BY <2>1, OneMoreRecord
  <2> QED
    BY <2>2, <2>3, <2>4
<1>7. CASE ~(IsPrefix(longer[n]) /\ longer[n].cmd = c)
  BY <1>2, <1>5, <1>6, <1>7
<1>8. CASE /\ IsPrefix(longer[n]) /\ longer[n].cmd = c
           /\ longer[n].mapped /\ ~Stacked(longer, n)
  BY <1>3, <1>5, <1>6, <1>8
<1>9. CASE /\ IsPrefix(longer[n]) /\ longer[n].cmd = c
           /\ ~longer[n].mapped \/ Stacked(longer, n)
  <2> DEFINE finding == IF longer[n].mapped THEN "unresolved" ELSE "conflicted"
  <2>1. Finding(longer, n) = finding /\ finding # "committed"
    BY <1>9, FindingIs
  <2>2. Meet(app, n, c) = Observe(cleared, finding, n, 0)
    BY <1>5, <1>9
  <2> HIDE DEF finding
  <2>3. /\ new \in Application /\ Says(longer, Naming(log, c) \cup {n}, new)
        /\ new.superseding = cleared.superseding /\ new.pending = cleared.pending
    <3>1. Later(longer, Naming(log, c), n)
      BY <1>1, <1>6 DEF Later
    <3>2. Files(longer, n, cleared, new) /\ Remembers(longer, Naming(log, c), cleared)
      BY <1>2, <2>1, <2>2 DEF Files, Remembers
    <3>3. Remembers(longer, Naming(log, c) \cup {n}, new) /\ SameElse(cleared, new)
      BY <3>1, <3>2, ObserveAdds
    <3> QED
      BY <3>3 DEF Remembers, SameElse
  <2> QED
    BY <1>2, <1>6, <1>9, <2>2, <2>3
<1> QED
  BY <1>7, <1>8, <1>9

\* One record read: the memory says of the longer log what it said of the log.
LEMMA StepSummarises ==
    ASSUME NEW log, NEW longer, NEW n, Reads(log, longer, n), NEW c,
           NEW app, Summary(log, c, app)
    PROVE  Summary(longer, c, Step(app, n, c))
<1> DEFINE fenced == Fenced(app, n)
           resolved == Resolve(fenced, n)
           met == Meet(resolved, n, c)
<1>1. /\ longer \in Seq(Entry) /\ n \in DOMAIN longer /\ n # 0 /\ journal[n] = longer[n] /\ longer[n] \in Entry
  BY LongerDomain DEF Reads
<1>2. /\ fenced \in Application /\ fenced.pending = app.pending /\ fenced.prefixBefore = app.prefixBefore
      /\ Says(log, Settled(log, c), fenced)
      /\ fenced.superseding = IF longer[n].kind = "opening_fence" /\ longer[n].lease > app.superseding
                              THEN longer[n].lease ELSE app.superseding
  BY <1>1 DEF Fenced, Summary, Application, Says, Entry
<1>3. Highest(longer, fenced.superseding)
  <2>1. Highest(longer, IF longer[n].kind = "opening_fence" /\ longer[n].lease > app.superseding
                        THEN longer[n].lease ELSE app.superseding)
    BY HighestGrows DEF Summary, Reads
  <2> QED
    BY <1>2, <2>1
<1> HIDE DEF fenced
<1>4. /\ resolved \in Application /\ Says(longer, Naming(log, c), resolved)
      /\ resolved.superseding = fenced.superseding /\ resolved.prefixBefore = fenced.prefixBefore
  BY <1>2, ResolveAdds DEF Summary
<1> HIDE DEF resolved
<1>5. /\ met \in Application /\ Says(longer, Settled(longer, c), met)
      /\ met.pending = Awaiting(longer, c) /\ met.superseding = resolved.superseding
  BY <1>2, <1>4, MeetAdds DEF Summary
<1>6. Step(app, n, c) = [met EXCEPT !.prefixBefore = IsPrefix(longer[n])]
  BY <1>1 DEF Step, met, resolved, fenced
<1> HIDE DEF met
<1> DEFINE new == [met EXCEPT !.prefixBefore = IsPrefix(longer[n])]
<1>8. Len(longer) # 0 /\ n = Len(longer)
  BY <1>1 DEF Reads
<1>7. /\ new \in Application /\ new.pending = met.pending /\ new.superseding = met.superseding
      /\ new.prefixBefore = IsPrefix(longer[n]) /\ Says(longer, Settled(longer, c), new)
  BY <1>5 DEF Application, Says, IsPrefix
<1> HIDE DEF new
<1> QED
  BY <1>2, <1>3, <1>4, <1>5, <1>6, <1>7, <1>8 DEF Summary, new

-----------------------------------------------------------------------------
(* The journal, whoever writes it.                                         *)

HasLatest(log) ==
    LET openings == {i \in DOMAIN log : log[i].kind = "opening_fence"}
    IN  openings # {} => \E i \in openings : \A j \in openings : j <= i

\* A latest opening owns what is appended; the best settled prefix of each
\* command and the highest fence exist.
JournalInv ==
    /\ journal \in Seq(Entry)
    /\ HasLatest(journal)
    /\ \A c \in Command : Led(journal, Settled(journal, c))
    /\ \E e : Highest(journal, e)

\* A step leaves the journal, or commits one record.
Grows == \E record \in Entry : journal' = Append(journal, record)

\* An appended journal continues the journal.
LEMMA AppendContinues ==
    ASSUME NEW log \in Seq(Entry), NEW record \in Entry, NEW longer, longer = Append(log, record)
    PROVE  /\ Continues(log, longer) /\ Len(longer) = Len(log) + 1
           /\ longer[Len(longer)] = record
BY DEF Continues

\* A new opening is the latest; any other record leaves the latest.
LEMMA LatestGrows ==
    ASSUME NEW log \in Seq(Entry), NEW record \in Entry, NEW longer, longer = Append(log, record),
           HasLatest(log)
    PROVE  HasLatest(longer)
<1> DEFINE openings == {i \in DOMAIN log : log[i].kind = "opening_fence"}
           after == {i \in DOMAIN longer : longer[i].kind = "opening_fence"}
           n == Len(longer)
<1>1. /\ DOMAIN longer = DOMAIN log \cup {n} /\ n \in Nat /\ \A i \in DOMAIN log : i \in Nat /\ i < n
      /\ \A i \in DOMAIN log : longer[i] = log[i]
      /\ longer[n] = record
  OBVIOUS
<1> HIDE DEF n
<1>2. after = IF record.kind = "opening_fence" THEN openings \cup {n} ELSE openings
  BY <1>1
<1>3. openings # {} => \E i \in openings : \A j \in openings : j <= i
  BY DEF HasLatest
<1>4. \A i \in openings : i \in Nat /\ i < n
  BY <1>1
<1> HIDE DEF openings, after
<1>5. after # {} => \E i \in after : \A j \in after : j <= i
  <2>1. CASE record.kind = "opening_fence"
    <3>1. n \in after /\ \A j \in after : j <= n
      BY <1>1, <1>2, <1>4, <2>1
    <3> QED
      BY <3>1
  <2>2. CASE record.kind # "opening_fence"
    BY <1>2, <1>3, <2>2
  <2> QED
    BY <2>1, <2>2
<1> QED
  BY <1>5 DEF HasLatest, after

\* The lease an owned record carries is that of an opening.
LEMMA OwnerIsOpener ==
    ASSUME JournalInv, Openings # {}
    PROVE  Owner \in Nat
<1>1. \E i \in Openings : \A j \in Openings : j <= i
  BY DEF JournalInv, HasLatest, Openings
<1>2. (CHOOSE i \in Openings : \A j \in Openings : j <= i) \in DOMAIN journal
  BY <1>1 DEF Openings
<1> QED
  BY <1>2, LogDomain DEF Owner, JournalInv, Entry

Walks == (\E c \in Command : BeginScan(c)) \/ ReadRecord \/ CursorEnds \/ ReadFails

\* A step commits a record, moves the walk, or moves neither.
LEMMA StepIs ==
    ASSUME JournalInv, [ReadsNext]_readsVars
    PROVE  \/ Grows /\ UNCHANGED scan
           \/ Walks /\ UNCHANGED journal
           \/ UNCHANGED vars
<1> DEFINE Goal == Grows /\ UNCHANGED scan
<1>1. ASSUME NEW e \in Nat, OpenJournal(e) PROVE Goal
  <2>1. OpeningFence(e) \in Entry
    BY DEF OpeningFence, Entry, EnvelopeKind
  <2> QED
    BY <1>1, <2>1 DEF OpenJournal, Commits, Grows
<1>2. ASSUME NEW c \in Command, NEW mapped \in BOOLEAN, AppendPrefix(c, mapped) PROVE Goal
  <2>1. ApplicationPrefix(Owner, c, mapped) \in Entry
    BY <1>2, OwnerIsOpener DEF AppendPrefix, ApplicationPrefix, Entry, EnvelopeKind
  <2> QED
    BY <1>2, <2>1 DEF AppendPrefix, Commits, Grows
<1>3. ASSUME NEW kind \in {"public_event", "control"}, AppendOther(kind) PROVE Goal
  <2>1. Unowned(kind) \in Entry
    BY DEF Unowned, Entry, EnvelopeKind
  <2> QED
    BY <1>3, <2>1 DEF AppendOther, Commits, Grows
<1> HIDE DEF Goal
<1>4. ASSUME Next PROVE Goal \/ (Walks /\ UNCHANGED journal)
  <2>1. (\E e \in 1..MaxEpoch : OpenJournal(e)) => Goal
    BY <1>1, RecoveryAssumption
  <2>2. Walks => UNCHANGED journal
    BY DEF Walks, BeginScan, ReadRecord, CursorEnds, ReadFails
  <2> QED
    BY <1>2, <1>3, <1>4, <2>1, <2>2 DEF Next, Walks
<1>5. ASSUME ReaderNext PROVE Goal \/ (Walks /\ UNCHANGED journal) \/ UNCHANGED vars
  <2>1. ASSUME NEW kind, NEW budget, NEW first, PlanJournalRead(kind, budget, first)
        PROVE  UNCHANGED vars
    BY <2>1 DEF PlanJournalRead
  <2>2. ASSUME NEW limit, NEW scanLimit, NEW end, WalkJournal(limit, scanLimit, end)
        PROVE  UNCHANGED vars
    BY <2>2 DEF WalkJournal
  <2> QED
    BY <1>1, <1>3, <1>4, <1>5, <2>1, <2>2 DEF ReaderNext
<1>6. CASE UNCHANGED readsVars
  BY <1>6 DEF readsVars, vars
<1> QED
  BY <1>5, <1>6 DEF ReadsNext, readerVars, vars, Goal

\* An empty journal has no openings, no prefixes and no fence.
LEMMA JournalStart == ReadsInit => JournalInv
<1> SUFFICES ASSUME ReadsInit PROVE JournalInv
  OBVIOUS
<1>1. journal = << >> /\ journal \in Seq(Entry) /\ DOMAIN journal = {}
  BY DEF ReadsInit, ReaderInit, Init
<1>2. \A c : Settled(journal, c) = {}
  BY <1>1 DEF Settled, Naming
<1>3. Leases(journal) = {}
  BY <1>1 DEF Leases
<1>4. Highest(journal, 0)
  BY <1>3 DEF Highest
<1> QED
  BY <1>1, <1>2, <1>4 DEF JournalInv, HasLatest, Led

\* What holds of a journal holds when a record is committed.
LEMMA JournalStep ==
    ASSUME JournalInv, [ReadsNext]_readsVars
    PROVE  JournalInv'
<1>1. CASE UNCHANGED journal
  <2>1. PICK same : same = journal'
    OBVIOUS
  <2>2. /\ same \in Seq(Entry) /\ HasLatest(same)
        /\ \A c \in Command : Led(same, Settled(same, c))
        /\ \E e : Highest(same, e)
    BY <1>1, <2>1 DEF JournalInv
  <2> QED
    BY <2>1, <2>2 DEF JournalInv
<1>2. CASE Grows
  <2>1. PICK longer : longer = journal'
    OBVIOUS
  <2>2. PICK record \in Entry : longer = Append(journal, record)
    BY <1>2, <2>1 DEF Grows
  <2>3. journal \in Seq(Entry) /\ longer \in Seq(Entry)
    BY <2>2 DEF JournalInv
  <2>4. Continues(journal, longer) /\ Len(longer) = Len(journal) + 1
    BY <2>2, <2>3, AppendContinues
  <2>5. HasLatest(longer)
    BY <2>2, <2>3, LatestGrows DEF JournalInv
  <2>6. ASSUME NEW c \in Command PROVE Led(longer, Settled(longer, c))
    BY <2>4, SettledLed DEF JournalInv
  <2>7. \E e : Highest(longer, e)
    BY <2>4, HighestGrows DEF JournalInv
  <2>8. HasLatest(journal') = HasLatest(longer)
    BY <2>1
  <2> QED
    BY <2>1, <2>3, <2>5, <2>6, <2>7 DEF JournalInv
<1> QED
  BY <1>1, <1>2, StepIs DEF vars

-----------------------------------------------------------------------------
(* What later records do to a correlation.                                 *)

\* A correlation by what leads and by the highest fence.
LEMMA OutcomeIs ==
    ASSUME NEW log \in Seq(Entry), NEW c, NEW e, Highest(log, e)
    PROVE  /\ CommandApplication(log, c).superseding = e
           /\ Naming(log, c) = {} => CommandApplication(log, c).outcome = "absent"
           /\ \A p : Leads(log, Naming(log, c), p) => CommandApplication(log, c).outcome = Finding(log, p)
<1> SUFFICES ASSUME NEW p, Naming(log, c) = {} \/ Leads(log, Naming(log, c), p)
             PROVE  /\ CommandApplication(log, c).superseding = e
                    /\ Naming(log, c) = {} => CommandApplication(log, c).outcome = "absent"
                    /\ Leads(log, Naming(log, c), p) => CommandApplication(log, c).outcome = Finding(log, p)
  <2>1. CommandApplication(log, c).superseding = e
    BY SupersedingIs DEF CommandApplication
  <2> QED
    BY <2>1
<1> DEFINE finding == IF Naming(log, c) = {} THEN "absent" ELSE Finding(log, p)
           app == [outcome |-> finding,
                   prefix |-> IF Naming(log, c) = {} THEN 0 ELSE p,
                   epoch |-> IF Naming(log, c) = {} THEN 0 ELSE log[p].lease,
                   effect |-> IF finding = "committed" THEN p + 1 ELSE 0,
                   superseding |-> e]
<1>1. app.outcome = finding /\ app.superseding = e
  OBVIOUS
<1>2. Says(log, Naming(log, c), app)
  BY DEF Says
<1> HIDE DEF app, finding
<1>3. CommandApplication(log, c).outcome = finding /\ CommandApplication(log, c).superseding = e
  BY <1>1, <1>2, ApplicationIs
<1> QED
  BY <1>3 DEF finding, Leads

\* What a correlation keeps when one record is appended.
Keeps(before, after) ==
    /\ before.superseding <= after.superseding
    /\ before.outcome = "conflicted" => after.outcome = "conflicted"
    /\ before.outcome = "committed" => after.outcome \in {"committed", "conflicted"}
    /\ before.outcome # "absent" => after.outcome # "absent"

\* One record more loses none of it.
LEMMA FindingsKept ==
    ASSUME NEW log, NEW longer, Continues(log, longer), Len(longer) = Len(log) + 1, NEW c,
           Led(log, Settled(log, c)), NEW e, Highest(log, e)
    PROVE  Keeps(CommandApplication(log, c), CommandApplication(longer, c))
<1> DEFINE before == CommandApplication(log, c)
           after == CommandApplication(longer, c)
<1>1. log \in Seq(Entry) /\ longer \in Seq(Entry)
  BY DEF Continues
<1>2. PICK f : Highest(longer, f) /\ e <= f
  <2>1. /\ e \in Nat
        /\ longer[Len(longer)].lease \in Nat
    <3>1. longer[Len(longer)] \in Entry
      BY LongerDomain
    <3>2. Leases(log) \subseteq Nat
      BY <1>1, LeasesAreNumbers
    <3> QED
      BY <3>1, <3>2 DEF Highest, Entry
  <2> QED
    BY <2>1, HighestGrows
<1>3. before.superseding = e /\ after.superseding = f
  BY <1>1, <1>2, OutcomeIs
<1>4. Led(log, Naming(log, c)) /\ Led(longer, Naming(longer, c))
  BY <1>1, SettledLed, AllLed
<1>5. Naming(log, c) \subseteq Naming(longer, c)
  BY OneMoreRecord
<1>6. CASE Naming(log, c) = {}
  <2>1. before.outcome = "absent"
    BY <1>1, <1>6, OutcomeIs
  <2> QED
    BY <1>2, <1>3, <2>1 DEF Keeps
<1>7. CASE Naming(log, c) # {}
  <2>1. PICK p : Leads(log, Naming(log, c), p)
    BY <1>4, <1>7 DEF Led
  <2>2. PICK q : Leads(longer, Naming(longer, c), q)
    BY <1>4, <1>5, <1>7 DEF Led
  <2>3. before.outcome = Finding(log, p) /\ after.outcome = Finding(longer, q)
    BY <1>1, <1>2, <2>1, <2>2, OutcomeIs
  <2>4. Precedence[Finding(longer, p)] <= Precedence[Finding(longer, q)]
    <3>1. Precedence[Finding(longer, p)] \in Nat /\ Precedence[Finding(longer, q)] \in Nat
      BY FindingIsOutcome, OutcomesRanked
    <3> QED
      BY <1>5, <2>1, <2>2, <3>1 DEF Leads
  <2>5. p \in DOMAIN log /\ DOMAIN log = 1..Len(log) /\ Len(log) \in Nat
    BY <1>1, <2>1, AwaitingIsLast, LogDomain DEF Leads
  <2>6. Finding(log, p) \in {"committed", "conflicted"} => Finding(longer, p) = Finding(log, p)
    <3>1. Finding(log, p) = "conflicted" => ~log[p].mapped
      BY FindingIs
    <3>2. Finding(log, p) = "committed" => p < Len(log)
      BY FindingIs DEF FollowedBy
    <3> QED
      BY <2>5, <3>1, <3>2, FindingsSettle
  <2>7. /\ Finding(longer, q) # "absent"
        /\ Finding(longer, p) \in Outcome /\ Finding(longer, q) \in Outcome
    BY FindingIsOutcome
  <2>8. /\ Finding(log, p) = "conflicted" => Finding(longer, q) = "conflicted"
        /\ Finding(log, p) = "committed" => Finding(longer, q) \in {"committed", "conflicted"}
    BY <2>4, <2>6, <2>7, OutcomesRanked
  <2> QED
    BY <1>2, <1>3, <2>3, <2>7, <2>8 DEF Keeps
<1> QED
  BY <1>6, <1>7

-----------------------------------------------------------------------------
(* The walk, through the tip it captured.                                  *)

\* At the tip the open prefix is read as what it is with nothing behind it.
LEMMA EndSays ==
    ASSUME NEW log \in Seq(Entry), NEW c, NEW app, Summary(log, c, app),
           \A i \in DOMAIN log : journal[i] = log[i],
           NEW new, new = IF app.pending = 0 THEN app ELSE Observe(app, "unresolved", app.pending, 0)
    PROVE  /\ new \in Application
           /\ Found([app |-> new]) = CommandApplication(log, c)
<1> DEFINE i == Awaiting(log, c)
<1>1. /\ app \in Application /\ app.pending = i /\ Highest(log, app.superseding)
      /\ Says(log, Settled(log, c), app)
  BY DEF Summary
<1>2. Remembers(log, Naming(log, c), new) /\ SameElse(app, new)
  <2>1. CASE i = 0
    BY <1>1, <2>1, AwaitingIsLast DEF Remembers, SameElse
  <2>2. CASE i # 0
    <3>1. /\ Naming(log, c) = Settled(log, c) \cup {i} /\ i = Len(log) /\ i \in DOMAIN log
          /\ Settled(log, c) \subseteq DOMAIN log /\ \A j \in Settled(log, c) : j < i
          /\ log[i].mapped /\ ~Stacked(log, i)
      BY <2>2, AwaitingIsLast
    <3>2. new = Observe(app, "unresolved", i, 0)
      BY <1>1, <2>2
    <3> HIDE DEF i
    <3>3. Finding(log, i) = "unresolved"
      BY <3>1, FindingIs DEF FollowedBy, FencedOff
    <3>4. Files(log, i, app, new)
      BY <3>2, <3>3 DEF Files
    <3>5. Later(log, Settled(log, c), i)
      BY <3>1 DEF Later
    <3>6. Remembers(log, Settled(log, c), app)
      BY <1>1 DEF Remembers
    <3> QED
      BY <3>1, <3>4, <3>5, <3>6, ObserveAdds
  <2> QED
    BY <2>1, <2>2
<1>3. Says(log, Naming(log, c), new) /\ Highest(log, new.superseding)
  BY <1>1, <1>2 DEF Remembers, SameElse
<1>4. CommandApplication(log, c) =
          [outcome |-> new.outcome, prefix |-> new.prefix, epoch |-> new.epoch,
           effect |-> new.effect, superseding |-> new.superseding]
  BY <1>3, ApplicationIs
<1> QED
  BY <1>2, <1>4 DEF Found, Remembers

ReadSoFar(n) == SubSeq(journal, 1, n)

\* What the walk has read is a log, and reading on makes it one longer.
LEMMA SoFar ==
    ASSUME journal \in Seq(Entry), NEW n \in 0..Len(journal)
    PROVE  /\ ReadSoFar(n) \in Seq(Entry) /\ Len(ReadSoFar(n)) = n
           /\ \A i \in DOMAIN ReadSoFar(n) : journal[i] = ReadSoFar(n)[i]
           /\ n + 1 <= Len(journal) => Reads(ReadSoFar(n), ReadSoFar(n + 1), n + 1)
<1>1. ASSUME NEW m \in 0..Len(journal)
      PROVE  /\ ReadSoFar(m) \in Seq(Entry) /\ Len(ReadSoFar(m)) = m
             /\ DOMAIN ReadSoFar(m) = 1..m
             /\ \A i \in 1..m : ReadSoFar(m)[i] = journal[i]
  <2>1. ReadSoFar(m) = [i \in 1..m |-> journal[i]]
    BY DEF ReadSoFar
  <2>2. \A i \in 1..m : journal[i] \in Entry
    OBVIOUS
  <2> QED
    BY <2>1, <2>2
<1>2. ASSUME n + 1 <= Len(journal) PROVE Reads(ReadSoFar(n), ReadSoFar(n + 1), n + 1)
  <2>1. n + 1 \in 0..Len(journal) /\ n \in Nat
    BY <1>2
  <2> QED
    BY <1>1, <2>1 DEF Reads, Continues
<1> QED
  BY <1>1, <1>2

ScanRecord == [phase : {"idle", "walking", "done", "failed"}, cmd : Command \cup {NoCommand},
               tip : Nat, last : Nat, app : Application]

\* A walk in progress has read what lies before `last` and remembers what it
\* says; one that is done read through the tip it captured.
WalkInv ==
    /\ scan \in ScanRecord
    /\ scan.phase = "walking" =>
          /\ scan.last < scan.tip /\ scan.tip <= Len(journal)
          /\ Summary(ReadSoFar(scan.last), scan.cmd, scan.app)
    /\ scan.phase = "done" =>
          /\ scan.tip <= Len(journal)
          /\ Found(scan) = CommandApplication(ReadSoFar(scan.tip), scan.cmd)

WInv == JournalInv /\ WalkInv

\* No walk has begun.
LEMMA WalkStart == ReadsInit => WalkInv
<1> SUFFICES ASSUME ReadsInit PROVE WalkInv
  OBVIOUS
<1>1. scan = [phase |-> "idle", cmd |-> NoCommand, tip |-> 0, last |-> 0, app |-> Start]
  BY DEF ReadsInit, ReaderInit, Init
<1>2. Start \in Application
  BY DEF Start, Application, Outcome
<1> QED
  BY <1>1, <1>2 DEF WalkInv, ScanRecord

\* Before the first record there is nothing to remember.
LEMMA EmptySummary ==
    ASSUME NEW log, log = << >>, NEW c
    PROVE  Summary(log, c, Start) /\ Found([app |-> Start]) = CommandApplication(log, c)
<1>1. Start \in Application
  BY DEF Start, Application, Outcome
<1>2. log \in Seq(Entry) /\ DOMAIN log = {} /\ Len(log) = 0
  OBVIOUS
<1>3. Naming(log, c) = {} /\ Settled(log, c) = {} /\ Leases(log) = {}
  BY <1>2 DEF Naming, Settled, Leases
<1>4. Awaiting(log, c) = 0
  BY <1>3 DEF Awaiting, Awaits
<1>5. Highest(log, Start.superseding)
  BY <1>3 DEF Highest, Start
<1>6. Says(log, {}, Start)
  BY DEF Says, Start
<1>7. Summary(log, c, Start)
  BY <1>1, <1>2, <1>3, <1>4, <1>5, <1>6 DEF Summary, Start
<1>8. CommandApplication(log, c) =
          [outcome |-> Start.outcome, prefix |-> Start.prefix, epoch |-> Start.epoch,
           effect |-> Start.effect, superseding |-> Start.superseding]
  BY <1>2, <1>3, <1>5, <1>6, ApplicationIs
<1> QED
  BY <1>7, <1>8 DEF Found

\* A walk begins with nothing read, or is done with an empty journal.
LEMMA BeginWalks ==
    ASSUME WInv, NEW c \in Command, BeginScan(c)
    PROVE  WalkInv'
<1>1. journal' = journal /\ journal \in Seq(Entry)
  BY DEF BeginScan, WInv, JournalInv
<1>2. scan' = [phase |-> IF journal = << >> THEN "done" ELSE "walking",
               cmd |-> c, tip |-> Len(journal), last |-> 0, app |-> Start]
  BY DEF BeginScan
<1>3. Start \in Application
  BY DEF Start, Application, Outcome
<1>4. scan' \in ScanRecord
  BY <1>1, <1>2, <1>3 DEF ScanRecord
<1>5. ReadSoFar(0) = << >> /\ ReadSoFar(0)' = << >>
  BY <1>1, SoFar DEF ReadSoFar
<1>6. /\ Summary(<< >>, c, Start)
      /\ Found([app |-> Start]) = CommandApplication(<< >>, c)
  BY EmptySummary
<1>7. CASE journal = << >>
  <2>1. /\ scan'.phase = "done" /\ scan'.tip = 0 /\ scan'.cmd = c /\ scan'.app = Start
    BY <1>2, <1>7
  <2>2. Found(scan') = Found([app |-> Start])
    BY <2>1 DEF Found
  <2> QED
    BY <1>1, <1>4, <1>5, <1>6, <1>7, <2>1, <2>2 DEF WalkInv
<1>8. CASE journal # << >>
  <2>1. /\ scan'.phase = "walking" /\ scan'.tip = Len(journal) /\ scan'.last = 0
        /\ scan'.cmd = c /\ scan'.app = Start
    BY <1>2, <1>8
  <2>2. 0 < Len(journal) /\ Len(journal) \in Nat
    BY <1>1, <1>8
  <2> QED
    BY <1>1, <1>4, <1>5, <1>6, <2>1, <2>2 DEF WalkInv
<1> QED
  BY <1>7, <1>8

\* A cursor that ends before the tip fails the walk.
LEMMA EndedShort ==
    ASSUME WInv, scan.phase = "walking", UNCHANGED journal,
           scan' = Ended(scan) \/ scan' = [scan EXCEPT !.phase = "failed"]
    PROVE  WalkInv'
<1>1. scan \in ScanRecord /\ scan.last < scan.tip
  BY DEF WInv, WalkInv
<1>2. scan' = [scan EXCEPT !.phase = "failed"]
  BY <1>1 DEF Ended, Reached, ScanRecord
<1>3. scan' \in ScanRecord /\ scan'.phase = "failed"
  BY <1>1, <1>2 DEF ScanRecord
<1> QED
  BY <1>3 DEF WalkInv

\* A walk reads the next record, ends at its tip, or fails beyond it.
LEMMA ReadWalks ==
    ASSUME WInv, ReadRecord
    PROVE  WalkInv'
<1>1. /\ scan.phase = "walking" /\ UNCHANGED journal /\ journal \in Seq(Entry)
      /\ scan \in ScanRecord /\ scan.last < scan.tip /\ scan.tip <= Len(journal)
      /\ Summary(ReadSoFar(scan.last), scan.cmd, scan.app)
  BY DEF ReadRecord, WInv, WalkInv, JournalInv
<1>2. PICK seq \in DOMAIN journal :
         /\ seq = scan.last + 1 \/ seq > scan.tip
         /\ LET read == [scan EXCEPT !.last = seq, !.app = Step(@, seq, scan.cmd)]
            IN  scan' = IF Beyond(seq) THEN Ended(scan)
                        ELSE IF seq = scan.tip THEN Ended(read) ELSE read
  BY DEF ReadRecord
<1>3. CASE Beyond(seq)
  BY <1>1, <1>2, <1>3, EndedShort
<1>4. CASE ~Beyond(seq)
  <2> DEFINE app == Step(scan.app, seq, scan.cmd)
             read == [scan EXCEPT !.last = seq, !.app = app]
             ended == IF app.pending = 0 THEN app ELSE Observe(app, "unresolved", app.pending, 0)
  <2>1. /\ seq \in Nat /\ seq = scan.last + 1 /\ seq <= scan.tip /\ scan.tip \in Nat /\ scan.last \in Nat
        /\ scan.last \in 0..Len(journal) /\ scan.last + 1 <= Len(journal) /\ seq \in 0..Len(journal)
        /\ scan.tip \in 0..Len(journal)
    BY <1>1, <1>2, <1>4 DEF Beyond, ScanRecord
  <2>2. scan' = IF seq = scan.tip THEN Ended(read) ELSE read
    BY <1>2, <1>4
  <2>3. Summary(ReadSoFar(seq), scan.cmd, app)
    <3>1. Reads(ReadSoFar(scan.last), ReadSoFar(scan.last + 1), scan.last + 1)
      BY <1>1, <2>1, SoFar
    <3>2. Reads(ReadSoFar(scan.last), ReadSoFar(seq), seq)
      BY <2>1, <3>1
    <3> QED
      BY <1>1, <3>2, StepSummarises
  <2>4. app \in Application
    BY <2>3 DEF Summary
  <2> HIDE DEF app
  <2>5. /\ read \in ScanRecord /\ read.last = seq /\ read.app = app
        /\ read.phase = "walking" /\ read.tip = scan.tip /\ read.cmd = scan.cmd
    BY <1>1, <2>1, <2>4 DEF ScanRecord
  <2>6. ReadSoFar(seq)' = ReadSoFar(seq) /\ ReadSoFar(scan.tip)' = SubSeq(journal, 1, scan'.tip)
    BY <1>1, <2>2, <2>5 DEF ReadSoFar, Ended
  <2> HIDE DEF read
  <2>7. CASE seq # scan.tip
    <3>1. scan' = read
      BY <2>2, <2>7
    <3>2. Summary(ReadSoFar(scan.last)', scan'.cmd, scan'.app)
      BY <1>1, <2>3, <2>5, <3>1 DEF ReadSoFar
    <3> QED
      BY <1>1, <2>1, <2>5, <2>7, <3>1, <3>2 DEF WalkInv
  <2>8. CASE seq = scan.tip
    <3>1. scan' = [read EXCEPT !.phase = "done", !.app = ended]
      BY <2>1, <2>2, <2>5, <2>8 DEF Ended, Reached, ScanRecord
    <3>2. ended \in Application /\ Found([app |-> ended]) = CommandApplication(ReadSoFar(seq), scan.cmd)
      <4>1. PICK log : log = ReadSoFar(seq)
        OBVIOUS
      <4>2. log \in Seq(Entry) /\ \A i \in DOMAIN log : journal[i] = log[i]
        BY <1>1, <2>1, <4>1, SoFar
      <4>3. Summary(log, scan.cmd, app)
        BY <2>3, <4>1
      <4> HIDE DEF ended
      <4>4. ended \in Application /\ Found([app |-> ended]) = CommandApplication(log, scan.cmd)
        BY <4>2, <4>3, EndSays DEF ended
      <4> QED
        BY <4>1, <4>4
    <3> HIDE DEF ended
    <3>3. /\ scan' \in ScanRecord /\ scan'.phase = "done" /\ scan'.tip = seq
          /\ scan'.cmd = scan.cmd /\ scan'.app = ended
      BY <2>5, <2>8, <3>1, <3>2 DEF ScanRecord
    <3>4. Found(scan') = CommandApplication(SubSeq(journal', 1, scan'.tip), scan'.cmd)
      BY <1>1, <3>2, <3>3 DEF Found, ReadSoFar
    <3> QED
      BY <1>1, <2>1, <3>3, <3>4 DEF WalkInv, ReadSoFar
  <2> QED
    BY <2>7, <2>8
<1> QED
  BY <1>3, <1>4

\* What is appended lies past every tip that was captured.
LEMMA GrowthWalks ==
    ASSUME WInv, Grows, UNCHANGED scan
    PROVE  WalkInv'
<1>1. PICK record \in Entry : journal' = Append(journal, record)
  BY DEF Grows
<1>2. journal \in Seq(Entry) /\ scan \in ScanRecord /\ scan.last \in Nat /\ scan.tip \in Nat
  BY DEF WInv, JournalInv, WalkInv, ScanRecord
<1>3. Len(journal') = Len(journal) + 1 /\ journal' \in Seq(Entry)
  BY <1>1, <1>2
<1>4. ASSUME NEW m \in 0..Len(journal) PROVE SubSeq(journal', 1, m) = SubSeq(journal, 1, m)
  <2>1. \A i \in 1..m : journal'[i] = journal[i]
    BY <1>1, <1>2
  <2>2. SubSeq(journal', 1, m) = [i \in 1..m |-> journal'[i]] /\ SubSeq(journal, 1, m) = [i \in 1..m |-> journal[i]]
    BY <1>2, <1>3
  <2> QED
    BY <2>1, <2>2
<1>5. CASE scan.phase = "walking"
  <2>1. /\ scan.last < scan.tip /\ scan.tip <= Len(journal)
        /\ Summary(SubSeq(journal, 1, scan.last), scan.cmd, scan.app)
    BY <1>5 DEF WInv, WalkInv, ReadSoFar
  <2>2. SubSeq(journal', 1, scan'.last) = SubSeq(journal, 1, scan.last)
    BY <1>2, <1>4, <2>1
  <2>3. Summary(SubSeq(journal', 1, scan'.last), scan'.cmd, scan'.app)
    BY <2>1, <2>2
  <2>4. scan.tip <= Len(journal')
    BY <1>2, <1>3, <2>1
  <2> QED
    BY <1>2, <1>5, <2>1, <2>3, <2>4 DEF WalkInv, ReadSoFar
<1>6. CASE scan.phase = "done"
  <2>1. /\ scan.tip <= Len(journal)
        /\ Found(scan) = CommandApplication(SubSeq(journal, 1, scan.tip), scan.cmd)
    BY <1>6 DEF WInv, WalkInv, ReadSoFar
  <2>2. SubSeq(journal', 1, scan'.tip) = SubSeq(journal, 1, scan.tip)
    BY <1>2, <1>4, <2>1
  <2>3. Found(scan') = CommandApplication(SubSeq(journal', 1, scan'.tip), scan'.cmd)
    BY <2>1, <2>2
  <2>4. scan.tip <= Len(journal')
    BY <1>2, <1>3, <2>1
  <2> QED
    BY <1>2, <1>6, <2>3, <2>4 DEF WalkInv, ReadSoFar
<1>7. CASE scan.phase \notin {"walking", "done"}
  BY <1>2, <1>7 DEF WalkInv
<1> QED
  BY <1>5, <1>6, <1>7

\* One step per action of the walk, and the growth of the journal.
LEMMA WalkStep ==
    ASSUME WInv, [ReadsNext]_readsVars
    PROVE  WalkInv'
<1>1. CASE UNCHANGED vars
  BY <1>1 DEF vars, WInv, WalkInv, ReadSoFar
<1>2. CASE Grows /\ UNCHANGED scan
  BY <1>2, GrowthWalks
<1>3. CASE Walks /\ UNCHANGED journal
  <2>1. ASSUME CursorEnds \/ ReadFails PROVE WalkInv'
    BY <1>3, <2>1, EndedShort DEF CursorEnds, ReadFails
  <2> QED
    BY <1>3, <2>1, BeginWalks, ReadWalks DEF Walks
<1> QED
  BY <1>1, <1>2, <1>3, StepIs DEF WInv

-----------------------------------------------------------------------------
\* The journal is a sequence of records whose settled readings are ranked by a
\* best one, and the walk's memory is what the records it has read say.
THEOREM WalkSummarises == ReadsSpec => []WInv
<1>1. ReadsInit => WInv
  BY JournalStart, WalkStart DEF WInv
<1>2. WInv /\ [ReadsNext]_readsVars => WInv'
  BY JournalStep, WalkStep DEF WInv
<1> QED
  BY <1>1, <1>2, PTL DEF ReadsSpec

\* One pass that remembers two records finds what the journal it captured says
\* of the command, whatever its writers did, whatever they append meanwhile and
\* wherever the cursor ends.  (scanCommandApplication.)
THEOREM WalkIsRight == ReadsSpec => []WalkReadsItsSnapshot
<1>1. WInv => WalkReadsItsSnapshot
  BY DEF WInv, WalkInv, WalkReadsItsSnapshot, ReadSoFar
<1> QED
  BY <1>1, WalkSummarises, PTL

\* A grant that is fenced stays fenced, a broken mapping stays found, and an
\* effect once found is hidden by a broken mapping alone, for any number of
\* commands, grants and records.  (CommandApplication.CapturedTip.)
THEOREM FindingsStand == ReadsSpec => FindingsHold
<1> DEFINE Kept ==
        \A c \in Command :
            LET before == CommandApplication(journal, c)
                after == CommandApplication(journal, c)'
            IN  /\ before.superseding <= after.superseding
                /\ before.outcome = "conflicted" => after.outcome = "conflicted"
                /\ before.outcome = "committed" => after.outcome \in {"committed", "conflicted"}
                /\ before.outcome # "absent" => after.outcome # "absent"
<1>1. WInv /\ [ReadsNext]_readsVars => [Kept]_journal
  <2> SUFFICES ASSUME WInv, [ReadsNext]_readsVars, journal' # journal
               PROVE  Kept
    OBVIOUS
  <2>1. PICK record \in Entry : journal' = Append(journal, record)
    BY StepIs DEF WInv, vars, Grows
  <2>2. PICK longer : longer = journal'
    OBVIOUS
  <2>3. Continues(journal, longer) /\ Len(longer) = Len(journal) + 1
    BY <2>1, <2>2, AppendContinues DEF WInv, JournalInv
  <2>4. ASSUME NEW c \in Command
        PROVE  Keeps(CommandApplication(journal, c), CommandApplication(longer, c))
    <3>1. PICK e : Highest(journal, e)
      BY DEF WInv, JournalInv
    <3> QED
      BY <2>3, <3>1, FindingsKept DEF WInv, JournalInv
  <2>5. ASSUME NEW c \in Command PROVE CommandApplication(journal, c)' = CommandApplication(longer, c)
    <3>1. Naming(journal, c)' = Naming(longer, c)
      BY <2>2 DEF Naming
    <3>2. ASSUME NEW i
          PROVE  /\ Stacked(journal, i)' = Stacked(longer, i)
                 /\ FencedOff(journal, i)' = FencedOff(longer, i)
                 /\ Finding(journal, i)' = Finding(longer, i)
      BY <2>2 DEF Finding, Stacked, FollowedBy, FencedOff
    <3>3. Deciding(journal, c)' = Deciding(longer, c)
      BY <2>2, <3>1, <3>2 DEF Deciding
    <3>4. SupersedingEpoch(journal)' = SupersedingEpoch(longer)
      BY <2>2 DEF SupersedingEpoch
    <3> QED
      BY <2>2, <3>1, <3>2, <3>3, <3>4 DEF CommandApplication
  <2> QED
    BY <2>4, <2>5 DEF Keeps
<1>2. [][Kept]_journal => FindingsHold
  BY DEF FindingsHold
<1> QED
  BY <1>1, <1>2, WalkSummarises, PTL DEF ReadsSpec
-----------------------------------------------------------------------------
(* Enumeration.                                                            *)

Numbers(S) == S \in SUBSET Nat /\ IsFiniteSet(S)

\* The elements up to x are counted, and up to a higher one there are more.
LEMMA RankCounts ==
    ASSUME NEW S, Numbers(S)
    PROVE  /\ Cardinality(S) \in Nat
           /\ \A x \in S : Rank(S, x) \in 1..Cardinality(S)
           /\ \A x, y \in S : x < y => Rank(S, x) < Rank(S, y)
<1> DEFINE UpTo(x) == {z \in S : z <= x}
<1>1. Cardinality(S) \in Nat
  BY FS_CardinalityType DEF Numbers
<1>2. ASSUME NEW x \in S
      PROVE  /\ IsFiniteSet(UpTo(x)) /\ Cardinality(UpTo(x)) \in 1..Cardinality(S)
             /\ Cardinality(UpTo(x)) = Rank(S, x)
  <2>1. UpTo(x) \in SUBSET S /\ x \in UpTo(x)
    BY DEF Numbers
  <2>2. IsFiniteSet(UpTo(x)) /\ Cardinality(UpTo(x)) <= Cardinality(S)
    BY <2>1, FS_Subset DEF Numbers
  <2>3. Cardinality(UpTo(x)) \in Nat /\ Cardinality(UpTo(x)) # 0
    BY <2>1, <2>2, FS_CardinalityType, FS_EmptySet
  <2> QED
    BY <1>1, <2>2, <2>3 DEF Rank
<1>3. ASSUME NEW x \in S, NEW y \in S, x < y PROVE Rank(S, x) < Rank(S, y)
  <2>0. \A z \in S : z \in Nat
    BY DEF Numbers
  <2>1. UpTo(x) \in SUBSET (UpTo(y) \ {y}) /\ y \in UpTo(y)
    BY <1>3, <2>0
  <2>2. IsFiniteSet(UpTo(y) \ {y}) /\ Cardinality(UpTo(y) \ {y}) = Cardinality(UpTo(y)) - 1
    BY <1>2, <2>1, FS_RemoveElement
  <2>3. Cardinality(UpTo(x)) <= Cardinality(UpTo(y) \ {y})
    BY <2>1, <2>2, FS_Subset
  <2>4. /\ Cardinality(UpTo(x)) \in Nat /\ Cardinality(UpTo(x)) = Rank(S, x)
        /\ Cardinality(UpTo(y)) \in Nat /\ Cardinality(UpTo(y)) = Rank(S, y)
    BY <1>1, <1>2
  <2> HIDE DEF UpTo
  <2> QED
    BY <2>2, <2>3, <2>4
<1> QED
  BY <1>1, <1>2, <1>3

\* What lies between two numbers is finite.
LEMMA NumbersBetween ==
    ASSUME NEW a \in Nat, NEW b \in Int, NEW S \in SUBSET (a..b)
    PROVE  Numbers(S)
<1>1. IsFiniteSet(a..b)
  BY FS_Interval
<1>2. IsFiniteSet(S)
  BY <1>1, FS_Subset
<1> QED
  BY <1>2 DEF Numbers

\* Every place is taken, by one element: the elements in ascending order.
LEMMA EnumerateAscends ==
    ASSUME NEW S, Numbers(S)
    PROVE  /\ Cardinality(S) \in Nat /\ Enumerate(S) \in [1..Cardinality(S) -> S]
           /\ Enumerate(S) \in Seq(S) /\ Len(Enumerate(S)) = Cardinality(S)
           /\ \A i, j \in 1..Cardinality(S) : i < j => Enumerate(S)[i] < Enumerate(S)[j]
           /\ \A x \in S : Rank(S, x) \in 1..Cardinality(S) /\ Enumerate(S)[Rank(S, x)] = x
<1> DEFINE n == Cardinality(S)
           rank == [x \in S |-> Rank(S, x)]
<1>1. /\ n \in Nat /\ \A x \in S : Rank(S, x) \in 1..n
      /\ \A x, y \in S : x < y => Rank(S, x) < Rank(S, y)
  BY RankCounts
<1>2. \A x, y \in S : Rank(S, x) = Rank(S, y) => x = y
  BY <1>1 DEF Numbers
<1>3. \A i \in 1..n : \E x \in S : Rank(S, x) = i
  <2>1. rank \in Injection(S, 1..n)
    BY <1>1, <1>2 DEF Injection, IsInjective
  <2>2. IsFiniteSet(1..n) /\ Cardinality(1..n) = n
    BY <1>1, FS_Interval
  <2> HIDE DEF rank
  <2>3. rank \in Surjection(S, 1..n)
    BY <2>1, <2>2, FS_Injection
  <2> QED
    BY <2>3 DEF Surjection, rank
<1>4. \A i \in 1..n : Enumerate(S)[i] \in S /\ Rank(S, Enumerate(S)[i]) = i
  BY <1>3 DEF Enumerate
<1>5. Enumerate(S) \in [1..n -> S]
  BY <1>4 DEF Enumerate
<1>6. Enumerate(S) \in Seq(S) /\ Len(Enumerate(S)) = n
  BY <1>1, <1>5
<1>7. ASSUME NEW i \in 1..n, NEW j \in 1..n, i < j PROVE Enumerate(S)[i] < Enumerate(S)[j]
  <2>1. PICK x \in S, y \in S : x = Enumerate(S)[i] /\ y = Enumerate(S)[j] /\ Rank(S, x) = i /\ Rank(S, y) = j
    BY <1>4
  <2>2. x \in Nat /\ y \in Nat /\ i \in Nat /\ j \in Nat
    BY <1>1 DEF Numbers
  <2>3. ~(y < x) /\ x # y
    BY <1>1, <1>7, <2>1, <2>2
  <2> QED
    BY <2>1, <2>2, <2>3
<1>8. \A x \in S : Enumerate(S)[Rank(S, x)] = x
  BY <1>1, <1>2, <1>4
<1> QED
  BY <1>1, <1>5, <1>6, <1>7, <1>8

\* As many places as elements.
LEMMA EnumerateLength ==
    ASSUME NEW S, Numbers(S)
    PROVE  Cardinality(S) \in Nat /\ Len(Enumerate(S)) = Cardinality(S)
BY EnumerateAscends

\* An element stands at its rank.
LEMMA EnumerateRank ==
    ASSUME NEW S, Numbers(S), NEW x \in S
    PROVE  Rank(S, x) \in 1..Cardinality(S) /\ Enumerate(S)[Rank(S, x)] = x
BY EnumerateAscends

\* An earlier place holds a smaller element.
LEMMA EnumerateOrder ==
    ASSUME NEW S, Numbers(S), NEW i \in 1..Cardinality(S), NEW j \in 1..Cardinality(S), i < j
    PROVE  Enumerate(S)[i] < Enumerate(S)[j]
BY EnumerateAscends

\* A set of numbers below a bound has a least element.
LEMMA LeastNumber ==
    ASSUME NEW S, Numbers(S), S # {}
    PROVE  \E x \in S : \A y \in S : x <= y
<1>1. Cardinality(S) \in Nat \ {0}
  BY EnumerateAscends, FS_EmptySet DEF Numbers
<1> DEFINE x == Enumerate(S)[1]
<1>2. x \in S
  BY <1>1, EnumerateAscends
<1>3. ASSUME NEW y \in S PROVE x <= y
  <2>1. Rank(S, y) \in 1..Cardinality(S) /\ Enumerate(S)[Rank(S, y)] = y
    BY EnumerateRank
  <2>2. ASSUME 1 < Rank(S, y) PROVE x < y
    <3>1. 1 \in 1..Cardinality(S)
      BY <1>1
    <3>2. Enumerate(S)[1] < Enumerate(S)[Rank(S, y)]
      BY <2>1, <2>2, <3>1, EnumerateOrder
    <3> QED
      BY <2>1, <3>2
  <2>3. Rank(S, y) = 1 => x = y
    BY <2>1
  <2> HIDE DEF x
  <2>4. x \in Nat /\ y \in Nat
    BY <1>2 DEF Numbers
  <2>5. Rank(S, y) \in Nat /\ 1 <= Rank(S, y)
    BY <1>1, <2>1
  <2> QED
    BY <2>2, <2>3, <2>4, <2>5
<1> QED
  BY <1>2, <1>3

Ascends(s) == \A i, j \in DOMAIN s : i < j => s[i] < s[j]

\* The first k places of an ascending sequence hold k numbers.
LEMMA AscentCounts ==
    ASSUME NEW n \in Nat, NEW s \in [1..n -> Nat], Ascends(s), NEW k \in 0..n
    PROVE  LET T == {s[j] : j \in 1..k} IN IsFiniteSet(T) /\ Cardinality(T) = k
<1> DEFINE T == {s[j] : j \in 1..k}
           f == [j \in 1..k |-> s[j]]
<1>1. f \in Bijection(1..k, T)
  <2>1. \A i, j \in 1..k : s[i] = s[j] => i = j
    BY DEF Ascends
  <2> QED
    BY <2>1 DEF Bijection, Injection, Surjection, IsInjective
<1> HIDE DEF f
<1>2. ExistsBijection(1..k, T)
  BY <1>1 DEF ExistsBijection
<1>3. IsFiniteSet(1..k) /\ Cardinality(1..k) = k
  BY FS_Interval
<1> QED
  BY <1>2, <1>3, FS_Bijection DEF T

\* An ascending sequence is the enumeration of what it holds.
LEMMA AscentEnumerates ==
    ASSUME NEW n \in Nat, NEW s \in [1..n -> Nat], Ascends(s), NEW S, S = {s[i] : i \in 1..n}
    PROVE  Numbers(S) /\ Cardinality(S) = n /\ Enumerate(S) = s
<1>1. Numbers(S) /\ Cardinality(S) = n
  <2>1. n \in 0..n
    OBVIOUS
  <2> QED
    BY <2>1, AscentCounts DEF Numbers
<1>2. ASSUME NEW i \in 1..n PROVE Enumerate(S)[i] = s[i]
  <2>1. {y \in S : y <= s[i]} = {s[j] : j \in 1..i}
    <3>1. \A j \in 1..n : s[j] \in Nat /\ (s[j] <= s[i] <=> j <= i)
      BY DEF Ascends
    <3>2. ASSUME NEW y \in S, y <= s[i] PROVE y \in {s[j] : j \in 1..i}
      <4>1. PICK j \in 1..n : y = s[j]
        OBVIOUS
      <4>2. j \in 1..i
        BY <3>1, <3>2, <4>1
      <4> QED
        BY <4>1, <4>2
    <3>3. ASSUME NEW j \in 1..i PROVE s[j] \in S /\ s[j] <= s[i]
      <4>1. j \in 1..n /\ j <= i
        OBVIOUS
      <4> QED
        BY <3>1, <4>1
    <3> QED
      BY <3>2, <3>3
  <2>2. i \in 0..n
    OBVIOUS
  <2>3. Rank(S, s[i]) = i
    <3>1. Cardinality({s[j] : j \in 1..i}) = i
      BY <2>2, AscentCounts
    <3>2. Rank(S, s[i]) = Cardinality({y \in S : y <= s[i]})
      BY DEF Rank
    <3> QED
      BY <2>1, <3>1, <3>2
  <2>4. s[i] \in S
    OBVIOUS
  <2>5. Enumerate(S)[Rank(S, s[i])] = s[i]
    BY <1>1, <2>4, EnumerateRank
  <2> QED
    BY <2>3, <2>5
<1>3. Enumerate(S) \in [1..n -> S]
  BY <1>1, EnumerateAscends
<1>4. Enumerate(S) = s
  <2>1. Enumerate(S) = [i \in 1..n |-> Enumerate(S)[i]]
    BY <1>3
  <2>2. s = [i \in 1..n |-> s[i]]
    OBVIOUS
  <2>3. [i \in 1..n |-> Enumerate(S)[i]] = [i \in 1..n |-> s[i]]
    BY <1>2
  <2> QED
    BY <2>1, <2>2, <2>3
<1> QED
  BY <1>1, <1>4

\* Numbers that all come later follow in the enumeration.
LEMMA EnumerationsJoin ==
    ASSUME NEW S, Numbers(S), NEW T, Numbers(T), \A x \in S, y \in T : x < y
    PROVE  Enumerate(S \cup T) = Enumerate(S) \o Enumerate(T)
<1> DEFINE a == Enumerate(S)
           b == Enumerate(T)
           m == Cardinality(S)
           n == Cardinality(T)
<1>1. /\ m \in Nat /\ a \in Seq(S) /\ Len(a) = m /\ a \in [1..m -> S]
      /\ \A i, j \in 1..m : i < j => a[i] < a[j]
      /\ \A x \in S : \E i \in 1..m : a[i] = x
  BY EnumerateAscends
<1>2. /\ n \in Nat /\ b \in Seq(T) /\ Len(b) = n /\ b \in [1..n -> T]
      /\ \A i, j \in 1..n : i < j => b[i] < b[j]
      /\ \A x \in T : \E i \in 1..n : b[i] = x
  BY EnumerateAscends
<1> HIDE DEF a, b, m, n
<1> DEFINE s == a \o b
<1>3. /\ s \in [1..(m + n) -> S \cup T]
      /\ \A i \in 1..m : s[i] = a[i]
      /\ \A i \in 1..n : s[m + i] = b[i]
      /\ \A i \in (m + 1)..(m + n) : i - m \in 1..n /\ s[i] = b[i - m]
  <2>1. /\ m \in Nat /\ a \in Seq(S \cup T) /\ Len(a) = m
        /\ n \in Nat /\ b \in Seq(S \cup T) /\ Len(b) = n
    BY <1>1, <1>2
  <2>2. s \in Seq(S \cup T) /\ Len(s) = m + n
    BY <2>1
  <2>3. s \in [1..(m + n) -> S \cup T]
    <3> HIDE DEF s
    <3> QED
      BY <2>1, <2>2
  <2>4. /\ \A i \in 1..m : s[i] = a[i]
        /\ \A i \in (m + 1)..(m + n) : s[i] = b[i - m]
    BY <2>1
  <2>5. \A i \in (m + 1)..(m + n) : i - m \in 1..n
    BY <2>1
  <2>6. ASSUME NEW i \in 1..n PROVE s[m + i] = b[i]
    <3>1. m + i \in (m + 1)..(m + n) /\ (m + i) - m = i
      BY <2>1
    <3> QED
      BY <2>4, <3>1
  <2> QED
    BY <2>3, <2>4, <2>5, <2>6
<1> HIDE DEF s
<1>4. S \subseteq Nat /\ T \subseteq Nat
  BY DEF Numbers
<1>5. Ascends(s)
  <2>1. ASSUME NEW i \in 1..(m + n), NEW j \in 1..(m + n), i < j PROVE s[i] < s[j]
    <3>1. CASE j <= m
      BY <1>1, <1>3, <2>1, <3>1
    <3>2. CASE i <= m /\ m < j
      <4>1. a[i] \in S /\ b[j - m] \in T /\ s[i] = a[i] /\ s[j] = b[j - m]
        BY <1>1, <1>2, <1>3, <3>2
      <4> QED
        BY <4>1
    <3>3. CASE m < i
      <4>1. /\ s[i] = b[i - m] /\ s[j] = b[j - m] /\ i - m \in 1..n /\ j - m \in 1..n /\ i - m < j - m
        BY <1>1, <1>2, <1>3, <2>1, <3>3
      <4> QED
        BY <1>2, <4>1
    <3> QED
      BY <1>1, <2>1, <3>1, <3>2, <3>3
  <2>2. DOMAIN s = 1..(m + n)
    BY <1>3
  <2> QED
    BY <2>1, <2>2 DEF Ascends
<1>6. S \cup T = {s[i] : i \in 1..(m + n)}
  <2>1. ASSUME NEW x \in S PROVE \E i \in 1..(m + n) : s[i] = x
    BY <1>1, <1>2, <1>3
  <2>2. ASSUME NEW x \in T PROVE \E i \in 1..(m + n) : s[i] = x
    <3>1. PICK i \in 1..n : b[i] = x
      BY <1>2
    <3>2. m + i \in 1..(m + n) /\ s[m + i] = x
      BY <1>1, <1>2, <1>3, <3>1
    <3> QED
      BY <3>2
  <2> QED
    BY <1>3, <2>1, <2>2
<1>7. m + n \in Nat /\ s \in [1..(m + n) -> Nat]
  <2>1. S \cup T \subseteq Nat
    BY <1>4
  <2> QED
    BY <1>1, <1>2, <1>3, <2>1
<1>8. Enumerate(S \cup T) = s
  BY <1>5, <1>6, <1>7, AscentEnumerates
<1> QED
  BY <1>8 DEF s, a, b

-----------------------------------------------------------------------------
(* Pages.                                                                  *)

Selection(kind, first, last) == {seq \in first..last : Selects(kind, seq)}

\* What a range selects is a finite set of sequence numbers.
LEMMA SelectionIsNumbers ==
    ASSUME NEW kind, NEW first \in Nat, NEW last \in Int
    PROVE  Numbers(Selection(kind, first, last))
BY NumbersBetween DEF Selection

\* What two consecutive ranges select is what the whole range selects.
LEMMA SelectionsJoin ==
    ASSUME NEW kind, NEW first \in Nat, NEW next \in Nat \ {0}, NEW last \in Int,
           first <= next, next <= last + 1
    PROVE  Selected(kind, first, last) = Selected(kind, first, next - 1) \o Selected(kind, next, last)
<1> DEFINE S == Selection(kind, first, next - 1)
           T == Selection(kind, next, last)
<1>1. Numbers(S) /\ Numbers(T)
  BY SelectionIsNumbers
<1>2. \A x \in S, y \in T : x < y
  BY DEF Selection
<1>3. Selection(kind, first, last) = S \cup T
  BY DEF Selection
<1> HIDE DEF S, T
<1>4. Enumerate(S \cup T) = Enumerate(S) \o Enumerate(T)
  BY <1>1, <1>2, EnumerationsJoin
<1> QED
  BY <1>3, <1>4 DEF Selected, Selection, S, T

\* Nothing is selected of an empty range, and one record of one at most.
LEMMA ShortSelections ==
    ASSUME NEW kind, NEW first \in Nat \ {0}
    PROVE  /\ Selected(kind, first, first - 1) = << >>
           /\ Len(Selected(kind, first, first)) \in {0, 1}
<1>1. Selection(kind, first, first - 1) = {}
  BY DEF Selection
<1>2. Enumerate({}) = << >>
  <2>1. Numbers({}) /\ Cardinality({}) = 0
    BY FS_EmptySet DEF Numbers
  <2> QED
    BY <2>1 DEF Enumerate
<1>3. Numbers(Selection(kind, first, first))
  BY SelectionIsNumbers
<1>4. Cardinality(Selection(kind, first, first)) <= 1
  <2>1. Selection(kind, first, first) \in SUBSET {first}
    BY DEF Selection
  <2>2. IsFiniteSet({first}) /\ Cardinality({first}) = 1
    BY FS_Singleton
  <2> QED
    BY <2>1, <2>2, FS_Subset
<1>5. Len(Enumerate(Selection(kind, first, first))) \in {0, 1}
  <2> DEFINE T == Selection(kind, first, first)
  <2>1. Cardinality(T) \in Nat /\ Len(Enumerate(T)) = Cardinality(T)
    BY <1>3, EnumerateLength
  <2>2. Cardinality(T) <= 1
    BY <1>4
  <2> HIDE DEF T
  <2>3. Cardinality(T) \in {0, 1}
    BY <2>1, <2>2
  <2> QED
    BY <2>1, <2>3 DEF T
<1> QED
  BY <1>1, <1>2, <1>5 DEF Selected, Selection

\* The first record of a page fits any limits.
LEMMA OneFits ==
    ASSUME NEW kind, NEW first \in Nat \ {0}, NEW limit \in Nat \ {0}, NEW scanLimit \in Nat
    PROVE  Fits(kind, first, first, limit, scanLimit)
<1>1. Len(Selected(kind, first, first)) \in {0, 1}
  BY ShortSelections
<1> QED
  BY <1>1 DEF Fits, WithinBytes

\* There is a record to stop at.
LEMMA StopIs ==
    ASSUME NEW kind, NEW first \in Nat \ {0}, NEW tip \in Nat, first <= tip + 1,
           NEW limit, NEW scanLimit
    PROVE  Stop(kind, first, tip, limit, scanLimit) \in (first - 1)..tip
<1> DEFINE Fit(n) == Fits(kind, first, n, limit, scanLimit)
           bad == {n \in first..tip : ~Fit(n)}
<1>1. \E n \in (first - 1)..tip : (n >= first => Fit(n)) /\ (n < tip => ~Fit(n + 1))
  <2>1. CASE bad = {}
    <3>1. tip \in (first - 1)..tip /\ (tip >= first => Fit(tip))
      BY <2>1
    <3> QED
      BY <3>1
  <2>2. CASE bad # {}
    <3>1. Numbers(bad)
      <4>1. bad \in SUBSET (first..tip) /\ first..tip \subseteq Nat
        OBVIOUS
      <4>2. IsFiniteSet(first..tip)
        BY FS_Interval
      <4> HIDE DEF bad
      <4> QED
        BY <4>1, <4>2, FS_Subset DEF Numbers
    <3>2. PICK m \in bad : \A y \in bad : m <= y
      BY <2>2, <3>1, LeastNumber
    <3>3. m - 1 \in (first - 1)..tip /\ ~Fit((m - 1) + 1)
      <4>1. m \in first..tip /\ (m - 1) + 1 = m
        OBVIOUS
      <4> QED
        BY <4>1
    <3>4. m - 1 >= first => Fit(m - 1)
      BY <3>2
    <3> QED
      BY <3>3, <3>4
  <2> QED
    BY <2>1, <2>2
<1>2. Stop(kind, first, tip, limit, scanLimit) =
          CHOOSE n \in (first - 1)..tip : (n >= first => Fit(n)) /\ (n < tip => ~Fit(n + 1))
  BY DEF Stop
<1> HIDE DEF Fit
<1> QED
  BY <1>1, <1>2

PageRecord ==
    [phase : {"unused", "idle", "paging", "done"}, kind : {"public", "runtime"}, budget : Nat,
     start : Nat, next : Nat, tip : Nat, got : Seq(Nat)]

\* A read that has pages to come holds what it selects before the next one,
\* within the tip it captured.
PageInv ==
    /\ pages \in PageRecord
    /\ pages.phase = "idle" => pages.got = << >>
    /\ pages.phase = "paging" =>
          /\ 1 <= pages.start /\ pages.start <= pages.next /\ pages.next <= pages.tip + 1
          /\ pages.tip <= Len(journal)
          /\ pages.got = Selected(pages.kind, pages.start, pages.next - 1)

\* No page has been read.
LEMMA PagesStart == ReadsInit => PageInv
<1> SUFFICES ASSUME ReadsInit PROVE PageInv
  OBVIOUS
<1>1. PICK phase \in {"unused", "idle"} :
         pages = [phase |-> phase, kind |-> "public", budget |-> 0,
                  start |-> 0, next |-> 0, tip |-> 0, got |-> << >>]
  BY DEF ReadsInit, ReaderInit
<1>2. << >> \in Seq(Nat)
  OBVIOUS
<1> QED
  BY <1>1, <1>2 DEF PageInv, PageRecord

\* A new read has selected nothing yet.
LEMMA PlanPages ==
    ASSUME WInv, PageInv, NEW kind \in {"public", "runtime"}, NEW budget \in ByteBudget,
           NEW first \in 1..(Len(journal) + 1), PlanJournalRead(kind, budget, first)
    PROVE  PageInv'
<1>1. /\ pages.phase = "idle" /\ pages \in PageRecord /\ pages.got = << >>
      /\ journal' = journal /\ Len(journal) \in Nat /\ budget \in Nat /\ first \in Nat \ {0}
  BY ReaderAssumption DEF PageInv, PlanJournalRead, WInv, JournalInv, vars
<1>2. pages' = [pages EXCEPT !.phase = IF first > Len(journal) THEN "done" ELSE "paging",
                             !.kind = kind, !.budget = budget, !.start = first, !.next = first, !.tip = Len(journal)]
  BY DEF PlanJournalRead
<1>3. /\ pages' \in PageRecord /\ pages'.got = << >> /\ pages'.phase \in {"paging", "done"}
      /\ pages'.start = first /\ pages'.next = first /\ pages'.tip = Len(journal)
      /\ pages'.kind = kind
  BY <1>1, <1>2 DEF PageRecord
<1>4. Selected(kind, first, first - 1) = << >> /\ Selected(kind, first, first - 1)' = << >>
  <2>1. Selected(kind, first, first - 1) = << >>
    BY <1>1, ShortSelections
  <2>2. Selected(kind, first, first - 1)' = Selected(kind, first, first - 1)
    BY <1>1 DEF Selected, Selects
  <2> QED
    BY <2>1, <2>2
<1> QED
  BY <1>1, <1>3, <1>4 DEF PageInv

\* What a page does to a read.
PageTiles ==
    /\ pages.next <= pages'.next
    /\ pages'.got = Selected(pages.kind, pages.start, pages'.next - 1)
    /\ pages'.phase = "done" => pages'.next = pages.tip + 1

\* A page goes on where the last one ended.
LEMMA WalkPages ==
    ASSUME WInv, PageInv, NEW limit \in 1..MaxLimit, NEW scanLimit \in 0..MaxLimit,
           NEW end \in (pages.next - 1)..Len(journal), WalkJournal(limit, scanLimit, end)
    PROVE  PageTiles /\ PageInv'
<1> DEFINE stop == Stop(pages.kind, pages.next, pages.tip, limit, scanLimit)
           covered == IF end < stop THEN end ELSE stop
           truncated == covered = stop /\ stop < pages.tip /\ (end > stop \/ stop + 1 - pages.next = scanLimit)
<1>1. /\ pages.phase = "paging" /\ pages \in PageRecord /\ journal' = journal /\ Len(journal) \in Nat
      /\ 1 <= pages.start /\ pages.start <= pages.next /\ pages.next <= pages.tip + 1
      /\ pages.tip <= Len(journal)
      /\ pages.got = Selected(pages.kind, pages.start, pages.next - 1)
  BY DEF PageInv, WalkJournal, WInv, JournalInv, vars
<1>2. /\ pages.start \in Nat \ {0} /\ pages.next \in Nat \ {0} /\ pages.tip \in Nat
      /\ pages.got \in Seq(Nat)
  BY <1>1 DEF PageRecord
<1>3. stop \in (pages.next - 1)..pages.tip
  BY <1>1, <1>2, StopIs
<1> HIDE DEF stop
<1>4. /\ covered \in Nat /\ pages.next - 1 <= covered /\ covered <= pages.tip
      /\ truncated => covered < pages.tip
      /\ truncated \in BOOLEAN
  BY <1>2, <1>3
<1>5. /\ covered >= pages.tip \/ truncated
      /\ pages' = [pages EXCEPT !.phase = IF truncated THEN "paging" ELSE "done",
                                !.next = covered + 1,
                                !.got = @ \o Selected(pages.kind, pages.next, covered)]
  BY DEF WalkJournal, EndsWhereItSays, ResumesAt, stop
<1> HIDE DEF covered, truncated
<1>6. PICK kind, start, next, c : kind = pages.kind /\ start = pages.start /\ next = pages.next /\ c = covered
  OBVIOUS
<1>7. /\ start \in Nat /\ next \in Nat \ {0} /\ start <= next /\ c \in Nat /\ next <= c + 1
      /\ c + 1 <= pages.tip + 1 /\ 1 <= start /\ (c + 1) - 1 = c /\ c \in Int /\ pages.tip \in Nat
      /\ c <= pages.tip
  BY <1>1, <1>2, <1>4, <1>6
<1>8. pages.got \o Selected(kind, next, c) = Selected(kind, start, c)
  <2>1. Selected(kind, start, c) = Selected(kind, start, next - 1) \o Selected(kind, next, c)
    BY <1>7, SelectionsJoin
  <2> QED
    BY <1>1, <1>6, <2>1
<1>9. Selected(kind, start, c) \in Seq(Nat)
  <2>1. Numbers(Selection(kind, start, c))
    BY <1>7, SelectionIsNumbers
  <2>2. Enumerate(Selection(kind, start, c)) \in Seq(Selection(kind, start, c))
    BY <2>1, EnumerateAscends
  <2> QED
    BY <2>1, <2>2 DEF Numbers, Selected, Selection
<1>10. pages' = [pages EXCEPT !.phase = IF truncated THEN "paging" ELSE "done",
                              !.next = c + 1, !.got = Selected(kind, start, c)]
  BY <1>5, <1>6, <1>8
<1>11. /\ pages' \in PageRecord /\ pages'.phase = IF truncated THEN "paging" ELSE "done"
       /\ pages'.next = c + 1 /\ pages'.got = Selected(kind, start, c)
       /\ pages'.kind = kind /\ pages'.start = start /\ pages'.tip = pages.tip
  <2>1. PICK phase \in {"paging", "done"} : phase = IF truncated THEN "paging" ELSE "done"
    OBVIOUS
  <2>2. PICK got \in Seq(Nat) : got = Selected(kind, start, c)
    BY <1>9
  <2>3. pages' = [pages EXCEPT !.phase = phase, !.next = c + 1, !.got = got]
    BY <1>10, <2>1, <2>2
  <2>4. c + 1 \in Nat
    BY <1>7
  <2>5. /\ pages' \in PageRecord /\ pages'.phase = phase /\ pages'.next = c + 1 /\ pages'.got = got
        /\ pages'.kind = pages.kind /\ pages'.start = pages.start /\ pages'.tip = pages.tip
    BY <1>1, <2>3, <2>4 DEF PageRecord
  <2> QED
    BY <1>6, <2>1, <2>2, <2>5
<1>12. pages'.next - 1 = c
  BY <1>7, <1>11
<1>13. PageTiles
  <2>1. pages.next <= pages'.next
    BY <1>6, <1>7, <1>11
  <2>2. pages'.got = Selected(pages.kind, pages.start, pages'.next - 1)
    BY <1>6, <1>11, <1>12
  <2>3. pages'.phase = "done" => pages'.next = pages.tip + 1
    BY <1>4, <1>5, <1>6, <1>7, <1>11
  <2> QED
    BY <2>1, <2>2, <2>3 DEF PageTiles
<1>14. Selected(kind, start, c)' = Selected(kind, start, c)
  BY <1>1 DEF Selected, Selects
<1>15. PageInv'
  <2>1. pages'.got = Selected(pages.kind, pages.start, pages.next - 1)'
    BY <1>1, <1>11, <1>12 DEF Selected, Selects
  <2> QED
    BY <1>1, <1>7, <1>11, <2>1 DEF PageInv
<1> QED
  BY <1>13, <1>15

\* A record appended lies past every page.
LEMMA GrowthPages ==
    ASSUME WInv, PageInv, Grows \/ UNCHANGED journal, UNCHANGED pages
    PROVE  PageInv'
<1>1. PICK n \in Nat : n = Len(journal)
  BY DEF WInv, JournalInv
<1>2. Len(journal') \in Nat /\ n <= Len(journal') /\ \A i \in 1..n : journal'[i] = journal[i]
  BY <1>1 DEF WInv, JournalInv, Grows
<1>3. CASE pages.phase = "paging"
  <2>1. /\ pages \in PageRecord /\ pages.tip <= n /\ pages.next <= pages.tip + 1
        /\ 1 <= pages.start /\ pages.start <= pages.next
        /\ pages.got = Selected(pages.kind, pages.start, pages.next - 1)
    BY <1>1, <1>3 DEF PageInv
  <2>2. PICK kind, start, next :
           /\ start \in Nat /\ next \in Nat
           /\ kind = pages.kind /\ start = pages.start /\ next = pages.next
           /\ 1 <= start /\ next - 1 <= n
    <3>1. pages.start \in Nat /\ pages.next \in Nat /\ pages.tip \in Nat
      BY <2>1 DEF PageRecord
    <3>2. pages.next - 1 <= n
      BY <2>1, <3>1
    <3> QED
      BY <2>1, <3>1, <3>2
  <2>3. \A seq \in start..(next - 1) : journal'[seq] = journal[seq]
    BY <1>2, <2>2
  <2>4. Selected(kind, start, next - 1)' = Selected(kind, start, next - 1)
    BY <2>3 DEF Selected, Selects
  <2>5. Selected(pages.kind, pages.start, pages.next - 1)' = Selected(pages.kind, pages.start, pages.next - 1)
    BY <2>2, <2>4 DEF Selected, Selects
  <2>6. pages.tip <= Len(journal')
    BY <1>2, <2>1 DEF PageRecord
  <2> QED
    BY <1>3, <2>1, <2>5, <2>6 DEF PageInv
<1>4. CASE pages.phase # "paging"
  BY <1>4 DEF PageInv
<1> QED
  BY <1>3, <1>4

\* Every step of a journal and its readers, but of frames.
LEMMA PagesStep ==
    ASSUME WInv, PageInv, [ReadsNext]_readsVars
    PROVE  /\ PageInv'
           /\ pages.phase = "paging" /\ readerVars' # readerVars => PageTiles
<1>1. Grows \/ UNCHANGED journal
  BY StepIs DEF WInv, vars
<1>2. CASE UNCHANGED pages
  <2>1. PageInv'
    BY <1>1, <1>2, GrowthPages
  <2>2. pages.phase = "paging" => PageTiles
    BY <1>2 DEF PageTiles, PageInv, PageRecord
  <2> QED
    BY <2>1, <2>2
<1>3. ASSUME NEW kind \in {"public", "runtime"}, NEW budget \in ByteBudget,
             NEW first \in 1..(Len(journal) + 1), PlanJournalRead(kind, budget, first)
      PROVE  PageInv' /\ pages.phase # "paging"
  BY <1>3, PlanPages DEF PlanJournalRead
<1>4. ASSUME NEW limit \in 1..MaxLimit, NEW scanLimit \in 0..MaxLimit,
             NEW end \in (pages.next - 1)..Len(journal), WalkJournal(limit, scanLimit, end)
      PROVE  PageInv' /\ PageTiles
  BY <1>4, WalkPages
<1> QED
  BY <1>2, <1>3, <1>4 DEF ReadsNext, ReaderNext, readsVars, readerVars

\* The pages of a read are consecutive and complete: whatever limits each has,
\* while the journal grows and streams end early, they hold every selected
\* record once and in order, the last one reaches the tip that the first
\* captured, and no limits stop a page before its first record.
\* (planJournalRead, walkJournal.)
THEOREM PagesDoTile == ReadsSpec => PagesTile
<1> DEFINE Tiles ==
        pages.phase = "paging" =>
          /\ \A limit \in 1..MaxLimit, scanLimit \in 0..MaxLimit :
                Fits(pages.kind, pages.next, pages.next, limit, scanLimit)
          /\ pages.next <= pages'.next
          /\ pages'.got = Selected(pages.kind, pages.start, pages'.next - 1)
          /\ pages'.phase = "done" => pages'.next = pages.tip + 1
<1>1. ReadsInit => PageInv
  BY PagesStart
<1>2. WInv /\ PageInv /\ [ReadsNext]_readsVars => PageInv' /\ [Tiles]_readerVars
  <2> SUFFICES ASSUME WInv, PageInv, [ReadsNext]_readsVars
               PROVE  PageInv' /\ (readerVars' # readerVars => Tiles)
    OBVIOUS
  <2>1. ASSUME pages.phase = "paging", NEW limit \in 1..MaxLimit, NEW scanLimit \in 0..MaxLimit
        PROVE  Fits(pages.kind, pages.next, pages.next, limit, scanLimit)
    <3>1. pages.next \in Nat \ {0} /\ limit \in Nat \ {0} /\ scanLimit \in Nat
      BY <2>1, ReaderAssumption DEF PageInv, PageRecord
    <3> QED
      BY <3>1, OneFits
  <2> QED
    BY <2>1, PagesStep DEF PageTiles
<1>3. [][Tiles]_readerVars => PagesTile
  BY DEF PagesTile
<1> QED
  BY <1>1, <1>2, <1>3, WalkSummarises, PTL DEF ReadsSpec

-----------------------------------------------------------------------------
(* Frames.                                                                 *)

WireValue == {"good", "cut", "empty", "invalid", "large", "zero", "narrow"}
FieldRecord == [tag : 1..12, value : WireValue]
FrameRecord == [sound : BOOLEAN, kind : RecordKind \cup {"none", "unknown"}, count : Int, extent : Int,
                fields : Seq(FieldRecord)]
AnyEnvelope == [kind : RecordKind \cup {"none", "unknown"}, fields : [Tag -> WireValue \cup {"unset"}]]

\* The fields of a kind, and those of them that are not bodies.
LEMMA KindsOfField ==
    /\ Tag = 1..11 /\ Inline = {2, 4} /\ Reference = {3, 5} /\ FixedWidth = {6, 7, 10} /\ Text = {1, 8, 9, 11}
    /\ PublicBody = {2, 3} /\ RuntimeBody = {4, 5} /\ Bodies = {2, 3, 4, 5}
    /\ allowedEnvelopeFields["public_event"] = {1, 2, 3, 4, 5}
    /\ allowedEnvelopeFields["runtime_control"] = {1, 4, 5}
    /\ allowedEnvelopeFields["opening_fence"] = {6}
    /\ allowedEnvelopeFields["application_prefix"] = {1, 6, 7, 8}
    /\ allowedEnvelopeFields["command_disposition"] = {1, 6, 7, 8, 9, 10, 11}
BY DEF Tag, Inline, Reference, FixedWidth, Text, PublicBody, RuntimeBody, Bodies, allowedEnvelopeFields,
       Identity, LeaseEpochTag, RuntimeCommandIDTag, CommandKindTag, AttemptEpochTag

\* Every field but a body is required by its kind.
LEMMA RequiredIs ==
    /\ Required("public_event") = {1} /\ Required("runtime_control") = {1}
    /\ Required("opening_fence") = {6} /\ Required("application_prefix") = {1, 6, 7, 8}
    /\ Required("command_disposition") = {1, 6, 7, 8, 9, 10, 11}
    /\ \A kind \in RecordKind : Required(kind) = allowedEnvelopeFields[kind] \ {2, 3, 4, 5}
    /\ \A kind \in RecordKind : allowedEnvelopeFields[kind] \subseteq Tag
BY KindsOfField DEF Required, RecordKind

\* What the rules for its kind leave of an envelope.
LEMMA ValidFields ==
    ASSUME NEW env, validateEnvelope(env)
    PROVE  /\ env.kind \in RecordKind
           /\ \A tag \in Required(env.kind) : env.fields[tag] = "good"
           /\ \A tag \in SetFields(env) : tag \in Reference => env.fields[tag] = "good"
           /\ \A tag \in SetFields(env) : tag \in Inline => env.fields[tag] \in {"empty", "good", "invalid"}
           /\ SetFields(env) \subseteq allowedEnvelopeFields[env.kind]
           /\ Cardinality(SetFields(env) \cap PublicBody) <= 1
           /\ Cardinality(SetFields(env) \cap RuntimeBody) <= 1
           /\ RequiredBody(env.kind) # {} => SetFields(env) \cap RequiredBody(env.kind) # {}
<1>1. /\ env.kind \in RecordKind
      /\ validateSlot(env, PublicBody) /\ validateSlot(env, RuntimeBody)
      /\ RequiredBody(env.kind) # {} => SetFields(env) \cap RequiredBody(env.kind) # {}
      /\ SetFields(env) \subseteq allowedEnvelopeFields[env.kind]
  BY DEF validateEnvelope
<1>2. /\ env.kind = "public_event" => Good(env, {Identity})
      /\ env.kind = "runtime_control" => Good(env, {Identity})
      /\ env.kind = "opening_fence" => Good(env, {LeaseEpochTag})
      /\ env.kind = "application_prefix" => validateCommandCorrelation(env)
      /\ env.kind = "command_disposition" => validateCommandCorrelation(env) /\ Good(env, 9..11)
  BY <1>1 DEF validateEnvelope, RecordKind
<1>3. \A tag \in Required(env.kind) : env.fields[tag] = "good"
  BY <1>1, <1>2, RequiredIs DEF RecordKind, Good, validateCommandCorrelation, Identity, LeaseEpochTag,
     RuntimeCommandIDTag, CommandKindTag
<1>4. \A slot \in {PublicBody, RuntimeBody} : \A tag \in SetFields(env) \cap slot :
          env.fields[tag] \in (IF tag \in Reference THEN {"good"} ELSE {"empty", "good", "invalid"})
  BY <1>1 DEF validateSlot
<1>5. \A tag \in SetFields(env) :
          /\ tag \in Reference => env.fields[tag] = "good"
          /\ tag \in Inline => env.fields[tag] \in {"empty", "good", "invalid"}
  BY <1>4, KindsOfField
<1> QED
  BY <1>1, <1>3, <1>5 DEF validateSlot

\* What a field is refused for, case by case.
LEMMA DecodeFieldIs ==
    ASSUME NEW tag, NEW value
    PROVE  decodeField(tag, value) <=>
              IF tag \in Reference THEN value = "good"
              ELSE IF tag \in FixedWidth THEN value # "narrow" ELSE value # "large"
BY KindsOfField DEF decodeField, decodeBodyReference

\* Two fields make a set of two, one of a pair does not.
LEMMA PairCounts ==
    ASSUME NEW S, NEW x, NEW y, x # y
    PROVE  Cardinality(S \cap {x, y}) <= 1 <=> ~({x, y} \subseteq S)
<1>1. IsFiniteSet({x}) /\ Cardinality({x}) = 1
  BY FS_Singleton
<1>2. IsFiniteSet({x} \cup {y}) /\ Cardinality({x} \cup {y}) = 2
  BY <1>1, FS_AddElement
<1>3. CASE {x, y} \subseteq S
  <2>1. S \cap {x, y} = {x} \cup {y}
    BY <1>3
  <2> QED
    BY <1>2, <1>3, <2>1
<1>4. CASE ~({x, y} \subseteq S)
  <2>1. PICK z : S \cap {x, y} \in SUBSET {z}
    BY <1>4
  <2>2. IsFiniteSet({z}) /\ Cardinality({z}) = 1
    BY FS_Singleton
  <2> QED
    BY <1>4, <2>1, <2>2, FS_Subset
<1> QED
  BY <1>3, <1>4

\* The fields of a kind are numbers, which their frame lists in ascending order.
LEMMA TagsEnumerate ==
    ASSUME NEW T, T \subseteq Tag
    PROVE  Numbers(T)
<1>1. T \in SUBSET (1..11)
  BY KindsOfField
<1> QED
  BY <1>1, NumbersBetween

\* An unset field is none; any other is what it says.
LEMMA RequiredSaysItself ==
    ASSUME NEW env, validateEnvelope(env), NEW tag \in SetFields(env)
    PROVE  InMemory(tag, env.fields[tag]) = env.fields[tag]
<1>1. /\ env.kind \in RecordKind /\ tag \in allowedEnvelopeFields[env.kind] /\ tag \in Tag
      /\ \A t \in Required(env.kind) : env.fields[t] = "good"
  BY ValidFields DEF SetFields
<1>2. CASE tag \in Bodies
  BY <1>2, KindsOfField DEF InMemory
<1>3. CASE tag \notin Bodies
  BY <1>1, <1>3 DEF InMemory, Required
<1> QED
  BY <1>2, <1>3

\* What a writer may encode, a reader decodes, and reads what was written.
LEMMA EncodeDecodes ==
    ASSUME NEW env \in AnyEnvelope, validateEnvelope(env), \A tag \in Tag : env.fields[tag] # "cut"
    PROVE  /\ EncodeEnvelope(env) \in FrameRecord
           /\ DecodeEnvelope(EncodeEnvelope(env)) /\ Decoded(EncodeEnvelope(env)) = env
<1> DEFINE T == SetFields(env)
           tags == Enumerate(T)
           n == Cardinality(T)
           f == EncodeEnvelope(env)
<1>1. /\ env.kind \in RecordKind /\ T \subseteq allowedEnvelopeFields[env.kind] /\ T \subseteq Tag
      /\ allowedEnvelopeFields[env.kind] \subseteq Tag
      /\ T = SetFields(env) \cap allowedEnvelopeFields[env.kind]
  BY ValidFields, RequiredIs DEF SetFields
<1>2. /\ n \in Nat /\ tags \in [1..n -> T]
      /\ \A i, j \in 1..n : i < j => tags[i] < tags[j]
      /\ \A tag \in T : \E i \in 1..n : tags[i] = tag
  BY <1>1, TagsEnumerate, EnumerateAscends
<1>3. \A tag \in T : env.fields[tag] \in WireValue
  BY <1>1 DEF AnyEnvelope, SetFields
<1>4. f = [sound |-> TRUE, kind |-> env.kind, count |-> n, extent |-> n,
           fields |-> [i \in 1..n |-> [tag |-> tags[i], value |-> env.fields[tags[i]]]]]
  <2>1. EncodeEnvelope(env) =
          LET emitted == [i \in DOMAIN tags |-> [tag |-> tags[i], value |-> env.fields[tags[i]]]]
          IN  [sound |-> TRUE, kind |-> env.kind, count |-> Len(emitted), extent |-> Len(emitted), fields |-> emitted]
    BY <1>1 DEF EncodeEnvelope
  <2> HIDE DEF tags, n
  <2>2. DOMAIN tags = 1..n /\ n \in Nat
    BY <1>2
  <2>3. Len([i \in 1..n |-> [tag |-> tags[i], value |-> env.fields[tags[i]]]]) = n
    BY <2>2
  <2> QED
    BY <2>1, <2>2, <2>3
<1> HIDE DEF tags, n, f, T
<1>5. /\ f.sound /\ f.kind = env.kind /\ f.count = n /\ f.extent = n
      /\ DOMAIN f.fields = 1..n /\ Len(f.fields) = n
      /\ \A i \in 1..n : f.fields[i].tag = tags[i] /\ f.fields[i].value = env.fields[tags[i]]
  BY <1>2, <1>4
<1>6. Seen(f) = T
  BY <1>2, <1>5 DEF Seen
<1>7. f \in FrameRecord
  <2>1. ASSUME NEW i \in 1..n PROVE [tag |-> tags[i], value |-> env.fields[tags[i]]] \in FieldRecord
    <3>1. tags[i] \in 1..12 /\ env.fields[tags[i]] \in WireValue
      BY <1>1, <1>2, <1>3, KindsOfField
    <3> QED
      BY <3>1 DEF FieldRecord
  <2>2. [i \in 1..n |-> [tag |-> tags[i], value |-> env.fields[tags[i]]]] \in Seq(FieldRecord)
    BY <1>2, <2>1
  <2> QED
    BY <1>1, <1>2, <1>4, <2>2 DEF FrameRecord
<1>8. ASSUME NEW tag \in Tag
      PROVE  env.fields[tag] =
                LET at == {i \in DOMAIN f.fields : f.fields[i].tag = tag /\ tag \in allowedEnvelopeFields[f.kind]}
                IN  IF at = {} THEN "unset"
                    ELSE InMemory(tag, f.fields[CHOOSE i \in at : \A j \in at : j <= i].value)
  <2> DEFINE at == {i \in DOMAIN f.fields : f.fields[i].tag = tag /\ tag \in allowedEnvelopeFields[f.kind]}
  <2>1. CASE tag \notin T
    <3>1. at = {}
      BY <1>2, <1>5, <2>1
    <3>2. env.fields[tag] = "unset"
      BY <2>1 DEF T, SetFields
    <3> QED
      BY <3>1, <3>2
  <2>2. CASE tag \in T
    <3>1. PICK r \in 1..n : tags[r] = tag
      BY <1>2, <2>2
    <3>2. \A i \in 1..n : tags[i] = tag => i = r
      <4>1. ASSUME NEW i \in 1..n, tags[i] = tag, i # r PROVE FALSE
        <5>1. i < r \/ r < i
          BY <1>2, <4>1
        <5>2. tags[i] \in Nat
          BY <1>1, <1>2, KindsOfField
        <5> QED
          BY <1>2, <3>1, <4>1, <5>1, <5>2
      <4> QED
        BY <4>1
    <3>3. at = {r}
      BY <1>1, <1>5, <2>2, <3>1, <3>2
    <3> HIDE DEF at
    <3>4. (CHOOSE i \in at : \A j \in at : j <= i) = r
      BY <1>2, <3>1, <3>3
    <3>5. f.fields[r].value = env.fields[tag] /\ InMemory(tag, env.fields[tag]) = env.fields[tag]
      BY <1>5, <2>2, <3>1, RequiredSaysItself DEF T
    <3> QED
      BY <3>3, <3>4, <3>5 DEF at
  <2> QED
    BY <2>1, <2>2
<1> DEFINE read(tag) ==
        LET at == {i \in DOMAIN f.fields : f.fields[i].tag = tag /\ tag \in allowedEnvelopeFields[f.kind]}
        IN  IF at = {} THEN "unset"
            ELSE InMemory(tag, f.fields[CHOOSE i \in at : \A j \in at : j <= i].value)
<1>9. Decoded(f) = env
  <2>1. Decoded(f) = [kind |-> f.kind, fields |-> [tag \in Tag |-> read(tag)]]
    BY DEF Decoded
  <2>2. \A tag \in Tag : read(tag) = env.fields[tag]
    BY <1>8
  <2> HIDE DEF read
  <2>3. env = [kind |-> env.kind, fields |-> [tag \in Tag |-> env.fields[tag]]]
    BY DEF AnyEnvelope
  <2> QED
    BY <1>5, <2>1, <2>2, <2>3
<1>10. InOrder(f.fields)
  <2>1. \A i \in 2..n : i \in 1..n /\ i - 1 \in 1..n /\ i - 1 < i
    BY <1>2
  <2> QED
    BY <1>2, <1>5, <2>1 DEF InOrder
<1>11. ASSUME NEW i \in 1..n
       PROVE  f.fields[i].value # "cut" /\ decodeField(f.fields[i].tag, f.fields[i].value)
  <2>1. PICK tag \in T : tag = tags[i] /\ f.fields[i].tag = tag /\ f.fields[i].value = env.fields[tag]
    BY <1>2, <1>5
  <2>2. /\ tag \in Reference => env.fields[tag] = "good"
        /\ tag \in Inline => env.fields[tag] \in {"empty", "good", "invalid"}
        /\ tag \in Required(env.kind) => env.fields[tag] = "good"
    BY <2>1, ValidFields DEF T
  <2>3. tag \in Reference \cup Inline \cup Required(env.kind)
    BY <1>1, RequiredIs, KindsOfField
  <2>4. env.fields[tag] \in {"empty", "good", "invalid"} /\ (env.fields[tag] = "good" \/ tag \in Inline)
    BY <2>2, <2>3
  <2>5. decodeField(tag, env.fields[tag])
    BY <2>4, KindsOfField, DecodeFieldIs
  <2> QED
    BY <2>1, <2>4, <2>5
<1>12. validateDecodedFields(env.kind, T)
  <2>1. /\ \A tag \in Required(env.kind) : env.fields[tag] = "good" /\ tag \in Tag
        /\ RequiredBody(env.kind) # {} => T \cap RequiredBody(env.kind) # {}
        /\ Cardinality(T \cap {2, 3}) <= 1 /\ Cardinality(T \cap {4, 5}) <= 1
    BY <1>1, ValidFields, KindsOfField DEF T, Required
  <2>2. Required(env.kind) \subseteq T
    BY <2>1 DEF T, SetFields
  <2>3. ~({2, 3} \subseteq T) /\ ~({4, 5} \subseteq T)
    BY <2>1, PairCounts
  <2> QED
    BY <1>1, <2>1, <2>2, <2>3, KindsOfField DEF validateDecodedFields
<1>13. SoundHeader(f)
  BY <1>1, <1>5 DEF SoundHeader
<1>14. DecodeEnvelope(f)
  BY <1>1, <1>5, <1>6, <1>9, <1>10, <1>11, <1>12, <1>13 DEF DecodeEnvelope
<1> QED
  BY <1>7, <1>9, <1>14 DEF f

\* Neighbours in order are all in order.
LEMMA OrderAscends ==
    ASSUME NEW n \in Nat, NEW s \in [1..n -> Nat], \A i \in 2..n : s[i - 1] < s[i]
    PROVE  Ascends(s)
<1> SUFFICES ASSUME NEW i \in 1..n, NEW k \in 1..n, i < k, ~(s[i] < s[k]) PROVE FALSE
  BY DEF Ascends
<1> DEFINE S == {j \in 1..n : i < j /\ ~(s[i] < s[j])}
<1>1. Numbers(S)
  <2>1. S \in SUBSET (1..n) /\ 1..n \subseteq Nat
    OBVIOUS
  <2>2. IsFiniteSet(1..n)
    BY FS_Interval
  <2> HIDE DEF S
  <2> QED
    BY <2>1, <2>2, FS_Subset DEF Numbers
<1>2. PICK j \in S : \A l \in S : j <= l
  <2>1. k \in S
    OBVIOUS
  <2> HIDE DEF S
  <2> QED
    BY <1>1, <2>1, LeastNumber
<1>3. j \in 2..n /\ j - 1 \in 1..n /\ s[j - 1] < s[j] /\ j - 1 < j
  OBVIOUS
<1>4. j - 1 \notin S
  BY <1>2, <1>3
<1>5. j - 1 = i \/ s[i] < s[j - 1]
  BY <1>3, <1>4
<1>6. s[i] \in Nat /\ s[j] \in Nat /\ s[j - 1] \in Nat /\ ~(s[i] < s[j])
  BY <1>3
<1> HIDE DEF S
<1>7. CASE j - 1 = i
  BY <1>3, <1>6, <1>7
<1>8. CASE s[i] < s[j - 1]
  BY <1>3, <1>6, <1>8
<1> QED
  BY <1>5, <1>7, <1>8

\* What a reader accepts is what a writer would have made of what it reads.
LEMMA DecodeEncodes ==
    ASSUME NEW f \in FrameRecord, DecodeEnvelope(f)
    PROVE  EncodeEnvelope(Decoded(f)) = f
<1> DEFINE env == Decoded(f)
           n == Len(f.fields)
           tags == [i \in 1..n |-> f.fields[i].tag]
<1>1. /\ f.sound = TRUE /\ f.kind \in RecordKind /\ f.extent = n /\ f.count = n
      /\ n \in Nat /\ f.fields \in Seq(FieldRecord) /\ DOMAIN f.fields = 1..n
      /\ f = [sound |-> f.sound, kind |-> f.kind, count |-> f.count, extent |-> f.extent, fields |-> f.fields]
  BY DEF DecodeEnvelope, SoundHeader, FrameRecord
<1>2. /\ Seen(f) \subseteq allowedEnvelopeFields[f.kind] /\ validateEnvelope(env)
      /\ allowedEnvelopeFields[f.kind] \subseteq Tag
  BY <1>1, RequiredIs DEF DecodeEnvelope, validateDecodedFields
<1>3. ASSUME NEW i \in 1..n
      PROVE  /\ f.fields[i] = [tag |-> tags[i], value |-> f.fields[i].value]
             /\ f.fields[i].value \in WireValue /\ tags[i] \in Nat /\ tags[i] \in Seen(f)
  <2>1. f.fields[i] \in FieldRecord
    BY <1>1
  <2>2. f.fields[i].tag \in Seen(f)
    BY <1>1 DEF Seen
  <2> QED
    BY <2>1, <2>2 DEF FieldRecord
<1>4. Ascends(tags) /\ tags \in [1..n -> Nat]
  <2>1. \A i \in 2..n : tags[i - 1] < tags[i]
    <3>1. \A i \in 2..n : f.fields[i - 1].tag < f.fields[i].tag
      BY DEF DecodeEnvelope, InOrder
    <3>2. \A i \in 2..n : i \in 1..n /\ i - 1 \in 1..n
      BY <1>1
    <3> QED
      BY <3>1, <3>2
  <2>2. tags \in [1..n -> Nat]
    BY <1>3
  <2> HIDE DEF tags
  <2> QED
    BY <1>1, <2>1, <2>2, OrderAscends
<1>5. Seen(f) = {tags[i] : i \in 1..n}
  BY <1>1 DEF Seen
<1>6. Enumerate(Seen(f)) = tags
  <2> HIDE DEF tags
  <2> QED
    BY <1>1, <1>4, <1>5, AscentEnumerates
<1>7. ASSUME NEW r \in 1..n
      PROVE  env.fields[tags[r]] = InMemory(tags[r], f.fields[r].value)
  <2> DEFINE at == {i \in DOMAIN f.fields : f.fields[i].tag = tags[r] /\ tags[r] \in allowedEnvelopeFields[f.kind]}
  <2>1. tags[r] \in Tag /\ tags[r] \in allowedEnvelopeFields[f.kind]
    BY <1>2, <1>3
  <2>2. at = {r}
    <3>1. ASSUME NEW i \in 1..n, tags[i] = tags[r], i # r PROVE FALSE
      <4>1. i < r \/ r < i
        BY <1>1, <3>1
      <4>2. tags[i] < tags[r] \/ tags[r] < tags[i]
        <5>1. DOMAIN tags = 1..n
          OBVIOUS
        <5> HIDE DEF tags
        <5> QED
          BY <1>4, <4>1, <5>1 DEF Ascends
      <4>3. tags[i] \in Nat /\ tags[r] \in Nat
        BY <1>3
      <4> HIDE DEF tags
      <4> QED
        BY <3>1, <4>2, <4>3
    <3> QED
      BY <1>1, <2>1, <3>1
  <2>3. env.fields[tags[r]] = IF at = {} THEN "unset"
                              ELSE InMemory(tags[r], f.fields[CHOOSE i \in at : \A j \in at : j <= i].value)
    BY <2>1 DEF Decoded
  <2> HIDE DEF at
  <2>4. (CHOOSE i \in at : \A j \in at : j <= i) = r
    BY <1>1, <2>2
  <2> QED
    BY <2>2, <2>3, <2>4
<1>8. ASSUME NEW tag \in Tag, tag \notin Seen(f) PROVE env.fields[tag] = "unset"
  <2>1. {i \in DOMAIN f.fields : f.fields[i].tag = tag /\ tag \in allowedEnvelopeFields[f.kind]} = {}
    BY <1>8 DEF Seen
  <2> QED
    BY <2>1 DEF Decoded
<1> HIDE DEF env
<1>9. env.kind = f.kind
  BY DEF env, Decoded
<1>10. ASSUME NEW r \in 1..n
       PROVE  env.fields[tags[r]] = f.fields[r].value
  <2>1. tags[r] \in allowedEnvelopeFields[f.kind]
    BY <1>2, <1>3
  <2>2. CASE tags[r] \in Bodies
    <3>1. PICK tag : tag = tags[r]
      OBVIOUS
    <3>2. tag \notin Text /\ tag \notin FixedWidth
      BY <2>2, <3>1, KindsOfField
    <3> HIDE DEF tags
    <3> QED
      BY <1>7, <3>1, <3>2 DEF InMemory
  <2>3. CASE tags[r] \notin Bodies
    <3>1. env.fields[tags[r]] = "good"
      BY <1>2, <1>9, <2>1, <2>3, ValidFields DEF Required
    <3> QED
      BY <1>7, <3>1 DEF InMemory
  <2> QED
    BY <2>2, <2>3
<1>11. SetFields(env) = Seen(f)
  <2>1. ASSUME NEW r \in 1..n PROVE tags[r] \in SetFields(env)
    BY <1>2, <1>3, <1>10 DEF SetFields, WireValue
  <2>2. SetFields(env) \subseteq Seen(f)
    BY <1>8 DEF SetFields
  <2> QED
    BY <1>5, <2>1, <2>2
<1>12. SetFields(env) \cap allowedEnvelopeFields[env.kind] = Seen(f)
  BY <1>2, <1>9, <1>11
<1>13. [i \in DOMAIN tags |-> [tag |-> tags[i], value |-> env.fields[tags[i]]]] = f.fields
  <2>1. \A i \in 1..n : [tag |-> tags[i], value |-> env.fields[tags[i]]] = f.fields[i]
    BY <1>3, <1>10
  <2>2. f.fields = [i \in 1..n |-> f.fields[i]]
    BY <1>1
  <2> QED
    BY <2>1, <2>2
<1>14. EncodeEnvelope(env) = [sound |-> TRUE, kind |-> f.kind, count |-> n, extent |-> n, fields |-> f.fields]
  <2> HIDE DEF tags
  <2> QED
    BY <1>6, <1>9, <1>12, <1>13 DEF EncodeEnvelope
<1> QED
  BY <1>1, <1>14 DEF env

\* A frame is what its writer made of an envelope, until it is changed; then it
\* is a header and any fields.
WireInv ==
    /\ wire \in [of : AnyEnvelope, damage : Nat, frame : FrameRecord]
    /\ wire.of # NoEnvelope /\ wire.damage = 0 =>
          /\ validateEnvelope(wire.of) /\ \A tag \in Tag : wire.of.fields[tag] # "cut"
          /\ wire.frame = EncodeEnvelope(wire.of)

\* A field on the wire says something.
LEMMA ValuesAreWireValues ==
    ASSUME NEW tag
    PROVE  ValuesOf(tag) \subseteq WireValue
<1>1. \/ ValuesOf(tag) = {"good", "cut"} \cup {"empty", "invalid", "large"}
      \/ ValuesOf(tag) = {"good", "cut"} \cup ({"empty", "invalid", "large"} \ {"invalid"})
      \/ ValuesOf(tag) = {"good", "cut"} \cup {"zero", "invalid", "narrow"}
      \/ ValuesOf(tag) = {"good", "cut"} \cup {"zero", "narrow"}
  <2>1. CASE tag \in Inline
    BY <2>1, KindsOfField DEF ValuesOf
  <2>2. CASE tag \in Reference
    BY <2>2, KindsOfField DEF ValuesOf
  <2>3. CASE tag \in FixedWidth
    BY <2>3, KindsOfField DEF ValuesOf
  <2>4. CASE tag \notin Inline /\ tag \notin Reference /\ tag \notin FixedWidth
    BY <2>4 DEF ValuesOf
  <2> QED
    BY <2>1, <2>2, <2>3, <2>4
<1> QED
  BY <1>1 DEF WireValue

\* So does a field that damage puts there.
LEMMA WireFieldsAreFields == WireField \subseteq FieldRecord
<1>1. AnyField \subseteq FieldRecord
  BY ValuesAreWireValues, KindsOfField DEF AnyField, FieldRecord
<1>2. [tag |-> 12, value |-> "good"] \in FieldRecord
  BY DEF FieldRecord, WireValue
<1> QED
  BY <1>1, <1>2 DEF WireField

\* A behaviour begins with a frame as its writer made it, or with none.
LEMMA WireStart == ReadsInit => WireInv
<1>1. ASSUME WriteFrame PROVE WireInv
  <2>0. PICK kind \in RecordKind :
           \E env \in EnvelopesOf(kind) :
              validateEnvelope(env) /\ wire = [of |-> env, frame |-> EncodeEnvelope(env), damage |-> 0]
    BY <1>1 DEF WriteFrame
  <2>1. PICK env \in EnvelopesOf(kind) :
           validateEnvelope(env) /\ wire = [of |-> env, frame |-> EncodeEnvelope(env), damage |-> 0]
    BY <2>0
  <2>2. PICK g \in [allowedEnvelopeFields[kind] -> {"unset", "empty", "good", "invalid", "large"}] :
           env = [kind |-> kind, fields |-> [tag \in Tag |-> IF tag \in DOMAIN g THEN g[tag] ELSE "unset"]]
    BY DEF EnvelopesOf
  <2>3. \A tag \in Tag : env.fields[tag] \in {"unset", "empty", "good", "invalid", "large"}
    BY <2>2
  <2>4. env \in AnyEnvelope
    BY <2>2, <2>3 DEF AnyEnvelope, WireValue
  <2>5. EncodeEnvelope(env) \in FrameRecord
    BY <2>1, <2>3, <2>4, EncodeDecodes
  <2> QED
    BY <2>1, <2>3, <2>4, <2>5 DEF WireInv
<1>2. ASSUME wire = NoFrame PROVE WireInv
  <2>1. NoEnvelope \in AnyEnvelope
    BY DEF NoEnvelope, AnyEnvelope, Unset
  <2>2. << >> \in Seq(FieldRecord)
    OBVIOUS
  <2>3. NoFrame.frame \in FrameRecord
    BY <2>2 DEF NoFrame, FrameRecord
  <2> QED
    BY <1>2, <2>1, <2>3 DEF WireInv, NoFrame
<1> QED
  BY <1>1, <1>2 DEF ReadsInit

\* A changed frame counts as damaged.
LEMMA ChangedIsFrame ==
    ASSUME WireInv, NEW frame \in FrameRecord, Changed(frame)
    PROVE  WireInv'
<1>1. wire \in [of : AnyEnvelope, damage : Nat, frame : FrameRecord]
  BY DEF WireInv
<1>2. wire' = [wire EXCEPT !.frame = frame, !.damage = @ + 1]
  BY DEF Changed
<1>3. wire' \in [of : AnyEnvelope, damage : Nat, frame : FrameRecord] /\ wire'.damage = wire.damage + 1
  <2>1. wire.damage + 1 \in Nat
    BY <1>1
  <2>2. wire' = [of |-> wire.of, damage |-> wire.damage + 1, frame |-> frame]
    BY <1>1, <1>2
  <2> QED
    BY <1>1, <2>1, <2>2
<1>4. wire'.damage # 0
  BY <1>1, <1>3
<1> QED
  BY <1>3, <1>4 DEF WireInv

\* Other fields under a header that declares them are a frame.
LEMMA RedeclaredIsFrame ==
    ASSUME WireInv, NEW fields \in Seq(FieldRecord)
    PROVE  Redeclared(fields) \in FrameRecord
<1>1. wire.frame \in FrameRecord /\ Len(fields) \in Int
  BY DEF WireInv
<1> QED
  BY <1>1 DEF Redeclared, FrameRecord

\* One step per kind of damage.
LEMMA WireStep ==
    ASSUME WireInv, WireNext
    PROVE  WireInv'
<1>1. wire.frame \in FrameRecord /\ Fields \in Seq(FieldRecord)
  BY DEF WireInv, FrameRecord, Fields
<1>2. CASE HeaderChanges
  <2>1. /\ [wire.frame EXCEPT !.sound = FALSE] \in FrameRecord
        /\ \A kind \in RecordKind \cup {"unknown"} : [wire.frame EXCEPT !.kind = kind] \in FrameRecord
    BY <1>1 DEF FrameRecord
  <2>2. ASSUME NEW n \in Int
        PROVE  /\ [wire.frame EXCEPT !.count = @ + n] \in FrameRecord
               /\ [wire.frame EXCEPT !.extent = @ + n] \in FrameRecord
    <3>1. wire.frame.count + n \in Int /\ wire.frame.extent + n \in Int
      BY <1>1 DEF FrameRecord
    <3> QED
      BY <1>1, <3>1 DEF FrameRecord
  <2>3. {-1, 1} \subseteq Int
    OBVIOUS
  <2> QED
    BY <1>2, <2>1, <2>2, <2>3, ChangedIsFrame DEF HeaderChanges
<1>3. CASE FieldsChange
  <2>1. ASSUME NEW fields \in Seq(FieldRecord), Changed(Redeclared(fields)) PROVE WireInv'
    BY <2>1, RedeclaredIsFrame, ChangedIsFrame
  <2>2. ASSUME NEW i \in DOMAIN Fields PROVE Seqs!RemoveAt(Fields, i) \in Seq(FieldRecord)
    BY <1>1 DEF Seqs!RemoveAt
  <2>3. ASSUME NEW i \in 1..(Len(Fields) + 1), NEW f \in WireField
        PROVE  Seqs!InsertAt(Fields, i, f) \in Seq(FieldRecord)
    BY <1>1, WireFieldsAreFields DEF Seqs!InsertAt
  <2>4. ASSUME NEW s \in Seq(FieldRecord), NEW i, NEW f \in FieldRecord
        PROVE  Seqs!ReplaceAt(s, i, f) \in Seq(FieldRecord)
    <3>1. PICK n \in Nat : n = Len(s)
      OBVIOUS
    <3>2. s \in [1..n -> FieldRecord]
      BY <3>1
    <3>3. [s EXCEPT ![i] = f] \in [1..n -> FieldRecord]
      BY <3>2
    <3>4. [s EXCEPT ![i] = f] \in Seq(FieldRecord)
      BY <3>1, <3>3
    <3> QED
      BY <3>4 DEF Seqs!ReplaceAt
  <2>5. ASSUME NEW i \in 1..(Len(Fields) - 1)
        PROVE  Seqs!ReplaceAt(Seqs!ReplaceAt(Fields, i, Fields[i + 1]), i + 1, Fields[i]) \in Seq(FieldRecord)
    <3>1. Fields[i] \in FieldRecord /\ Fields[i + 1] \in FieldRecord
      BY <1>1
    <3>2. Seqs!ReplaceAt(Fields, i, Fields[i + 1]) \in Seq(FieldRecord)
      BY <1>1, <2>4, <3>1
    <3> QED
      BY <2>4, <3>1, <3>2
  <2>6. ASSUME NEW i \in DOMAIN Fields, NEW f \in WireField
        PROVE  Seqs!ReplaceAt(Fields, i, f) \in Seq(FieldRecord)
    BY <1>1, <2>4, WireFieldsAreFields
  <2> QED
    BY <1>3, <2>1, <2>2, <2>3, <2>5, <2>6 DEF FieldsChange
<1> QED
  BY <1>2, <1>3 DEF WireNext

\* A reader accepts a frame exactly if it is the one frame of some envelope, and
\* reads that envelope, after any number of changes to the frame: its header,
\* fields removed, inserted, replaced or swapped.  (EncodeEnvelope,
\* DecodeEnvelope.)
THEOREM FramesAreCanonical == ReadsSpec => []OneFramePerEnvelope
<1>1. ReadsInit => WireInv
  BY WireStart
<1>2. WireInv /\ [ReadsNext]_readsVars => WireInv'
  <2>1. WireInv /\ UNCHANGED wire => WireInv'
    BY DEF WireInv
  <2> QED
    BY <2>1, WireStep DEF ReadsNext, readsVars
<1>3. WireInv => OneFramePerEnvelope
  BY EncodeDecodes, DecodeEncodes DEF WireInv, OneFramePerEnvelope
<1> QED
  BY <1>1, <1>2, <1>3, PTL DEF ReadsSpec
=============================================================================
