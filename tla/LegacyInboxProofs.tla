------------------------- MODULE LegacyInboxProofs -------------------------
(***************************************************************************)
(* Theorems about the legacy inbox over its journal, for every number of   *)
(* commands, grants and concurrent calls, every skew of the clocks and     *)
(* every deadline.  What relates a record to its journal rests on grants   *)
(* that open the journal in their order (~LateOpeners); what records do    *)
(* among themselves does not (RInv).                                       *)
(*                                                                         *)
(* A rejection is decided on a journal that goes on growing.  What carries *)
(* it is NoMore: whoever might still append the command's prefix is behind *)
(* another grant's fence, and no prefix of the command awaits its effect.  *)
(* Journal and inbox are tied by UnderWay: a prefix, and the right to      *)
(* append one, belong to the grant that the record's claim names for good. *)
(***************************************************************************)
EXTENDS LegacyEffects, FiniteSetTheorems, TLAPS

Unstored == \A c \in Command : ~Stored(c) => inbox[c] = Absent

\* Grants write in their order, a fence claims its true writer, and one of the
\* fences claims the most.
Leases == {journal[i].lease : i \in {k \in DOMAIN journal : journal[k].kind = "opening_fence"}}
RunsInOrder ==
    /\ \A i \in DOMAIN journal : journal[i].by \in Epoch
    /\ \E e \in Leases \cup {0} : \A f \in Leases : f <= e
    /\ \A i, j \in DOMAIN journal : i <= j => journal[i].by <= journal[j].by
    /\ \A i \in DOMAIN journal : journal[i].kind = "opening_fence" => journal[i].lease = journal[i].by

\* The command is being, or was, applied by grant e and no other.
UnderWay(c, e) ==
    /\ Stored(c)
    /\ Record(c).state \in {"applying", "applied", "rejected"}
    /\ Record(c).claim.lease = e

\* A command has one prefix, by the grant that began it; nothing but its
\* effect or another grant's fence follows.
PrefixOf(i, c) ==
    /\ journal[i].mapped /\ journal[i].lease = journal[i].by
    /\ UnderWay(c, journal[i].by)
    /\ \A j \in Naming(journal, c) : j = i
    /\ i < Len(journal) =>
          \/ journal[i + 1].kind = "opening_fence"
          \/ journal[i + 1].kind = "public_event" /\ journal[i + 1].of = c
    /\ ~Stacked(journal, i)
PrefixesAreBegun ==
    /\ \A i \in DOMAIN journal : IsPrefix(journal[i]) => journal[i].cmd \in Command
    /\ \A c \in Command : \A i \in Naming(journal, c) : PrefixOf(i, c)

EffectsFollow ==
    \A i \in DOMAIN journal : journal[i].of # NoCommand =>
        /\ i > 1 /\ i - 1 \in Naming(journal, journal[i].of)
        /\ journal[i].kind = "public_event"

BegunUnderClaim ==
    \A e \in Epoch, c \in Command : <<e, c>> \in begun =>
        UnderWay(c, e) /\ Naming(journal, c) = {}

\* The command has no effect and nobody can give it one.
NoMore(c) ==
    /\ \A i \in DOMAIN journal : journal[i].of # c
    /\ \A e \in Epoch : <<e, c>> \in begun => \E i \in DOMAIN journal : journal[i].by > e
    /\ PrefixAtTip => journal[Len(journal)].cmd # c

HasEffect(c, result) == result \in DOMAIN journal /\ journal[result].of = c

\* What a write is worth while it is current: to the record it would replace,
\* whatever the journal shows, and to the journal.
RowFollows(w) ==
    LET r == Record(w.cmd)
    IN  /\ Stored(w.cmd) /\ ~Terminal(r.state)
        /\ w.rec.deadline = r.deadline
        /\ w.rec.state \in {"claimed", "applying", "applied", "rejected"}
        /\ r.claim.lease <= w.rec.claim.lease
        /\ w.rec.state = "claimed" => r.state \in {"pending", "claimed"}
        /\ w.rec.state = "applying" =>
              /\ r.state = "claimed" /\ r.claim.lease = w.by
              /\ w.rec.claim.lease = w.by /\ w.by \in Epoch
        /\ w.rec.state \in {"applied", "rejected"} => w.rec.claim = r.claim
        /\ w.rec.state = "applied" => r.state = "applying"
RowWritesFollow ==
    \A w \in calls : w.rev # 0 /\ WellFormed(w.rec) /\ (Current(w) => RowFollows(w))

WriteFollows(w) ==
    /\ RowFollows(w)
    /\ w.rec.state = "applied" => HasEffect(w.cmd, w.rec.result)
    /\ w.rec.state = "rejected" => NoMore(w.cmd)
WritesFollow ==
    \A w \in calls : w.rev # 0 /\ WellFormed(w.rec) /\ (Current(w) => WriteFollows(w))

OutcomesStand ==
    \A c \in Command :
        /\ Record(c).state = "rejected" => NoMore(c)
        /\ Record(c).state = "applied" => HasEffect(c, Record(c).result)

\* The records' half, which does not ask in which order grants opened.
RInv == TypeOK /\ Unstored /\ RowWritesFollow

IInv ==
    /\ TypeOK
    /\ Unstored
    /\ RunsInOrder
    /\ PrefixesAreBegun
    /\ EffectsFollow
    /\ BegunUnderClaim
    /\ WritesFollow
    /\ OutcomesStand

-----------------------------------------------------------------------------
(* Records and the journal.                                                *)

LEMMA ClaimAtIsRecord ==
    ASSUME NEW r \in InboxRecord, NEW state \in InboxState, NEW e \in Nat, NEW expires \in Nat
    PROVE  ClaimAt(r, state, e, expires) \in InboxRecord
BY DEF ClaimAt, InboxRecord, CommandClaim

LEMMA AppliedIsRecord ==
    ASSUME NEW r \in InboxRecord, NEW result \in Nat
    PROVE  Applied(r, result) \in InboxRecord
BY DEF Applied, InboxRecord, InboxState

LEMMA RejectedIsRecord ==
    ASSUME NEW r \in InboxRecord
    PROVE  Rejected(r) \in InboxRecord
BY DEF Rejected, InboxRecord, InboxState

LEMMA StoredRecords ==
    ASSUME TypeOK, NEW c \in Command
    PROVE  /\ inbox[c] \in [rev : Nat, rec : InboxRecord]
           /\ Record(c) \in InboxRecord /\ WellFormed(Record(c))
BY DEF TypeOK, Record

LEMMA JournalDomain ==
    ASSUME TypeOK
    PROVE  /\ Len(journal) \in Nat /\ DOMAIN journal = 1..Len(journal)
           /\ \A i \in DOMAIN journal : journal[i] \in Entry
BY DEF TypeOK

LEMMA AppendedEntry ==
    ASSUME TypeOK, NEW x \in Entry, journal' = Append(journal, x)
    PROVE  /\ journal' \in Seq(Entry)
           /\ Len(journal') = Len(journal) + 1
           /\ DOMAIN journal' = DOMAIN journal \cup {Len(journal) + 1}
           /\ \A i \in DOMAIN journal : journal'[i] = journal[i]
           /\ journal'[Len(journal) + 1] = x
           /\ Len(journal) + 1 \notin DOMAIN journal
BY JournalDomain DEF TypeOK

\* NoMore only ever becomes true of a command that is not begun anew.
LEMMA NoMoreKept ==
    ASSUME NEW c, NoMore(c), UNCHANGED journal, begun' \subseteq begun
    PROVE  NoMore(c)'
BY DEF NoMore, PrefixAtTip

-----------------------------------------------------------------------------
(* The journal's steps: one record more, by a grant that no other has       *)
(* superseded.                                                              *)

LEMMA AppendKeepsNoMore ==
    ASSUME IInv, NEW e \in Epoch, NEW x \in Entry, journal' = Append(journal, x),
           begun' \subseteq begun,
           \A i \in DOMAIN journal : journal[i].by <= e,
           x.of # NoCommand => PrefixAtTip /\ journal[Len(journal)].cmd = x.of,
           IsPrefix(x) => <<e, x.cmd>> \in begun,
           NEW c \in Command, NoMore(c)
    PROVE  NoMore(c)'
<1>1. /\ Len(journal') = Len(journal) + 1
      /\ DOMAIN journal' = DOMAIN journal \cup {Len(journal) + 1}
      /\ \A i \in DOMAIN journal : journal'[i] = journal[i]
      /\ journal'[Len(journal) + 1] = x
  BY AppendedEntry DEF IInv
<1>2. x.of # c
  BY NoCommandAssumption DEF NoMore
<1>3. \A i \in DOMAIN journal' : journal'[i].of # c
  BY <1>1, <1>2 DEF NoMore
<1>4. \A d \in Epoch : <<d, c>> \in begun' => \E i \in DOMAIN journal' : journal'[i].by > d
  <2> SUFFICES ASSUME NEW d \in Epoch, <<d, c>> \in begun'
               PROVE  \E i \in DOMAIN journal' : journal'[i].by > d
    OBVIOUS
  <2>1. PICK i \in DOMAIN journal : journal[i].by > d
    BY DEF NoMore
  <2> QED
    BY <2>1, <1>1
<1>5. ASSUME IsPrefix(x) PROVE x.cmd # c
  <2> SUFFICES ASSUME x.cmd = c PROVE FALSE
    OBVIOUS
  <2>1. PICK i \in DOMAIN journal : journal[i].by > e
    BY <1>5 DEF NoMore
  <2>2. journal[i].by <= e /\ journal[i].by \in Nat /\ e \in Nat
    BY <2>1, JournalDomain DEF IInv, Entry, Epoch
  <2> QED
    BY <2>1, <2>2
<1> QED
  BY <1>1, <1>3, <1>4, <1>5 DEF NoMore, PrefixAtTip

LEMMA AppendPreserves ==
    ASSUME IInv, NEW e \in Epoch, NEW x \in Entry, x.by = e, journal' = Append(journal, x),
           UNCHANGED <<inbox, calls, now>>, begun' \subseteq begun,
           \A i \in DOMAIN journal : journal[i].by <= e,
           x.kind = "opening_fence" => x.lease = e,
           PrefixAtTip => \/ x.kind = "opening_fence"
                          \/ x.kind = "public_event" /\ x.of = journal[Len(journal)].cmd,
           x.of # NoCommand =>
               PrefixAtTip /\ journal[Len(journal)].cmd = x.of /\ x.kind = "public_event",
           IsPrefix(x) => /\ x.cmd \in Command /\ x.mapped /\ x.lease = e
                          /\ <<e, x.cmd>> \in begun
                          /\ begun' = begun \ {<<e, x.cmd>>}
    PROVE  IInv'
<1> DEFINE n == Len(journal) + 1
<1>1. /\ journal' \in Seq(Entry)
      /\ Len(journal') = n
      /\ DOMAIN journal' = DOMAIN journal \cup {n}
      /\ \A i \in DOMAIN journal : journal'[i] = journal[i]
      /\ journal'[n] = x
      /\ n \notin DOMAIN journal
  BY AppendedEntry DEF IInv
<1>2. /\ Len(journal) \in Nat /\ DOMAIN journal = 1..Len(journal)
      /\ \A i \in DOMAIN journal : journal[i] \in Entry
  BY JournalDomain DEF IInv
<1>2a. n - 1 = Len(journal) /\ (n > 1 => n - 1 \in DOMAIN journal)
  BY <1>2
<1> HIDE DEF n
<1>3. \A c : Record(c)' = Record(c) /\ Stored(c)' = Stored(c)
  BY DEF Record, Stored
<1>4. TypeOK'
  BY <1>1, <1>3 DEF IInv, TypeOK
<1>5. Unstored'
  BY <1>3 DEF IInv, Unstored
<1>6. RunsInOrder'
  <2>1. \A i \in DOMAIN journal' : journal'[i].by \in Epoch
    BY <1>1 DEF IInv, RunsInOrder
  <2>2. \A i, j \in DOMAIN journal' : i <= j => journal'[i].by <= journal'[j].by
    <3>1. n = Len(journal) + 1
      BY DEF n
    <3>2. e <= e
      BY DEF Epoch
    <3> QED
      BY <3>1, <3>2, <1>1, <1>2 DEF IInv, RunsInOrder
  <2>3. \A i \in DOMAIN journal' : journal'[i].kind = "opening_fence" => journal'[i].lease = journal'[i].by
    BY <1>1 DEF IInv, RunsInOrder
  <2>4. Leases' = IF x.kind = "opening_fence" THEN Leases \cup {x.lease} ELSE Leases
    BY <1>1 DEF Leases
  <2>5. PICK top \in Leases \cup {0} : \A f \in Leases : f <= top
    BY DEF IInv, RunsInOrder
  <2>6. Leases \subseteq Nat /\ x.lease \in Nat
    BY <1>2 DEF Leases, Entry
  <2>7. \E g \in Leases' \cup {0} : \A f \in Leases' : f <= g
    <3>1. CASE x.kind = "opening_fence" /\ x.lease > top
      BY <3>1, <2>4, <2>5, <2>6
    <3>2. CASE ~(x.kind = "opening_fence" /\ x.lease > top)
      BY <3>2, <2>4, <2>5, <2>6
    <3> QED
      BY <3>1, <3>2
  <2> QED
    BY <2>1, <2>2, <2>3, <2>7 DEF RunsInOrder
<1>7. \A c : Naming(journal, c)' =
              IF IsPrefix(x) /\ x.cmd = c THEN Naming(journal, c) \cup {n} ELSE Naming(journal, c)
  BY <1>1 DEF Naming
<1>9. ASSUME IsPrefix(x)
      PROVE  UnderWay(x.cmd, e) /\ Naming(journal, x.cmd) = {} /\ ~PrefixAtTip
  BY <1>9 DEF IInv, BegunUnderClaim, IsPrefix
<1>10. PrefixesAreBegun'
  <2>1. \A i \in DOMAIN journal' : IsPrefix(journal'[i]) => journal'[i].cmd \in Command
    BY <1>1 DEF IInv, PrefixesAreBegun
  <2>2. ASSUME NEW c \in Command, NEW i \in Naming(journal, c)'
        PROVE  PrefixOf(i, c)'
    <3>1. CASE i \in DOMAIN journal
      <4>1. i \in Naming(journal, c) /\ PrefixOf(i, c) /\ IsPrefix(journal[i]) /\ journal[i].cmd = c
        BY <3>1, <2>2, <1>1 DEF IInv, PrefixesAreBegun, Naming
      <4>2. Naming(journal, c)' = Naming(journal, c)
        BY <4>1, <1>7, <1>9
      <4>3. i < n => \/ journal'[i + 1].kind = "opening_fence"
                     \/ journal'[i + 1].kind = "public_event" /\ journal'[i + 1].of = c
        <5>1. CASE i < Len(journal)
          <6>1. i + 1 \in DOMAIN journal
            BY <5>1, <3>1, <1>2
          <6> QED
            BY <6>1, <5>1, <4>1, <1>1 DEF PrefixOf
        <5>2. CASE i = Len(journal)
          <6>1. PrefixAtTip /\ i + 1 = n
            BY <5>2, <3>1, <1>2, <4>1 DEF PrefixAtTip, n
          <6> QED
            BY <6>1, <5>2, <4>1, <1>1
        <5> QED
          BY <5>1, <5>2, <3>1, <1>2
      <4>4. ~Stacked(journal, i)'
        <5>1. i > 1 => i - 1 \in DOMAIN journal
          BY <3>1, <1>2
        <5> QED
          BY <5>1, <4>1, <1>1 DEF PrefixOf, Stacked
      <4>5. journal'[i] = journal[i]
        BY <3>1, <1>1
      <4>6. UnderWay(c, journal[i].by)'
        BY <4>1, <4>5, <1>3 DEF PrefixOf, UnderWay
      <4> QED
        BY <4>1, <4>2, <4>3, <4>4, <4>5, <4>6, <1>1 DEF PrefixOf
    <3>2. CASE i = n
      <4>1. c = x.cmd /\ IsPrefix(x) /\ journal'[i] = x
        BY <3>2, <2>2, <1>1 DEF Naming
      <4>2. \A j \in Naming(journal, c)' : j = i
        BY <4>1, <3>2, <1>7, <1>9
      <4>3. ~Stacked(journal, i)'
        <5> SUFFICES ASSUME i > 1, IsPrefix(journal'[i - 1]) PROVE FALSE
          BY DEF Stacked
        <5>1. i - 1 = Len(journal) /\ i - 1 \in DOMAIN journal
          BY <3>2, <1>2a
        <5>2. PrefixAtTip
          BY <5>1, <1>1, <1>2 DEF PrefixAtTip
        <5> QED
          BY <5>2, <4>1, <1>9
      <4>4. ~(i < Len(journal'))
        BY <3>2, <1>1, <1>2 DEF n
      <4>5. UnderWay(c, journal[i].by)'
        BY <4>1, <1>3, <1>9 DEF UnderWay
      <4> QED
        BY <4>1, <4>2, <4>3, <4>4, <4>5 DEF PrefixOf
    <3> QED
      BY <3>1, <3>2, <1>1 DEF Naming
  <2> QED
    BY <2>1, <2>2 DEF PrefixesAreBegun
<1>11. EffectsFollow'
  <2> SUFFICES ASSUME NEW i \in DOMAIN journal', journal'[i].of # NoCommand
               PROVE  /\ i > 1 /\ i - 1 \in Naming(journal', journal'[i].of)
                      /\ journal'[i].kind = "public_event"
    BY DEF EffectsFollow
  <2>1. CASE i \in DOMAIN journal
    BY <2>1, <1>1, <1>7 DEF IInv, EffectsFollow
  <2>2. CASE i = n
    <3>1. PrefixAtTip /\ journal[Len(journal)].cmd = x.of /\ x.kind = "public_event"
      BY <2>2, <1>1
    <3>2. i - 1 = Len(journal) /\ i > 1 /\ Len(journal) \in DOMAIN journal
      BY <3>1, <2>2, <1>2 DEF PrefixAtTip, n
    <3>3. i - 1 \in Naming(journal, x.of)
      BY <3>1, <3>2 DEF PrefixAtTip, Naming
    <3> QED
      BY <3>1, <3>2, <3>3, <2>2, <1>1, <1>7
  <2> QED
    BY <2>1, <2>2, <1>1
<1>12. BegunUnderClaim'
  <2> SUFFICES ASSUME NEW d \in Epoch, NEW c \in Command, <<d, c>> \in begun'
               PROVE  UnderWay(c, d) /\ Naming(journal, c)' = {}
    BY <1>3 DEF BegunUnderClaim, UnderWay
  <2>1. UnderWay(c, d) /\ Naming(journal, c) = {}
    BY DEF IInv, BegunUnderClaim
  <2>2. ~(IsPrefix(x) /\ x.cmd = c)
    <3> SUFFICES ASSUME IsPrefix(x), x.cmd = c PROVE FALSE
      OBVIOUS
    <3>1. d = e
      BY <2>1, <1>9 DEF UnderWay
    <3> QED
      BY <3>1
  <2> QED
    BY <2>1, <2>2, <1>7
<1>13. \A c \in Command : NoMore(c) => NoMore(c)'
  BY AppendKeepsNoMore
<1>14. \A c, k : HasEffect(c, k) => HasEffect(c, k)'
  BY <1>1 DEF HasEffect
<1>15. WritesFollow'
  <2> SUFFICES ASSUME NEW w \in calls
               PROVE  w.rev # 0 /\ WellFormed(w.rec) /\ (Current(w)' => WriteFollows(w)')
    BY DEF WritesFollow
  <2>1. w.rev # 0 /\ WellFormed(w.rec) /\ (Current(w) => WriteFollows(w)) /\ w.cmd \in Command
    BY DEF IInv, WritesFollow, TypeOK, Write
  <2>2. Current(w)' = Current(w)
    BY DEF Current
  <2> QED
    BY <2>1, <2>2, <1>3, <1>13, <1>14 DEF WriteFollows, RowFollows
<1>16. OutcomesStand'
  BY <1>3, <1>13, <1>14 DEF IInv, OutcomesStand
<1> QED
  BY <1>4, <1>5, <1>6, <1>10, <1>11, <1>12, <1>15, <1>16 DEF IInv

LEMMA OwnerIsLast ==
    ASSUME IInv, NEW e \in Epoch, Owner = e
    PROVE  \A i \in DOMAIN journal : journal[i].by <= e
<1>1. Len(journal) \in Nat /\ DOMAIN journal = 1..Len(journal)
  BY JournalDomain DEF IInv
<1>2. ASSUME NEW i \in DOMAIN journal PROVE journal[i].by <= e
  <2>1. Len(journal) \in DOMAIN journal /\ i <= Len(journal)
    BY <1>1, <1>2
  <2>2. journal[Len(journal)].by = e
    BY <2>1, <1>1 DEF Owner
  <2> QED
    BY <2>1, <2>2, <1>2 DEF IInv, RunsInOrder
<1> QED
  BY <1>2

LEMMA OpenJournalPreserves ==
    ASSUME IInv, ~LateOpeners, NEW e \in Epoch, OpenJournal(e)
    PROVE  IInv'
<1> DEFINE x == [kind |-> "opening_fence", lease |-> e, cmd |-> NoCommand, mapped |-> FALSE,
                 by |-> e, of |-> NoCommand]
<1>1. journal' = Append(journal, x) /\ UNCHANGED <<inbox, calls, now, begun>>
  BY DEF OpenJournal, Appends, OpeningFence
<1>2. x \in Entry
  BY DEF Entry, EnvelopeKind, Epoch
<1>3. \A i \in DOMAIN journal : journal[i].by <= e
  <2> SUFFICES ASSUME NEW i \in DOMAIN journal PROVE journal[i].by <= e
    OBVIOUS
  <2>1. journal[i].by \in Epoch /\ Opened(journal[i].by)
    BY DEF IInv, RunsInOrder, Opened
  <2> QED
    BY <2>1 DEF OpenJournal, Epoch
<1>4. x.by = e /\ x.lease = e /\ x.kind = "opening_fence" /\ x.of = NoCommand /\ ~IsPrefix(x)
  BY DEF IsPrefix
<1> HIDE DEF x
<1> QED
  BY <1>1, <1>2, <1>3, <1>4, AppendPreserves

LEMMA AppendPrefixPreserves ==
    ASSUME IInv, NEW e \in Epoch, NEW c \in Command, AppendPrefix(e, c)
    PROVE  IInv'
<1> DEFINE x == [kind |-> "application_prefix", lease |-> e, cmd |-> c, mapped |-> TRUE,
                 by |-> e, of |-> NoCommand]
<1>1. /\ journal' = Append(journal, x) /\ UNCHANGED <<inbox, calls, now>>
      /\ <<e, c>> \in begun /\ begun' = begun \ {<<e, c>>}
      /\ ~PrefixAtTip /\ Owner = e
  BY DEF AppendPrefix, Appends, ApplicationPrefix
<1>2. x \in Entry
  BY DEF Entry, EnvelopeKind, Epoch
<1>3. /\ x.by = e /\ x.lease = e /\ x.kind = "application_prefix" /\ x.of = NoCommand
      /\ x.cmd = c /\ x.mapped
  OBVIOUS
<1> HIDE DEF x
<1> QED
  BY <1>1, <1>2, <1>3, OwnerIsLast, AppendPreserves

LEMMA AppendEffectPreserves ==
    ASSUME IInv, NEW e \in Epoch, NEW c \in Command, AppendEffect(e, c)
    PROVE  IInv'
<1> DEFINE x == [kind |-> "public_event", lease |-> 0, cmd |-> NoCommand, mapped |-> FALSE,
                 by |-> e, of |-> c]
<1>1. /\ journal' = Append(journal, x) /\ UNCHANGED <<inbox, calls, now, begun>>
      /\ PrefixAtTip /\ Owner = e /\ journal[Len(journal)].cmd = c
  BY DEF AppendEffect, Appends, Unowned
<1>2. x \in Entry
  BY DEF Entry, EnvelopeKind, Epoch
<1>3. x.by = e /\ x.kind = "public_event" /\ x.of = c /\ ~IsPrefix(x)
  BY DEF IsPrefix
<1> HIDE DEF x
<1> QED
  BY <1>1, <1>2, <1>3, OwnerIsLast, AppendPreserves

LEMMA AppendEventPreserves ==
    ASSUME IInv, NEW e \in Epoch, AppendEvent(e)
    PROVE  IInv'
<1> DEFINE x == [kind |-> "public_event", lease |-> 0, cmd |-> NoCommand, mapped |-> FALSE,
                 by |-> e, of |-> NoCommand]
<1>1. /\ journal' = Append(journal, x) /\ UNCHANGED <<inbox, calls, now, begun>>
      /\ ~PrefixAtTip /\ Owner = e
  BY DEF AppendEvent, Appends, Unowned
<1>2. x \in Entry
  BY DEF Entry, EnvelopeKind, Epoch
<1>3. x.by = e /\ x.kind = "public_event" /\ x.of = NoCommand /\ ~IsPrefix(x)
  BY DEF IsPrefix
<1> HIDE DEF x
<1> QED
  BY <1>1, <1>2, <1>3, OwnerIsLast, AppendPreserves

-----------------------------------------------------------------------------
(* What the journal shows of a command, read through the invariant.        *)

LEMMA OnePrefixDecides ==
    ASSUME IInv, NEW c \in Command, NEW i \in Naming(journal, c)
    PROVE  /\ i \in DOMAIN journal /\ Naming(journal, c) = {i}
           /\ CommandApplication(journal, c).outcome = Finding(journal, i)
           /\ Finding(journal, i) = "committed" => CommandApplication(journal, c).effect = i + 1
<1>1. Naming(journal, c) = {i}
  BY DEF IInv, PrefixesAreBegun, PrefixOf
<1>2. Deciding(journal, c) = {i}
  BY <1>1 DEF Deciding
<1>3. (CHOOSE k \in Deciding(journal, c) : TRUE) = i
  BY <1>2
<1> QED
  BY <1>1, <1>3 DEF CommandApplication, Naming

LEMMA EffectIsBehindPrefix ==
    ASSUME IInv, NEW c \in Command, NEW i \in DOMAIN journal, journal[i].of = c
    PROVE  i - 1 \in Naming(journal, c) /\ i - 1 \in DOMAIN journal /\ journal[i].kind = "public_event"
BY NoCommandAssumption DEF IInv, EffectsFollow, Naming

LEMMA CommittedIsEffect ==
    ASSUME IInv, NEW c \in Command, NEW result, NamesEffect(CommandApplication(journal, c), result)
    PROVE  HasEffect(c, result)
<1>1. Naming(journal, c) # {}
  BY DEF NamesEffect, CommandApplication
<1>2. PICK i \in Naming(journal, c) : TRUE
  BY <1>1
<1>3. /\ i \in DOMAIN journal /\ Finding(journal, i) = "committed" /\ result = i + 1
  BY <1>2, OnePrefixDecides DEF NamesEffect
<1>4. i < Len(journal) /\ journal[i + 1].kind = "public_event"
  BY <1>3 DEF Finding, FollowedBy
<1>5. journal[i + 1].of = c
  BY <1>2, <1>4 DEF IInv, PrefixesAreBegun, PrefixOf
<1> QED
  BY <1>3, <1>4, <1>5, JournalDomain DEF HasEffect, IInv

LEMMA AbandonedIsFenced ==
    ASSUME IInv, NEW c \in Command, NEW i \in Naming(journal, c),
           ProvesNoEffect(CommandApplication(journal, c))
    PROVE  i < Len(journal) /\ journal[i + 1].kind = "opening_fence"
<1>1. Finding(journal, i) \in {"absent", "abandoned"}
  BY OnePrefixDecides DEF ProvesNoEffect
<1>2. FencedOff(journal, i)
  BY <1>1 DEF Finding
<1> QED
  BY <1>2 DEF FencedOff, FollowedBy

\* A fence above an epoch is the record of a later grant.
LEMMA FencedIsBehind ==
    ASSUME IInv, NEW c \in Command, NEW d \in Epoch, Fences(CommandApplication(journal, c), d)
    PROVE  \E i \in DOMAIN journal : journal[i].by > d
<1>1. CommandApplication(journal, c).superseding = SupersedingEpoch(journal)
  BY DEF CommandApplication
<1>2. SupersedingEpoch(journal) \in Leases \cup {0}
  BY DEF SupersedingEpoch, Leases, IInv, RunsInOrder
<1>3. SupersedingEpoch(journal) \in Leases
  BY <1>1, <1>2 DEF Fences, Epoch
<1>4. PICK i \in DOMAIN journal : /\ journal[i].kind = "opening_fence"
                                 /\ journal[i].lease = SupersedingEpoch(journal)
  BY <1>3 DEF Leases
<1> QED
  BY <1>1, <1>4 DEF Fences, IInv, RunsInOrder

\* The rejection's proof, taken when it is decided, holds for good.
LEMMA RejectDecidesNoMore ==
    ASSUME IInv, NEW e \in 0..MaxEpoch, NEW c \in Command, NEW t \in Nat,
           MayReject(Record(c), e, t, CommandApplication(journal, c)),
           begun' = begun \ {<<e, c>>}, UNCHANGED journal
    PROVE  NoMore(c)'
<1> DEFINE app == CommandApplication(journal, c)
<1>1. /\ ~Terminal(Record(c).state) /\ ProvesNoEffect(app)
      /\ ClaimLive(Record(c), t) => e = Record(c).claim.lease
      /\ ~ClaimLive(Record(c), t) /\ Record(c).state = "applying" => Fences(app, Record(c).claim.lease)
  BY DEF MayReject
<1> HIDE DEF app
<1>2. CASE Naming(journal, c) = {}
  <2>1. \A i \in DOMAIN journal : journal[i].of # c
    BY <1>2, EffectIsBehindPrefix
  <2>2. PrefixAtTip => journal[Len(journal)].cmd # c
    BY <1>2, JournalDomain DEF PrefixAtTip, Naming, IInv
  <2>3. ASSUME NEW d \in Epoch, <<d, c>> \in begun'
        PROVE  \E i \in DOMAIN journal : journal[i].by > d
    <3>1. UnderWay(c, d) /\ d # e
      BY <2>3 DEF IInv, BegunUnderClaim
    <3>2. Record(c).state = "applying" /\ Record(c).claim.lease = d
      BY <3>1, <1>1 DEF UnderWay, Terminal
    <3>3. Fences(app, d)
      BY <3>1, <3>2, <1>1
    <3> QED
      BY <3>3, FencedIsBehind DEF app
  <2> QED
    BY <2>1, <2>2, <2>3 DEF NoMore, PrefixAtTip
<1>3. CASE Naming(journal, c) # {}
  <2>1. PICK i \in Naming(journal, c) : TRUE
    BY <1>3
  <2>2. i < Len(journal) /\ journal[i + 1].kind = "opening_fence"
    BY <2>1, <1>1, AbandonedIsFenced DEF app
  <2>3. i \in DOMAIN journal /\ Naming(journal, c) = {i}
    BY <2>1, OnePrefixDecides
  <2>4. Len(journal) \in Nat /\ DOMAIN journal = 1..Len(journal)
    BY JournalDomain DEF IInv
  <2>5. ASSUME NEW k \in DOMAIN journal, journal[k].of = c PROVE FALSE
    <3>1. k - 1 = i /\ journal[k].kind = "public_event"
      BY <2>3, <2>5, EffectIsBehindPrefix
    <3>2. k = i + 1
      BY <3>1, <2>3, <2>4
    <3> QED
      BY <3>1, <3>2, <2>2
  <2>6. PrefixAtTip => journal[Len(journal)].cmd # c
    <3> SUFFICES ASSUME PrefixAtTip, journal[Len(journal)].cmd = c PROVE FALSE
      OBVIOUS
    <3>1. Len(journal) \in Naming(journal, c)
      BY <2>2, <2>3, <2>4 DEF PrefixAtTip, Naming
    <3> QED
      BY <3>1, <2>2, <2>3, <2>4
  <2>7. \A d \in Epoch : <<d, c>> \notin begun'
    BY <1>3 DEF IInv, BegunUnderClaim
  <2> QED
    BY <2>5, <2>6, <2>7 DEF NoMore, PrefixAtTip
<1> QED
  BY <1>2, <1>3

-----------------------------------------------------------------------------
(* The inbox's steps: one record written, or one write prepared.           *)

LEMMA RecordChangePreserves ==
    ASSUME IInv, NEW c \in Command, NEW entry \in [rev : Nat, rec : InboxRecord],
           WellFormed(entry.rec), inbox[c].rev < entry.rev,
           inbox' = [inbox EXCEPT ![c] = entry], calls' \subseteq calls, UNCHANGED <<now, journal>>,
           \A d : UnderWay(c, d) => UnderWay(c, d)',
           \/ begun' = begun
           \/ \E e \in Epoch : /\ begun' = begun \cup {<<e, c>>} /\ UnderWay(c, e)'
                               /\ Naming(journal, c) = {} /\ entry.rec.state = "applying",
           entry.rec.state = "rejected" => NoMore(c) /\ begun' = begun,
           entry.rec.state = "applied" => HasEffect(c, entry.rec.result)
    PROVE  IInv'
<1>1. /\ inbox'[c] = entry
      /\ \A d \in Command : d # c => inbox'[d] = inbox[d]
      /\ inbox' \in [Command -> [rev : Nat, rec : InboxRecord]]
  BY DEF IInv, TypeOK
<1>2. /\ Record(c)' = entry.rec
      /\ \A d \in Command : d # c => Record(d)' = Record(d) /\ Stored(d)' = Stored(d)
  BY <1>1 DEF Record, Stored
<1>3. inbox[c].rev \in Nat /\ entry.rev # 0 /\ Stored(c)'
  BY <1>1, StoredRecords DEF IInv, Stored
<1>4. \A w \in calls : w.cmd \in Command /\ w.rev \in Nat /\ w.rev <= inbox[w.cmd].rev
  BY DEF IInv, TypeOK, Write
<1>5. TypeOK'
  <2>1. begun' \subseteq Epoch \X Command
    BY DEF IInv, TypeOK
  <2>2. \A d \in Command : WellFormed(Record(d)')
    BY <1>2, StoredRecords DEF IInv
  <2>3. \A w \in calls' : w.rev <= inbox'[w.cmd].rev
    <3> SUFFICES ASSUME NEW w \in calls' PROVE w.rev <= inbox'[w.cmd].rev
      OBVIOUS
    <3>1. CASE w.cmd = c
      BY <3>1, <1>1, <1>3, <1>4
    <3>2. CASE w.cmd # c
      BY <3>2, <1>1, <1>4
    <3> QED
      BY <3>1, <3>2
  <2> QED
    BY <1>1, <2>1, <2>2, <2>3 DEF IInv, TypeOK
<1>6. Unstored'
  BY <1>1, <1>2, <1>3 DEF IInv, Unstored
<1>7. RunsInOrder'
  BY DEF IInv, RunsInOrder, Leases
<1>8. \A b \in Command : \A d : UnderWay(b, d) => UnderWay(b, d)'
  <2> SUFFICES ASSUME NEW b \in Command, NEW d, UnderWay(b, d) PROVE UnderWay(b, d)'
    OBVIOUS
  <2>1. CASE b = c
    BY <2>1
  <2>2. CASE b # c
    BY <2>2, <1>2 DEF UnderWay
  <2> QED
    BY <2>1, <2>2
<1>9. \A b : Naming(journal, b)' = Naming(journal, b)
  BY DEF Naming
<1>10. PrefixesAreBegun'
  <2>1. ASSUME NEW b \in Command, NEW i \in Naming(journal, b)'
        PROVE  PrefixOf(i, b)'
    <3>1. PrefixOf(i, b)
      BY <1>9 DEF IInv, PrefixesAreBegun
    <3>2. UnderWay(b, journal[i].by)'
      BY <3>1, <1>8 DEF PrefixOf
    <3> QED
      BY <3>1, <3>2, <1>9 DEF PrefixOf, Stacked
  <2> QED
    BY <2>1 DEF IInv, PrefixesAreBegun
<1>11. EffectsFollow'
  BY <1>9 DEF IInv, EffectsFollow
<1>12. BegunUnderClaim'
  <2> SUFFICES ASSUME NEW e \in Epoch, NEW b \in Command, <<e, b>> \in begun'
               PROVE  UnderWay(b, e)' /\ Naming(journal, b) = {}
    BY <1>9 DEF BegunUnderClaim
  <2>1. CASE <<e, b>> \in begun
    BY <2>1, <1>8 DEF IInv, BegunUnderClaim
  <2>2. CASE <<e, b>> \notin begun
    BY <2>2
  <2> QED
    BY <2>1, <2>2
<1>13. \A b \in Command : NoMore(b) /\ (b # c \/ begun' = begun) => NoMore(b)'
  BY DEF NoMore, PrefixAtTip
<1>14. \A b, k : HasEffect(b, k)' = HasEffect(b, k)
  BY DEF HasEffect
<1>15. WritesFollow'
  <2> SUFFICES ASSUME NEW w \in calls'
               PROVE  w.rev # 0 /\ WellFormed(w.rec) /\ (Current(w)' => WriteFollows(w)')
    BY DEF WritesFollow
  <2>1. w.rev # 0 /\ WellFormed(w.rec) /\ (Current(w) => WriteFollows(w)) /\ w.cmd \in Command
    BY <1>4 DEF IInv, WritesFollow
  <2>2. CASE w.cmd = c
    <3>1. ~Current(w)'
      BY <2>2, <1>1, <1>3, <1>4 DEF Current
    <3> QED
      BY <2>1, <3>1
  <2>3. CASE w.cmd # c
    <3>1. Current(w)' = Current(w)
      BY <2>1, <2>3, <1>1 DEF Current
    <3> QED
      BY <2>1, <2>3, <3>1, <1>2, <1>13, <1>14 DEF WriteFollows, RowFollows
  <2> QED
    BY <2>2, <2>3
<1>16. OutcomesStand'
  <2> SUFFICES ASSUME NEW b \in Command
               PROVE  /\ Record(b)'.state = "rejected" => NoMore(b)'
                      /\ Record(b)'.state = "applied" => HasEffect(b, Record(b)'.result)
    BY <1>14 DEF OutcomesStand
  <2>1. CASE b = c
    BY <2>1, <1>2, <1>13
  <2>2. CASE b # c
    BY <2>2, <1>2, <1>13 DEF IInv, OutcomesStand
  <2> QED
    BY <2>1, <2>2
<1> QED
  BY <1>5, <1>6, <1>7, <1>10, <1>11, <1>12, <1>15, <1>16 DEF IInv

LEMMA AdmitPreserves ==
    ASSUME IInv, NEW c \in Command, NEW deadline \in Nat, AdmitCommand(c, deadline)
    PROVE  IInv'
<1> DEFINE entry == [rev |-> 1, rec |-> PendingRecord(deadline)]
<1>1. entry \in [rev : Nat, rec : InboxRecord] /\ WellFormed(entry.rec)
  BY DEF PendingRecord, InboxRecord, InboxState, NoClaim, CommandClaim, WellFormed, Claimed
<1>2. inbox[c].rev = 0 /\ entry.rev = 1 /\ entry.rec.state = "pending"
  BY DEF AdmitCommand, Stored, PendingRecord
<1>3. inbox' = [inbox EXCEPT ![c] = entry] /\ UNCHANGED <<calls, now, journal, begun>>
  BY DEF AdmitCommand
<1>4. \A d : UnderWay(c, d) => UnderWay(c, d)'
  BY <1>2 DEF UnderWay, Stored
<1>5. inbox[c].rev < entry.rev /\ calls' \subseteq calls
  BY <1>2, <1>3
<1> HIDE DEF entry
<1> QED
  BY <1>1, <1>2, <1>3, <1>4, <1>5, RecordChangePreserves

LEMMA PreparePreserves ==
    ASSUME IInv, NEW w \in Write, w.rev = inbox[w.cmd].rev, w.rev # 0, WellFormed(w.rec),
           WriteFollows(w)', calls' = calls \cup {w}, begun' \subseteq begun,
           UNCHANGED <<inbox, now, journal>>
    PROVE  IInv'
<1>1. \A c : Record(c)' = Record(c) /\ Stored(c)' = Stored(c) /\ Naming(journal, c)' = Naming(journal, c)
  BY DEF Record, Stored, Naming
<1>2. w.cmd \in Command /\ w.rev \in Nat
  BY DEF Write
<1>3. TypeOK'
  BY <1>1, <1>2 DEF IInv, TypeOK
<1>4. Unstored' /\ RunsInOrder' /\ EffectsFollow'
  BY <1>1 DEF IInv, Unstored, RunsInOrder, Leases, EffectsFollow
<1>5. \A c, d : UnderWay(c, d)' = UnderWay(c, d)
  BY DEF UnderWay, Record, Stored
<1>6. PrefixesAreBegun'
  BY <1>1, <1>5 DEF IInv, PrefixesAreBegun, PrefixOf, Stacked
<1>7. BegunUnderClaim'
  BY <1>1, <1>5 DEF IInv, BegunUnderClaim
<1>8. \A c \in Command : NoMore(c) => NoMore(c)'
  BY NoMoreKept
<1>9. WritesFollow'
  <2> SUFFICES ASSUME NEW v \in calls'
               PROVE  v.rev # 0 /\ WellFormed(v.rec) /\ (Current(v)' => WriteFollows(v)')
    BY DEF WritesFollow
  <2>1. CASE v = w
    BY <2>1
  <2>2. CASE v \in calls
    <3>1. v.rev # 0 /\ WellFormed(v.rec) /\ (Current(v) => WriteFollows(v)) /\ v.cmd \in Command
      BY <2>2 DEF IInv, WritesFollow, TypeOK, Write
    <3>2. Current(v)' = Current(v)
      BY DEF Current
    <3> QED
      BY <3>1, <3>2, <1>1, <1>8 DEF WriteFollows, RowFollows, HasEffect
  <2> QED
    BY <2>1, <2>2
<1>10. OutcomesStand'
  BY <1>1, <1>8 DEF IInv, OutcomesStand, HasEffect
<1> QED
  BY <1>3, <1>4, <1>6, <1>7, <1>9, <1>10 DEF IInv

LEMMA ClaimPreserves ==
    ASSUME IInv, NEW e \in Epoch, NEW c \in Command, ClaimCommand(e, c)
    PROVE  IInv'
<1>0. PICK t \in Reading : \E expires \in (t + 1)..(t + MaxClaimTTL) :
          /\ MayClaim(Record(c), e, t)
          /\ Prepare(c, e, ClaimAt(Record(c), "claimed", e, expires))
  BY DEF ClaimCommand
<1>1. PICK expires \in (t + 1)..(t + MaxClaimTTL) :
          /\ MayClaim(Record(c), e, t)
          /\ Prepare(c, e, ClaimAt(Record(c), "claimed", e, expires))
  BY <1>0
<1> DEFINE write == [cmd |-> c, rev |-> inbox[c].rev,
                     rec |-> ClaimAt(Record(c), "claimed", e, expires), by |-> e]
<1>2. e \in Nat /\ t \in Nat /\ expires \in Nat
  BY LegacyBoundsAssumption DEF Epoch, Reading, IInv, TypeOK
<1>3. write.rec \in InboxRecord
  BY <1>2, StoredRecords, ClaimAtIsRecord DEF IInv, InboxState
<1>4. PICK w \in Write : w = write
  BY <1>2, <1>3, StoredRecords DEF IInv, Write
<1>5. /\ calls' = calls \cup {w} /\ WellFormed(w.rec) /\ w.rev = inbox[w.cmd].rev /\ w.rev # 0
      /\ UNCHANGED <<inbox, now, journal, begun>>
  BY <1>4, <1>1 DEF Prepare, ClaimCommand, Stored
<1>6. w.cmd = c /\ w.rec.state = "claimed" /\ w.rec.claim.lease = e /\ w.rec.deadline = Record(c).deadline
  BY <1>4, StoredRecords DEF ClaimAt, IInv, InboxRecord
<1>7. Record(c)' = Record(c) /\ Stored(c)' /\ Record(c).claim.lease \in Nat
  BY <1>5, StoredRecords DEF IInv, Record, Stored, ClaimCommand, InboxRecord, CommandClaim
<1>8. Record(c).state \in {"pending", "claimed"} /\ Record(c).claim.lease <= e
  BY <1>1, <1>2, <1>7 DEF MayClaim, Superseded
<1> HIDE DEF write
<1>9. WriteFollows(w)'
  BY <1>6, <1>7, <1>8 DEF WriteFollows, RowFollows, Terminal
<1> QED
  BY <1>4, <1>5, <1>9, PreparePreserves

LEMMA BeginPreserves ==
    ASSUME IInv, NEW e \in Epoch, NEW c \in Command, BeginApplyingCommand(e, c)
    PROVE  IInv'
<1>0. PICK t \in Reading : \E expires \in (t + 1)..(t + MaxClaimTTL) :
          /\ MayBegin(Record(c), e, t)
          /\ Prepare(c, e, ClaimAt(Record(c), "applying", e, expires))
  BY DEF BeginApplyingCommand
<1>1. PICK expires \in (t + 1)..(t + MaxClaimTTL) :
          /\ MayBegin(Record(c), e, t)
          /\ Prepare(c, e, ClaimAt(Record(c), "applying", e, expires))
  BY <1>0
<1> DEFINE write == [cmd |-> c, rev |-> inbox[c].rev,
                     rec |-> ClaimAt(Record(c), "applying", e, expires), by |-> e]
<1>2. e \in Nat /\ t \in Nat /\ expires \in Nat
  BY LegacyBoundsAssumption DEF Epoch, Reading, IInv, TypeOK
<1>3. write.rec \in InboxRecord
  BY <1>2, StoredRecords, ClaimAtIsRecord DEF IInv, InboxState
<1>4. PICK w \in Write : w = write
  BY <1>2, <1>3, StoredRecords DEF IInv, Write
<1>5. /\ calls' = calls \cup {w} /\ WellFormed(w.rec) /\ w.rev = inbox[w.cmd].rev /\ w.rev # 0
      /\ UNCHANGED <<inbox, now, journal, begun>>
  BY <1>4, <1>1 DEF Prepare, BeginApplyingCommand, Stored
<1>6. /\ w.cmd = c /\ w.by = e /\ w.rec.state = "applying" /\ w.rec.claim.lease = e
      /\ w.rec.deadline = Record(c).deadline
  BY <1>4, StoredRecords DEF ClaimAt, IInv, InboxRecord
<1>7. Record(c)' = Record(c) /\ Stored(c)'
  BY <1>5 DEF Record, Stored, BeginApplyingCommand
<1>8. Record(c).state = "claimed" /\ Record(c).claim.lease = e /\ e <= e
  BY <1>1, <1>2 DEF MayBegin
<1> HIDE DEF write
<1>9. WriteFollows(w)'
  BY <1>6, <1>7, <1>8 DEF WriteFollows, RowFollows, Terminal
<1> QED
  BY <1>4, <1>5, <1>9, PreparePreserves

LEMMA CompletePreserves ==
    ASSUME IInv, NEW e \in Epoch, NEW c \in Command, NEW result \in DOMAIN journal,
           CompleteCommand(e, c, result)
    PROVE  IInv'
<1> DEFINE write == [cmd |-> c, rev |-> inbox[c].rev, rec |-> Applied(Record(c), result), by |-> e]
<1>1. e \in Nat /\ result \in Nat
  BY JournalDomain DEF Epoch, IInv
<1>2. write.rec \in InboxRecord
  BY <1>1, StoredRecords, AppliedIsRecord DEF IInv
<1>3. PICK w \in Write : w = write
  BY <1>1, <1>2, StoredRecords DEF IInv, Write
<1>4. /\ calls' = calls \cup {w} /\ WellFormed(w.rec) /\ w.rev = inbox[w.cmd].rev /\ w.rev # 0
      /\ UNCHANGED <<inbox, now, journal, begun>>
  BY <1>3 DEF Prepare, CompleteCommand, Stored
<1>5. HasEffect(c, result)
  BY CommittedIsEffect DEF CompleteCommand, HasEffect
<1>6. /\ w.cmd = c /\ w.rec.state = "applied" /\ w.rec.claim = Record(c).claim
      /\ w.rec.result = result /\ w.rec.deadline = Record(c).deadline
  BY <1>3, StoredRecords DEF Applied, IInv, InboxRecord
<1>7. /\ Record(c)' = Record(c) /\ Stored(c)' /\ HasEffect(c, result)'
      /\ Record(c).state = "applying" /\ Record(c).claim.lease \in Nat
  BY <1>4, <1>5, StoredRecords
     DEF Record, Stored, CompleteCommand, HasEffect, IInv, InboxRecord, CommandClaim
<1> HIDE DEF write
<1>8. WriteFollows(w)'
  BY <1>6, <1>7 DEF WriteFollows, RowFollows, Terminal
<1> QED
  BY <1>3, <1>4, <1>8, PreparePreserves

LEMMA RejectPreserves ==
    ASSUME IInv, NEW e \in 0..MaxEpoch, NEW c \in Command, RejectCommand(e, c)
    PROVE  IInv'
<1>1. PICK t \in Reading : RejectAt(e, c, t)
  BY DEF RejectCommand
<1> DEFINE write == [cmd |-> c, rev |-> inbox[c].rev, rec |-> Rejected(Record(c)), by |-> e]
<1>2. e \in Nat /\ t \in Nat
  BY LegacyBoundsAssumption DEF Reading, IInv, TypeOK
<1>3. PICK w \in Write : w = write
  BY <1>2, StoredRecords, RejectedIsRecord DEF IInv, Write
<1>4. /\ calls' = calls \cup {w} /\ WellFormed(w.rec) /\ w.rev = inbox[w.cmd].rev /\ w.rev # 0
      /\ UNCHANGED <<inbox, now, journal>> /\ begun' = begun \ {<<e, c>>}
      /\ MayReject(Record(c), e, t, CommandApplication(journal, c))
  BY <1>3, <1>1 DEF Prepare, RejectAt, Stored
<1>5. NoMore(c)'
  BY <1>2, <1>4, RejectDecidesNoMore
<1>6. /\ w.cmd = c /\ w.rec.state = "rejected" /\ w.rec.claim = Record(c).claim
      /\ w.rec.deadline = Record(c).deadline
  BY <1>3, StoredRecords DEF Rejected, IInv, InboxRecord
<1>7. /\ Record(c)' = Record(c) /\ Stored(c)' /\ ~Terminal(Record(c).state)
      /\ Record(c).claim.lease \in Nat
  BY <1>1, <1>4, StoredRecords DEF Record, Stored, RejectAt, MayReject, IInv, InboxRecord, CommandClaim
<1> HIDE DEF write
<1>8. WriteFollows(w)'
  BY <1>5, <1>6, <1>7 DEF WriteFollows, RowFollows, Terminal
<1> QED
  BY <1>3, <1>4, <1>8, PreparePreserves

LEMMA CommitPreserves ==
    ASSUME IInv, NEW w \in calls, Commit(w)
    PROVE  IInv'
<1> DEFINE c == w.cmd
           entry == [rev |-> w.rev + 1, rec |-> w.rec]
<1>1. w \in Write /\ c \in Command /\ w.rev \in Nat /\ w.rec \in InboxRecord
  BY DEF IInv, TypeOK, Write
<1>2. WriteFollows(w) /\ WellFormed(w.rec) /\ w.rev = inbox[c].rev
  BY DEF IInv, WritesFollow, Commit, Current
<1>3. entry \in [rev : Nat, rec : InboxRecord] /\ inbox[c].rev < entry.rev /\ entry.rec = w.rec
  BY <1>1, <1>2
<1>4. inbox' = [inbox EXCEPT ![c] = entry] /\ calls' \subseteq calls /\ UNCHANGED <<now, journal>>
  BY DEF Commit
<1>5. Record(c)' = w.rec /\ Stored(c)'
  BY <1>1, <1>2, <1>4 DEF Record, Stored, IInv, TypeOK
<1>6. \A d : UnderWay(c, d) => UnderWay(c, d)'
  BY <1>2, <1>5 DEF WriteFollows, RowFollows, UnderWay, Terminal
<1>7. \/ begun' = begun
      \/ \E e \in Epoch : /\ begun' = begun \cup {<<e, c>>} /\ UnderWay(c, e)'
                          /\ Naming(journal, c) = {} /\ w.rec.state = "applying"
  <2>1. CASE w.rec.state # "applying"
    BY <2>1 DEF Commit
  <2>2. CASE w.rec.state = "applying"
    <3>1. begun' = begun \cup {<<w.by, c>>} /\ w.by \in Epoch
      BY <2>2, <1>2 DEF Commit, WriteFollows, RowFollows
    <3>2. UnderWay(c, w.by)'
      BY <2>2, <1>2, <1>5 DEF WriteFollows, RowFollows, UnderWay
    <3>3. \A d : ~UnderWay(c, d)
      BY <2>2, <1>2 DEF WriteFollows, RowFollows, UnderWay
    <3>4. Naming(journal, c) = {}
      BY <3>3, <1>1 DEF IInv, PrefixesAreBegun, PrefixOf
    <3> QED
      BY <2>2, <3>1, <3>2, <3>4
  <2> QED
    BY <2>1, <2>2
<1>8. w.rec.state = "rejected" => NoMore(c) /\ begun' = begun
  BY <1>2 DEF WriteFollows, RowFollows, Commit
<1>9. w.rec.state = "applied" => HasEffect(c, w.rec.result)
  BY <1>2 DEF WriteFollows, RowFollows
<1> HIDE DEF c, entry
<1> QED
  BY <1>1, <1>2, <1>3, <1>4, <1>6, <1>7, <1>8, <1>9, RecordChangePreserves

LEMMA QuietPreserves ==
    ASSUME IInv, UNCHANGED <<inbox, journal, begun>>, calls' \subseteq calls, now' \in 0..MaxTime
    PROVE  IInv'
<1>1. \A c : Record(c)' = Record(c) /\ Stored(c)' = Stored(c) /\ Naming(journal, c)' = Naming(journal, c)
  BY DEF Record, Stored, Naming
<1>2. \A c, d : UnderWay(c, d)' = UnderWay(c, d)
  BY DEF UnderWay, Record, Stored
<1>3. \A c : NoMore(c)' = NoMore(c)
  BY DEF NoMore, PrefixAtTip
<1>4. TypeOK'
  BY <1>1 DEF IInv, TypeOK
<1>5. Unstored' /\ EffectsFollow'
  BY <1>1 DEF IInv, Unstored, EffectsFollow
<1>6. RunsInOrder'
  BY DEF IInv, RunsInOrder, Leases
<1>7. PrefixesAreBegun' /\ BegunUnderClaim'
  BY <1>1, <1>2 DEF IInv, PrefixesAreBegun, PrefixOf, Stacked, BegunUnderClaim
<1>8. WritesFollow' /\ OutcomesStand'
  BY <1>1, <1>3 DEF IInv, WritesFollow, WriteFollows, RowFollows, Current, OutcomesStand, HasEffect
<1> QED
  BY <1>4, <1>5, <1>6, <1>7, <1>8 DEF IInv

LEMMA InitInvariant ==
    ASSUME Init
    PROVE  IInv
<1>1. TypeOK
  BY LegacyBoundsAssumption
     DEF Init, TypeOK, Absent, PendingRecord, InboxRecord, InboxState, NoClaim, CommandClaim,
         Record, WellFormed, Claimed
<1>2. DOMAIN journal = {} /\ Len(journal) = 0 /\ Leases = {}
  BY DEF Init, Leases
<1>3. Unstored /\ OutcomesStand
  BY DEF Init, Unstored, OutcomesStand, Record, Stored, Absent, PendingRecord
<1>4. RunsInOrder
  BY <1>2 DEF RunsInOrder
<1>5. PrefixesAreBegun /\ EffectsFollow /\ BegunUnderClaim
  BY <1>2 DEF PrefixesAreBegun, EffectsFollow, BegunUnderClaim, Naming, Init
<1>6. WritesFollow
  BY DEF Init, WritesFollow
<1> QED
  BY <1>1, <1>3, <1>4, <1>5, <1>6 DEF IInv

LEMMA NextPreserves ==
    ASSUME IInv, ~LateOpeners, [Next]_vars
    PROVE  IInv'
<1>1. CASE Tick
  <2>1. now' \in 0..MaxTime
    BY <1>1, LegacyBoundsAssumption DEF Tick, IInv, TypeOK
  <2> QED
    BY <1>1, <2>1, QuietPreserves DEF Tick
<1>2. ASSUME NEW e \in Epoch, OpenJournal(e) PROVE IInv'
  BY <1>2, OpenJournalPreserves
<1>3. Applier \subseteq Epoch
  BY LegacyBoundsAssumption DEF Epoch
<1>4. ASSUME NEW e \in Applier, AppendEvent(e) PROVE IInv'
  BY <1>3, <1>4, AppendEventPreserves
<1>5. ASSUME NEW e \in Applier, NEW c \in Command,
             AppendPrefix(e, c) \/ AppendEffect(e, c) \/ ClaimCommand(e, c) \/ BeginApplyingCommand(e, c)
      PROVE  IInv'
  BY <1>3, <1>5, AppendPrefixPreserves, AppendEffectPreserves, ClaimPreserves, BeginPreserves
<1>6. ASSUME NEW c \in Command, NEW d \in Deadline, AdmitCommand(c, d) PROVE IInv'
  BY <1>6, AdmitPreserves, LegacyBoundsAssumption
<1>7. ASSUME NEW e \in Epoch, NEW c \in Command, NEW result \in DOMAIN journal,
             CompleteCommand(e, c, result)
      PROVE  IInv'
  BY <1>7, CompletePreserves
<1>8. ASSUME NEW e \in 0..MaxEpoch, NEW c \in Command, RejectCommand(e, c) PROVE IInv'
  BY <1>8, RejectPreserves
<1>9. ASSUME NEW w \in calls, Commit(w) PROVE IInv'
  BY <1>9, CommitPreserves
<1>10. ASSUME NEW w \in calls, CommitFailed(w) PROVE IInv'
  BY <1>10, QuietPreserves DEF CommitFailed, IInv, TypeOK
<1>11. CASE UNCHANGED vars
  BY <1>11, QuietPreserves DEF vars, IInv, TypeOK
<1> QED
  BY <1>1, <1>2, <1>4, <1>5, <1>6, <1>7, <1>8, <1>9, <1>10, <1>11 DEF Next

\* The inductive invariant holds throughout.
LEMMA Invariance ==
    ASSUME ~LateOpeners
    PROVE  Spec => []IInv
<1>1. Init => IInv
  BY InitInvariant
<1>2. IInv /\ [Next]_vars => IInv'
  BY NextPreserves
<1> QED
  BY <1>1, <1>2, PTL DEF Spec

-----------------------------------------------------------------------------
(* The records alone.  What a write knows of the record it replaces does   *)
(* not rest on the journal, so this half needs no order of the grants.     *)

LEMMA RecordsHalf == IInv => RInv
BY DEF IInv, WritesFollow, WriteFollows, RInv, RowWritesFollow

LEMMA RowsQuiet ==
    ASSUME RInv, UNCHANGED inbox, calls' \subseteq calls, now' \in 0..MaxTime,
           journal' \in Seq(Entry), begun' \subseteq begun
    PROVE  RInv'
<1>1. \A c : Record(c)' = Record(c) /\ Stored(c)' = Stored(c)
  BY DEF Record, Stored
<1>2. TypeOK' /\ Unstored'
  BY <1>1 DEF RInv, TypeOK, Unstored
<1>3. RowWritesFollow'
  <2> SUFFICES ASSUME NEW w \in calls
               PROVE  w.rev # 0 /\ WellFormed(w.rec) /\ (Current(w)' => RowFollows(w)')
    BY DEF RowWritesFollow
  <2>1. Current(w)' = Current(w) /\ RowFollows(w)' = RowFollows(w)
    BY <1>1 DEF Current, RowFollows
  <2> QED
    BY <2>1 DEF RInv, RowWritesFollow
<1> QED
  BY <1>2, <1>3 DEF RInv

LEMMA RowsAppended ==
    ASSUME RInv, NEW record, NEW e \in Epoch, NEW of \in Command \cup {NoCommand},
           record.kind \in EnvelopeKind, record.lease \in Nat,
           record.cmd \in Command \cup {NoCommand}, record.mapped \in BOOLEAN,
           Appends(record, e, of), begun' \subseteq begun
    PROVE  RInv'
<1> DEFINE x == [kind |-> record.kind, lease |-> record.lease, cmd |-> record.cmd,
                 mapped |-> record.mapped, by |-> e, of |-> of]
<1>1. journal' = Append(journal, x) /\ UNCHANGED <<inbox, calls, now>>
  BY DEF Appends
<1>2. x \in Entry
  BY DEF Entry, Epoch
<1>3. TypeOK
  BY DEF RInv
<1> HIDE DEF x
<1>4. journal' \in Seq(Entry)
  BY <1>1, <1>2, <1>3, AppendedEntry
<1>5. now' \in 0..MaxTime
  BY <1>1, <1>3 DEF TypeOK
<1> QED
  BY <1>1, <1>4, <1>5, RowsQuiet

LEMMA RowPrepared ==
    ASSUME RInv, NEW c \in Command, NEW e \in Nat, NEW next \in InboxRecord, Stored(c),
           Prepare(c, e, next), begun' \subseteq begun,
           NEW w, w = [cmd |-> c, rev |-> inbox[c].rev, rec |-> next, by |-> e], RowFollows(w)
    PROVE  RInv'
<1>1. /\ w \in Write /\ w.rev = inbox[w.cmd].rev /\ w.rev # 0 /\ w.rec = next
      /\ w.cmd \in Command
  BY StoredRecords DEF RInv, Write, Stored
<1>2. /\ calls' = calls \cup {w} /\ WellFormed(w.rec)
      /\ UNCHANGED <<inbox, now, journal>>
  BY <1>1 DEF Prepare
<1>3. \A b : Record(b)' = Record(b) /\ Stored(b)' = Stored(b)
  BY <1>2 DEF Record, Stored
<1>4. TypeOK' /\ Unstored'
  <2>1. \A v \in calls' : v.rev <= inbox'[v.cmd].rev
    <3>1. w.rev \in Nat
      BY <1>1 DEF Write
    <3>2. \A v \in calls : v.rev <= inbox[v.cmd].rev
      BY DEF RInv, TypeOK
    <3> QED
      BY <1>1, <1>2, <3>1, <3>2
  <2>2. calls' \subseteq Write
    BY <1>1, <1>2 DEF RInv, TypeOK
  <2> QED
    BY <1>2, <1>3, <2>1, <2>2 DEF RInv, TypeOK, Unstored
<1>5. RowWritesFollow'
  <2> SUFFICES ASSUME NEW v \in calls'
               PROVE  v.rev # 0 /\ WellFormed(v.rec) /\ (Current(v)' => RowFollows(v)')
    BY DEF RowWritesFollow
  <2>1. Current(v)' = Current(v) /\ RowFollows(v)' = RowFollows(v)
    BY <1>2, <1>3 DEF Current, RowFollows
  <2>2. CASE v = w
    BY <1>1, <1>2, <2>1, <2>2
  <2>3. CASE v \in calls
    BY <2>1, <2>3 DEF RInv, RowWritesFollow
  <2> QED
    BY <1>2, <2>2, <2>3
<1> QED
  BY <1>4, <1>5 DEF RInv

LEMMA RowWritten ==
    ASSUME RInv, NEW c \in Command, NEW entry \in [rev : Nat, rec : InboxRecord],
           WellFormed(entry.rec), inbox[c].rev < entry.rev,
           inbox' = [inbox EXCEPT ![c] = entry], calls' \subseteq calls, UNCHANGED <<now, journal>>,
           begun' \subseteq Epoch \X Command
    PROVE  RInv'
<1>1. /\ inbox'[c] = entry
      /\ \A d \in Command : d # c => inbox'[d] = inbox[d]
      /\ inbox' \in [Command -> [rev : Nat, rec : InboxRecord]]
  BY DEF RInv, TypeOK
<1>2. /\ Record(c)' = entry.rec
      /\ \A d \in Command : d # c => Record(d)' = Record(d) /\ Stored(d)' = Stored(d)
  BY <1>1 DEF Record, Stored
<1>3. inbox[c].rev \in Nat /\ entry.rev \in Nat /\ entry.rev # 0 /\ Stored(c)'
  BY <1>1, StoredRecords DEF RInv, Stored
<1>4. \A w \in calls : w.cmd \in Command /\ w.rev \in Nat /\ w.rev <= inbox[w.cmd].rev
  BY DEF RInv, TypeOK, Write
<1>5. \A w \in calls : IF w.cmd = c THEN w.rev < inbox'[c].rev ELSE inbox'[w.cmd] = inbox[w.cmd]
  BY <1>1, <1>3, <1>4
<1>6. TypeOK'
  <2>1. \A d \in Command : WellFormed(Record(d)')
    BY <1>2, StoredRecords DEF RInv
  <2>2. \A w \in calls' : w.rev <= inbox'[w.cmd].rev
    BY <1>1, <1>3, <1>4, <1>5
  <2> QED
    BY <1>1, <2>1, <2>2 DEF RInv, TypeOK
<1>7. Unstored'
  BY <1>1, <1>2, <1>3 DEF RInv, Unstored
<1>8. RowWritesFollow'
  <2> SUFFICES ASSUME NEW w \in calls
               PROVE  w.rev # 0 /\ WellFormed(w.rec) /\ (Current(w)' => RowFollows(w)')
    BY DEF RowWritesFollow
  <2>1. w.rev # 0 /\ WellFormed(w.rec) /\ (Current(w) => RowFollows(w))
    BY DEF RInv, RowWritesFollow
  <2>2. CASE w.cmd = c
    <3>1. ~Current(w)'
      BY <2>2, <1>1, <1>3, <1>4, <1>5 DEF Current
    <3> QED
      BY <2>1, <3>1
  <2>3. CASE w.cmd # c
    <3>1. Current(w)' = Current(w)
      BY <2>3, <1>5 DEF Current
    <3>2. RowFollows(w)' = RowFollows(w)
      BY <2>3, <1>2, <1>4 DEF RowFollows
    <3> QED
      BY <2>1, <3>1, <3>2
  <2> QED
    BY <2>2, <2>3
<1> QED
  BY <1>6, <1>7, <1>8 DEF RInv

LEMMA RowClaimed ==
    ASSUME RInv, NEW e \in Epoch, NEW c \in Command,
           ClaimCommand(e, c) \/ BeginApplyingCommand(e, c)
    PROVE  RInv'
<1>1. TypeOK /\ Record(c) \in InboxRecord /\ e \in Nat /\ begun' \subseteq begun
  BY StoredRecords DEF RInv, Epoch, ClaimCommand, BeginApplyingCommand
<1>2. Record(c).claim.lease \in Nat
  BY <1>1 DEF InboxRecord, CommandClaim
<1>3. \A t \in Reading : \A expires \in (t + 1)..(t + MaxClaimTTL) : expires \in Nat
  <2>1. \A t \in Reading : t \in Nat
    BY <1>1, LegacyBoundsAssumption DEF TypeOK, Reading
  <2> QED
    BY <2>1
<1>4. CASE ClaimCommand(e, c)
  <2>0. PICK t \in Reading : \E expires \in (t + 1)..(t + MaxClaimTTL) :
            /\ MayClaim(Record(c), e, t)
            /\ Prepare(c, e, ClaimAt(Record(c), "claimed", e, expires))
    BY <1>4 DEF ClaimCommand
  <2>1. PICK expires \in (t + 1)..(t + MaxClaimTTL) :
            /\ MayClaim(Record(c), e, t)
            /\ Prepare(c, e, ClaimAt(Record(c), "claimed", e, expires))
    BY <2>0
  <2> DEFINE next == ClaimAt(Record(c), "claimed", e, expires)
  <2>2. /\ next \in InboxRecord /\ next.state = "claimed" /\ next.claim.lease = e
        /\ next.deadline = Record(c).deadline
    <3>1. next \in InboxRecord
      BY <1>1, <1>3, ClaimAtIsRecord DEF InboxState
    <3>2. next.state = "claimed" /\ next.claim.lease = e /\ next.deadline = Record(c).deadline
      BY <1>1 DEF ClaimAt, InboxRecord
    <3> QED
      BY <3>1, <3>2
  <2>3. Record(c).state \in {"pending", "claimed"} /\ Record(c).claim.lease <= e
    BY <1>1, <1>2, <2>1 DEF MayClaim, Superseded
  <2>4. Stored(c) /\ Prepare(c, e, next)
    BY <1>4, <2>1 DEF ClaimCommand
  <2> HIDE DEF next
  <2> DEFINE w == [cmd |-> c, rev |-> inbox[c].rev, rec |-> next, by |-> e]
  <2>5. RowFollows(w)
    BY <2>2, <2>3, <2>4 DEF RowFollows, Terminal
  <2> QED
    BY <1>1, <2>2, <2>4, <2>5, RowPrepared
<1>5. CASE BeginApplyingCommand(e, c)
  <2>0. PICK t \in Reading : \E expires \in (t + 1)..(t + MaxClaimTTL) :
            /\ MayBegin(Record(c), e, t)
            /\ Prepare(c, e, ClaimAt(Record(c), "applying", e, expires))
    BY <1>5 DEF BeginApplyingCommand
  <2>1. PICK expires \in (t + 1)..(t + MaxClaimTTL) :
            /\ MayBegin(Record(c), e, t)
            /\ Prepare(c, e, ClaimAt(Record(c), "applying", e, expires))
    BY <2>0
  <2> DEFINE next == ClaimAt(Record(c), "applying", e, expires)
  <2>2. /\ next \in InboxRecord /\ next.state = "applying" /\ next.claim.lease = e
        /\ next.deadline = Record(c).deadline
    <3>1. next \in InboxRecord
      BY <1>1, <1>3, ClaimAtIsRecord DEF InboxState
    <3>2. next.state = "applying" /\ next.claim.lease = e /\ next.deadline = Record(c).deadline
      BY <1>1 DEF ClaimAt, InboxRecord
    <3> QED
      BY <3>1, <3>2
  <2>3. Record(c).state = "claimed" /\ Record(c).claim.lease = e /\ e <= e
    BY <1>1, <2>1 DEF MayBegin
  <2>4. Stored(c) /\ Prepare(c, e, next)
    BY <1>5, <2>1 DEF BeginApplyingCommand
  <2> HIDE DEF next
  <2> DEFINE w == [cmd |-> c, rev |-> inbox[c].rev, rec |-> next, by |-> e]
  <2>5. RowFollows(w)
    BY <2>2, <2>3, <2>4 DEF RowFollows, Terminal
  <2> QED
    BY <1>1, <2>2, <2>4, <2>5, RowPrepared
<1> QED
  BY <1>4, <1>5

LEMMA RowSettled ==
    ASSUME RInv, NEW e \in 0..MaxEpoch, NEW c \in Command,
           \/ \E result \in DOMAIN journal : CompleteCommand(e, c, result)
           \/ RejectCommand(e, c)
    PROVE  RInv'
<1>1. TypeOK /\ Record(c) \in InboxRecord /\ e \in Nat /\ begun' \subseteq begun
  BY StoredRecords, LegacyBoundsAssumption DEF RInv, CompleteCommand, RejectCommand, RejectAt
<1>2. Record(c).claim.lease \in Nat
  BY <1>1 DEF InboxRecord, CommandClaim
<1>3. ASSUME NEW result \in DOMAIN journal, CompleteCommand(e, c, result) PROVE RInv'
  <2> DEFINE next == Applied(Record(c), result)
  <2>1. next \in InboxRecord
    BY <1>1, JournalDomain, AppliedIsRecord
  <2>2. next.state = "applied" /\ next.claim = Record(c).claim /\ next.deadline = Record(c).deadline
    BY <1>1 DEF Applied, InboxRecord
  <2>3. Stored(c) /\ Record(c).state = "applying" /\ Prepare(c, e, next)
    BY <1>3 DEF CompleteCommand
  <2> HIDE DEF next
  <2> DEFINE w == [cmd |-> c, rev |-> inbox[c].rev, rec |-> next, by |-> e]
  <2>4. RowFollows(w)
    BY <1>2, <2>2, <2>3 DEF RowFollows, Terminal
  <2> QED
    BY <1>1, <2>1, <2>3, <2>4, RowPrepared
<1>4. CASE RejectCommand(e, c)
  <2>1. PICK t \in Reading : RejectAt(e, c, t)
    BY <1>4 DEF RejectCommand
  <2> DEFINE next == Rejected(Record(c))
  <2>2. next \in InboxRecord
    BY <1>1, RejectedIsRecord
  <2>3. next.state = "rejected" /\ next.claim = Record(c).claim /\ next.deadline = Record(c).deadline
    BY <1>1 DEF Rejected, InboxRecord
  <2>4. Stored(c) /\ ~Terminal(Record(c).state) /\ Prepare(c, e, next)
    BY <2>1 DEF RejectAt, MayReject
  <2> HIDE DEF next
  <2> DEFINE w == [cmd |-> c, rev |-> inbox[c].rev, rec |-> next, by |-> e]
  <2>5. RowFollows(w)
    BY <1>2, <2>3, <2>4 DEF RowFollows
  <2> QED
    BY <1>1, <2>2, <2>4, <2>5, RowPrepared
<1> QED
  BY <1>3, <1>4

LEMMA RowAdmitted ==
    ASSUME RInv, NEW c \in Command, NEW deadline \in Nat, AdmitCommand(c, deadline)
    PROVE  RInv'
<1> DEFINE entry == [rev |-> 1, rec |-> PendingRecord(deadline)]
<1>1. entry \in [rev : Nat, rec : InboxRecord] /\ WellFormed(entry.rec)
  BY DEF PendingRecord, InboxRecord, InboxState, NoClaim, CommandClaim, WellFormed, Claimed
<1>2. inbox' = [inbox EXCEPT ![c] = entry] /\ UNCHANGED <<calls, now, journal, begun>>
  BY DEF AdmitCommand
<1>3. inbox[c].rev < entry.rev /\ calls' \subseteq calls
  BY <1>2 DEF AdmitCommand, Stored
<1>4. begun' \subseteq Epoch \X Command
  BY <1>2 DEF RInv, TypeOK
<1> HIDE DEF entry
<1> QED
  BY <1>1, <1>2, <1>3, <1>4, RowWritten

LEMMA RowCommitted ==
    ASSUME RInv, NEW w \in calls, Commit(w)
    PROVE  RInv'
<1> DEFINE c == w.cmd
           entry == [rev |-> w.rev + 1, rec |-> w.rec]
<1>1. c \in Command /\ w.rev \in Nat /\ w.rec \in InboxRecord
  BY DEF RInv, TypeOK, Write
<1>2. RowFollows(w) /\ WellFormed(w.rec) /\ w.rev = inbox[c].rev
  BY DEF RInv, RowWritesFollow, Commit, Current
<1>3. /\ entry \in [rev : Nat, rec : InboxRecord] /\ inbox[c].rev < entry.rev
      /\ WellFormed(entry.rec)
  BY <1>1, <1>2
<1>4. inbox' = [inbox EXCEPT ![c] = entry] /\ calls' \subseteq calls /\ UNCHANGED <<now, journal>>
  BY DEF Commit
<1>5. begun' \subseteq Epoch \X Command
  <2>1. begun \subseteq Epoch \X Command
    BY DEF RInv, TypeOK
  <2>2. w.rec.state = "applying" => <<w.by, w.cmd>> \in Epoch \X Command
    BY <1>1, <1>2 DEF RowFollows
  <2> QED
    BY <2>1, <2>2 DEF Commit
<1> HIDE DEF c, entry
<1> QED
  BY <1>1, <1>3, <1>4, <1>5, RowWritten

LEMMA RowsStep ==
    ASSUME RInv, [Next]_vars
    PROVE  RInv'
<1>0. now \in 0..MaxTime /\ journal \in Seq(Entry)
  BY DEF RInv, TypeOK
<1>1. CASE Tick
  <2>1. now' \in 0..MaxTime
    BY <1>0, <1>1, LegacyBoundsAssumption DEF Tick
  <2> QED
    BY <1>0, <1>1, <2>1, RowsQuiet DEF Tick
<1>2. Applier \subseteq Epoch
  BY LegacyBoundsAssumption DEF Epoch
<1>3. ASSUME NEW e \in Epoch, OpenJournal(e) PROVE RInv'
  <2> DEFINE x == OpeningFence(e)
  <2>1. /\ x.kind \in EnvelopeKind /\ x.lease \in Nat /\ x.cmd \in Command \cup {NoCommand}
        /\ x.mapped \in BOOLEAN
    BY DEF OpeningFence, EnvelopeKind, Epoch
  <2>2. Appends(x, e, NoCommand) /\ begun' \subseteq begun
    BY <1>3 DEF OpenJournal
  <2> HIDE DEF x
  <2> QED
    BY <2>1, <2>2, RowsAppended
<1>4. ASSUME NEW e \in Applier, AppendEvent(e) PROVE RInv'
  <2> DEFINE x == Unowned("public_event")
  <2>1. /\ x.kind \in EnvelopeKind /\ x.lease \in Nat /\ x.cmd \in Command \cup {NoCommand}
        /\ x.mapped \in BOOLEAN
    BY DEF Unowned, EnvelopeKind
  <2>2. Appends(x, e, NoCommand) /\ begun' \subseteq begun /\ e \in Epoch
    BY <1>2, <1>4 DEF AppendEvent
  <2> HIDE DEF x
  <2> QED
    BY <2>1, <2>2, RowsAppended
<1>5. ASSUME NEW e \in Applier, NEW c \in Command, AppendPrefix(e, c) PROVE RInv'
  <2> DEFINE x == ApplicationPrefix(e, c, TRUE)
  <2>1. /\ x.kind \in EnvelopeKind /\ x.lease \in Nat /\ x.cmd \in Command \cup {NoCommand}
        /\ x.mapped \in BOOLEAN
    BY <1>2 DEF ApplicationPrefix, EnvelopeKind, Epoch
  <2>2. Appends(x, e, NoCommand) /\ begun' \subseteq begun /\ e \in Epoch
    BY <1>2, <1>5 DEF AppendPrefix
  <2> HIDE DEF x
  <2> QED
    BY <2>1, <2>2, RowsAppended
<1>6. ASSUME NEW e \in Applier, NEW c \in Command, AppendEffect(e, c) PROVE RInv'
  <2> DEFINE x == Unowned("public_event")
  <2>1. /\ x.kind \in EnvelopeKind /\ x.lease \in Nat /\ x.cmd \in Command \cup {NoCommand}
        /\ x.mapped \in BOOLEAN
    BY DEF Unowned, EnvelopeKind
  <2>2. Appends(x, e, c) /\ begun' \subseteq begun /\ e \in Epoch
    BY <1>2, <1>6 DEF AppendEffect
  <2> HIDE DEF x
  <2> QED
    BY <2>1, <2>2, RowsAppended
<1>7. ASSUME NEW e \in Applier, NEW c \in Command,
             ClaimCommand(e, c) \/ BeginApplyingCommand(e, c)
      PROVE  RInv'
  BY <1>2, <1>7, RowClaimed
<1>8. ASSUME NEW c \in Command, NEW d \in Deadline, AdmitCommand(c, d) PROVE RInv'
  BY <1>8, RowAdmitted, LegacyBoundsAssumption
<1>9. ASSUME NEW e \in 0..MaxEpoch, NEW c \in Command,
             \/ \E result \in DOMAIN journal : CompleteCommand(e, c, result)
             \/ RejectCommand(e, c)
      PROVE  RInv'
  BY <1>9, RowSettled
<1>10. Epoch \subseteq 0..MaxEpoch
  BY LegacyBoundsAssumption DEF Epoch
<1>11. ASSUME NEW w \in calls, Commit(w) PROVE RInv'
  BY <1>11, RowCommitted
<1>12. ASSUME NEW w \in calls, CommitFailed(w) PROVE RInv'
  BY <1>0, <1>12, RowsQuiet DEF CommitFailed
<1>13. CASE UNCHANGED vars
  BY <1>0, <1>13, RowsQuiet DEF vars
<1> QED
  BY <1>1, <1>3, <1>4, <1>5, <1>6, <1>7, <1>8, <1>9, <1>10, <1>11, <1>12, <1>13 DEF Next

\* A write that is current follows from the record it would replace, in
\* whatever order grants open.
LEMMA RowInvariance == Spec => []RInv
<1>1. Init => RInv
  BY InitInvariant, RecordsHalf
<1>2. RInv /\ [Next]_vars => RInv'
  BY RowsStep
<1> QED
  BY <1>1, <1>2, PTL DEF Spec

-----------------------------------------------------------------------------
(* The theorems.                                                           *)

\* Records are well formed, and no write outruns the revision it was read at.
THEOREM TypeCorrect == Spec => []TypeOK
<1>1. RInv => TypeOK
  BY DEF RInv
<1> QED
  BY <1>1, RowInvariance, PTL

\* A rejected command has no effect and never will, whatever was in flight
\* when the journal was read for it.  (RejectCommand's recovery evidence.)
THEOREM RejectedHasNoEffect ==
    ASSUME ~LateOpeners
    PROVE  Spec => []RejectedLeavesNoEffect
<1>1. IInv => RejectedLeavesNoEffect
  BY DEF IInv, OutcomesStand, NoMore, RejectedLeavesNoEffect
<1> QED
  BY <1>1, Invariance, PTL

\* An applied command names its own effect, behind its own grant's prefix,
\* also when another grant recorded it.  (CompleteCommand.)
THEOREM AppliedByOwnEffect ==
    ASSUME ~LateOpeners
    PROVE  Spec => []AppliedByItsOwnEffect
<1>1. IInv => AppliedByItsOwnEffect
  <2> SUFFICES ASSUME IInv, NEW c \in Command, Record(c).state = "applied"
               PROVE  LET result == Record(c).result
                      IN  /\ result \in DOMAIN journal /\ journal[result].of = c
                          /\ IsPrefix(journal[result - 1]) /\ journal[result - 1].cmd = c
                          /\ journal[result - 1].lease = Record(c).claim.lease
    BY DEF AppliedByItsOwnEffect
  <2> DEFINE result == Record(c).result
  <2>1. result \in DOMAIN journal /\ journal[result].of = c
    BY DEF IInv, OutcomesStand, HasEffect
  <2>2. result - 1 \in Naming(journal, c)
    BY <2>1, EffectIsBehindPrefix
  <2>3. PrefixOf(result - 1, c) /\ IsPrefix(journal[result - 1]) /\ journal[result - 1].cmd = c
    BY <2>2 DEF IInv, PrefixesAreBegun, Naming
  <2>4. journal[result - 1].lease = Record(c).claim.lease
    BY <2>3 DEF PrefixOf, UnderWay
  <2> QED
    BY <2>1, <2>3, <2>4
<1> QED
  BY <1>1, Invariance, PTL

\* What a Host appends or prepares, and a write that fails, leave the records
\* and the time alone.
LEMMA HostSteps ==
    ASSUME [Next]_vars
    PROVE  \/ UNCHANGED <<inbox, now>>
           \/ Tick
           \/ \E c \in Command, d \in Deadline : AdmitCommand(c, d)
           \/ \E w \in calls : Commit(w)
<1>1. ASSUME NEW e, OpenJournal(e) \/ AppendEvent(e) PROVE UNCHANGED <<inbox, now>>
  BY <1>1 DEF OpenJournal, AppendEvent, Appends
<1>2. ASSUME NEW e, NEW c, AppendPrefix(e, c) \/ AppendEffect(e, c) PROVE UNCHANGED <<inbox, now>>
  BY <1>2 DEF AppendPrefix, AppendEffect, Appends
<1>3. ASSUME NEW e, NEW c, ClaimCommand(e, c) \/ BeginApplyingCommand(e, c) PROVE UNCHANGED <<inbox, now>>
  BY <1>3 DEF ClaimCommand, BeginApplyingCommand, Prepare
<1>4. ASSUME NEW e, NEW c, NEW result, CompleteCommand(e, c, result) PROVE UNCHANGED <<inbox, now>>
  BY <1>4 DEF CompleteCommand, Prepare
<1>5. ASSUME NEW e, NEW c, RejectCommand(e, c) PROVE UNCHANGED <<inbox, now>>
  BY <1>5 DEF RejectCommand, RejectAt, Prepare
<1>6. ASSUME NEW w, CommitFailed(w) PROVE UNCHANGED <<inbox, now>>
  BY <1>6 DEF CommitFailed
<1>7. UNCHANGED vars => UNCHANGED <<inbox, now>>
  BY DEF vars
<1> QED
  BY <1>1, <1>2, <1>3, <1>4, <1>5, <1>6, <1>7 DEF Next

\* Records change by an admission or a write that lands, and by nothing else.
LEMMA InboxSteps ==
    ASSUME [Next]_vars
    PROVE  \/ UNCHANGED inbox
           \/ \E c \in Command, d \in Deadline : AdmitCommand(c, d)
           \/ \E w \in calls : Commit(w)
<1>1. Tick => UNCHANGED inbox
  BY DEF Tick
<1> QED
  BY <1>1, HostSteps

LEMMA AdmittedRecord ==
    ASSUME RInv, NEW c \in Command, NEW d, AdmitCommand(c, d)
    PROVE  /\ inbox[c] = Absent /\ inbox'[c] = [rev |-> 1, rec |-> PendingRecord(d)]
           /\ \A b \in Command : b # c => inbox'[b] = inbox[b]
           /\ Record(c).state = "pending" /\ Record(c).claim.lease = 0 /\ Record(c)'.claim.lease = 0
<1>1. /\ inbox[c] = Absent /\ inbox'[c] = [rev |-> 1, rec |-> PendingRecord(d)]
      /\ \A b \in Command : b # c => inbox'[b] = inbox[b]
  BY DEF RInv, TypeOK, Unstored, AdmitCommand
<1> QED
  BY <1>1 DEF Record, Absent, PendingRecord, NoClaim

LEMMA CommittedRecord ==
    ASSUME RInv, NEW w \in calls, Commit(w)
    PROVE  /\ w.cmd \in Command /\ RowFollows(w)
           /\ inbox'[w.cmd] = [rev |-> w.rev + 1, rec |-> w.rec]
           /\ \A b \in Command : b # w.cmd => inbox'[b] = inbox[b]
           /\ Record(w.cmd)' = w.rec
<1>1. w.cmd \in Command /\ RowFollows(w)
  BY DEF RInv, TypeOK, Write, RowWritesFollow, Commit
<1>2. /\ inbox'[w.cmd] = [rev |-> w.rev + 1, rec |-> w.rec]
      /\ \A b \in Command : b # w.cmd => inbox'[b] = inbox[b]
  BY <1>1 DEF RInv, TypeOK, Commit
<1> QED
  BY <1>1, <1>2 DEF Record

\* Nothing but its settlement happens to an applying command, and nothing at
\* all to a settled one.  (The states ClaimCommand and the others refuse.)
THEOREM ApplyingStands == Spec => ApplyingIsAFortress
<1> DEFINE Stands == \A c \in Command :
          /\ Terminal(Record(c).state) => inbox'[c] = inbox[c]
          /\ Record(c).state = "applying" /\ inbox'[c] # inbox[c] =>
                Terminal(Record(c)'.state) /\ Record(c)'.claim = Record(c).claim
<1>1. ASSUME RInv, [Next]_vars PROVE Stands
  <2> SUFFICES ASSUME NEW c \in Command
               PROVE  /\ Terminal(Record(c).state) => inbox'[c] = inbox[c]
                      /\ Record(c).state = "applying" /\ inbox'[c] # inbox[c] =>
                            Terminal(Record(c)'.state) /\ Record(c)'.claim = Record(c).claim
    OBVIOUS
  <2>1. CASE UNCHANGED inbox
    BY <2>1
  <2>2. ASSUME NEW b \in Command, NEW d \in Deadline, AdmitCommand(b, d)
        PROVE  inbox'[c] = inbox[c] \/ Record(c).state = "pending"
    BY <1>1, <2>2, AdmittedRecord
  <2>3. ASSUME NEW w \in calls, Commit(w), inbox'[c] # inbox[c]
        PROVE  /\ ~Terminal(Record(c).state)
               /\ Record(c).state = "applying" =>
                    Terminal(Record(c)'.state) /\ Record(c)'.claim = Record(c).claim
    <3>1. /\ RowFollows(w) /\ Record(w.cmd)' = w.rec
          /\ \A b \in Command : b # w.cmd => inbox'[b] = inbox[b]
      BY <1>1, <2>3, CommittedRecord
    <3>2. c = w.cmd
      BY <2>3, <3>1
    <3> QED
      BY <3>1, <3>2 DEF RowFollows, Terminal
  <2> QED
    BY <1>1, <2>1, <2>2, <2>3, InboxSteps DEF Terminal
<1> HIDE DEF Stands
<1>2. RInv /\ [Next]_vars => [Stands]_vars
  BY <1>1
<1>3. Spec => [][Stands]_vars
  BY <1>2, RowInvariance, PTL DEF Spec
<1> QED
  BY <1>3 DEF Stands, ApplyingIsAFortress

\* The edges by which a stored record may become another.
Edge(r, next) ==
    /\ next.deadline = r.deadline
    /\ \/ next.state = "claimed" /\ r.state \in {"pending", "claimed"}
          /\ r.claim.lease <= next.claim.lease
       \/ next.state = "applying" /\ r.state = "claimed" /\ next.claim.lease = r.claim.lease
       \/ next.state = "applied" /\ r.state = "applying" /\ next.claim = r.claim
       \/ next.state = "rejected" /\ ~Terminal(r.state) /\ next.claim = r.claim
OnlyEdges ==
    \A c \in Command :
        \/ inbox'[c] = inbox[c]
        \/ ~Stored(c) /\ \E d \in Deadline : inbox'[c] = [rev |-> 1, rec |-> PendingRecord(d)]
        \/ /\ Stored(c) /\ Edge(Record(c), Record(c)')
           /\ WellFormed(Record(c)') /\ inbox'[c].rev = inbox[c].rev + 1

\* A stored command moves along the edges of the module's header and no other,
\* keeps its deadline, is begun by the grant of its claim and settled with its
\* claim kept; whatever was prepared before, and in whatever order
\* grants open.  (validateInboxState, and what each operation refuses.)
THEOREM RecordsFollowEdges == Spec => [][OnlyEdges]_vars
<1>1. ASSUME RInv, [Next]_vars PROVE OnlyEdges
  <2> SUFFICES ASSUME NEW c \in Command, inbox'[c] # inbox[c]
               PROVE  \/ ~Stored(c) /\ \E d \in Deadline : inbox'[c] = [rev |-> 1, rec |-> PendingRecord(d)]
                      \/ /\ Stored(c) /\ Edge(Record(c), Record(c)')
                         /\ WellFormed(Record(c)') /\ inbox'[c].rev = inbox[c].rev + 1
    BY DEF OnlyEdges
  <2>1. ASSUME NEW b \in Command, NEW d \in Deadline, AdmitCommand(b, d)
        PROVE  ~Stored(c) /\ inbox'[c] = [rev |-> 1, rec |-> PendingRecord(d)]
    <3>1. b = c /\ inbox'[b] = [rev |-> 1, rec |-> PendingRecord(d)]
      BY <1>1, <2>1, AdmittedRecord
    <3> QED
      BY <2>1, <3>1 DEF AdmitCommand
  <2>2. ASSUME NEW w \in calls, Commit(w)
        PROVE  /\ Stored(c) /\ Edge(Record(c), Record(c)')
               /\ WellFormed(Record(c)') /\ inbox'[c].rev = inbox[c].rev + 1
    <3>1. /\ w.cmd = c /\ RowFollows(w) /\ Record(c)' = w.rec
          /\ inbox'[c] = [rev |-> w.rev + 1, rec |-> w.rec]
      BY <1>1, <2>2, CommittedRecord
    <3>2. WellFormed(w.rec) /\ w.rev = inbox[c].rev
      BY <2>2, <1>1, <3>1 DEF RInv, RowWritesFollow, Commit, Current
    <3>3. Edge(Record(c), w.rec) /\ Stored(c)
      BY <3>1 DEF RowFollows, Edge
    <3> QED
      BY <3>1, <3>2, <3>3
  <2> QED
    BY <1>1, <2>1, <2>2, InboxSteps
<1>2. RInv /\ [Next]_vars => [OnlyEdges]_vars
  BY <1>1
<1> QED
  BY <1>2, RowInvariance, PTL DEF Spec

\* A grant once superseded stays so.  (commandEpochFence.)
THEOREM MarkNeverFalls == Spec => ClaimMarkNeverFalls
<1> DEFINE Rises == \A c \in Command : Record(c).claim.lease <= Record(c)'.claim.lease
<1>1. ASSUME RInv, [Next]_vars PROVE Rises
  <2> SUFFICES ASSUME NEW c \in Command
               PROVE  Record(c).claim.lease <= Record(c)'.claim.lease
    OBVIOUS
  <2>1. Record(c).claim.lease \in Nat
    BY <1>1, StoredRecords DEF RInv, InboxRecord, CommandClaim
  <2>2. CASE inbox'[c] = inbox[c]
    BY <2>1, <2>2 DEF Record
  <2>3. ASSUME NEW d \in Deadline, AdmitCommand(c, d)
        PROVE  Record(c).claim.lease <= Record(c)'.claim.lease
    <3>1. Record(c).claim.lease = 0 /\ Record(c)'.claim.lease = 0
      BY <1>1, <2>3, AdmittedRecord
    <3> QED
      BY <3>1
  <2>4. ASSUME NEW w \in calls, Commit(w), c = w.cmd
        PROVE  Record(c).claim.lease <= Record(c)'.claim.lease
    <3>1. RowFollows(w) /\ Record(w.cmd)' = w.rec
      BY <1>1, <2>4, CommittedRecord
    <3> QED
      BY <2>4, <3>1 DEF RowFollows
  <2> QED
    BY <1>1, <2>2, <2>3, <2>4, InboxSteps, AdmittedRecord, CommittedRecord
<1> HIDE DEF Rises
<1>2. RInv /\ [Next]_vars => [Rises]_vars
  BY <1>1
<1>3. Spec => [][Rises]_vars
  BY <1>2, RowInvariance, PTL DEF Spec
<1> QED
  BY <1>3 DEF Rises, ClaimMarkNeverFalls

-----------------------------------------------------------------------------
(* A live claim.  A write that was decided while the claim was live by the  *)
(* fastest clock is still decided when it lands: clocks only go forward.    *)

HonoursClaim(w) ==
    LET r == Record(w.cmd)
    IN  r.state = "claimed" /\ now + Skew < r.claim.expires =>
            \/ w.rec.state = "claimed" /\ w.rec.claim.lease > r.claim.lease
            \/ w.rec.state \in {"applying", "rejected"} /\ w.by = r.claim.lease
WritesHonourClaims == \A w \in calls : Current(w) => HonoursClaim(w)

LEMMA LiveByEveryClock ==
    ASSUME RInv, NEW c \in Command, Record(c).state = "claimed", NEW t \in Reading,
           now + Skew < Record(c).claim.expires
    PROVE  ClaimLive(Record(c), t)
<1>1. Record(c).claim.expires \in Nat /\ Claimed(Record(c))
  BY StoredRecords DEF RInv, InboxRecord, CommandClaim, WellFormed
<1>2. now \in Nat /\ Skew \in Nat
  BY LegacyBoundsAssumption DEF RInv, TypeOK
<1>3. t \in Nat /\ t <= now + Skew
  BY <1>2 DEF Reading
<1> QED
  BY <1>1, <1>2, <1>3 DEF ClaimLive

LEMMA DecidedUnderClaim ==
    ASSUME RInv, [Next]_vars, NEW w \in calls', w \notin calls
    PROVE  HonoursClaim(w)'
<1> SUFFICES ASSUME Record(w.cmd)'.state = "claimed", now' + Skew < Record(w.cmd)'.claim.expires
             PROVE  \/ w.rec.state = "claimed" /\ w.rec.claim.lease > Record(w.cmd)'.claim.lease
                    \/ /\ w.rec.state \in {"applying", "rejected"}
                       /\ w.by = Record(w.cmd)'.claim.lease
  BY DEF HonoursClaim
<1> DEFINE Prepared(c, e, next) ==
              /\ UNCHANGED <<inbox, now>>
              /\ w = [cmd |-> c, rev |-> inbox[c].rev, rec |-> next, by |-> e]
<1>1. ASSUME NEW e, NEW c \in Command, NEW next, Prepared(c, e, next)
      PROVE  /\ w.cmd = c /\ w.rec = next /\ w.by = e /\ Record(c)' = Record(c)
             /\ Record(c).state = "claimed" /\ now + Skew < Record(c).claim.expires
  BY <1>1 DEF Record
<1>2. ASSUME NEW e \in Epoch, NEW c \in Command, NEW t \in Reading, NEW expires,
             MayClaim(Record(c), e, t), Prepared(c, e, ClaimAt(Record(c), "claimed", e, expires))
      PROVE  w.rec.state = "claimed" /\ w.rec.claim.lease > Record(w.cmd)'.claim.lease
  <2>1. ClaimLive(Record(c), t)
    BY <1>1, <1>2, LiveByEveryClock
  <2>2. Record(c).claim.lease \in Nat /\ e \in Nat
    BY StoredRecords DEF RInv, InboxRecord, CommandClaim, Epoch
  <2>3. e > Record(c).claim.lease
    BY <1>2, <2>1, <2>2 DEF MayClaim, Superseded
  <2>4. w.rec.state = "claimed" /\ w.rec.claim.lease = e
    <3>1. Record(c) \in InboxRecord
      BY StoredRecords DEF RInv
    <3>2. w.rec = ClaimAt(Record(c), "claimed", e, expires)
      BY <1>1, <1>2
    <3> QED
      BY <3>1, <3>2 DEF ClaimAt, InboxRecord
  <2> QED
    BY <1>1, <1>2, <2>3, <2>4
<1>3. ASSUME NEW e \in Epoch, NEW c \in Command, NEW t \in Reading, NEW expires,
             MayBegin(Record(c), e, t), Prepared(c, e, ClaimAt(Record(c), "applying", e, expires))
      PROVE  w.rec.state = "applying" /\ w.by = Record(w.cmd)'.claim.lease
  <2>1. w.rec.state = "applying"
    <3>1. Record(c) \in InboxRecord
      BY StoredRecords DEF RInv
    <3>2. w.rec = ClaimAt(Record(c), "applying", e, expires)
      BY <1>1, <1>3
    <3> QED
      BY <3>1, <3>2 DEF ClaimAt, InboxRecord
  <2> QED
    BY <1>1, <1>3, <2>1 DEF MayBegin
<1>4. ASSUME NEW e, NEW c \in Command, NEW t \in Reading,
             MayReject(Record(c), e, t, CommandApplication(journal, c)),
             Prepared(c, e, Rejected(Record(c)))
      PROVE  w.rec.state = "rejected" /\ w.by = Record(w.cmd)'.claim.lease
  <2>1. ClaimLive(Record(c), t)
    BY <1>1, <1>4, LiveByEveryClock
  <2>2. w.rec.state = "rejected"
    <3>1. Record(c) \in InboxRecord
      BY StoredRecords DEF RInv
    <3>2. w.rec = Rejected(Record(c))
      BY <1>1, <1>4
    <3> QED
      BY <3>1, <3>2 DEF Rejected, InboxRecord
  <2> QED
    BY <1>1, <1>4, <2>1, <2>2 DEF MayReject
<1>5. ASSUME NEW e, NEW c \in Command, NEW next, Prepared(c, e, next), Record(c).state = "applying"
      PROVE  FALSE
  BY <1>1, <1>5
<1>6. \A c, e, next : Prepare(c, e, next) => Prepared(c, e, next)
  BY DEF Prepare
<1> HIDE DEF Prepared
<1>7. \/ \E e \in Epoch, c \in Command : ClaimCommand(e, c) \/ BeginApplyingCommand(e, c)
      \/ \E e \in Epoch, c \in Command, result \in DOMAIN journal : CompleteCommand(e, c, result)
      \/ \E e \in 0..MaxEpoch, c \in Command : RejectCommand(e, c)
  BY LegacyBoundsAssumption
     DEF Next, vars, Epoch, Tick, OpenJournal, AppendEvent, AppendPrefix, AppendEffect, Appends, AdmitCommand,
         Commit, CommitFailed
<1>8. ASSUME NEW e \in Epoch, NEW c \in Command, ClaimCommand(e, c)
      PROVE  w.rec.state = "claimed" /\ w.rec.claim.lease > Record(w.cmd)'.claim.lease
  BY <1>2, <1>6, <1>8 DEF ClaimCommand
<1>9. ASSUME NEW e \in Epoch, NEW c \in Command, BeginApplyingCommand(e, c)
      PROVE  w.rec.state = "applying" /\ w.by = Record(w.cmd)'.claim.lease
  BY <1>3, <1>6, <1>9 DEF BeginApplyingCommand
<1>10. ASSUME NEW e \in Epoch, NEW c \in Command, NEW result \in DOMAIN journal,
              CompleteCommand(e, c, result)
       PROVE  FALSE
  BY <1>5, <1>6, <1>10 DEF CompleteCommand
<1>11. ASSUME NEW e \in 0..MaxEpoch, NEW c \in Command, RejectCommand(e, c)
       PROVE  w.rec.state = "rejected" /\ w.by = Record(w.cmd)'.claim.lease
  BY <1>4, <1>6, <1>11 DEF RejectCommand, RejectAt
<1> QED
  BY <1>7, <1>8, <1>9, <1>10, <1>11

\* A write whose revision still stands after a step stands on the same record.
LEMMA StillCurrent ==
    ASSUME RInv, [Next]_vars, NEW w \in calls, Current(w)'
    PROVE  Current(w) /\ Record(w.cmd)' = Record(w.cmd) /\ now <= now'
<1>1. w.cmd \in Command /\ w.rev \in Nat /\ w.rev # 0 /\ w.rev <= inbox[w.cmd].rev
  BY DEF RInv, TypeOK, Write, RowWritesFollow
<1>2. now <= now'
  <2>1. now \in Nat
    BY LegacyBoundsAssumption DEF RInv, TypeOK
  <2>2. now' = now \/ now' = now + 1
    <3>1. Tick => now' = now + 1
      BY DEF Tick
    <3>2. \A c, d : AdmitCommand(c, d) => now' = now
      BY DEF AdmitCommand
    <3>3. \A x : Commit(x) => now' = now
      BY DEF Commit
    <3> QED
      BY <3>1, <3>2, <3>3, HostSteps
  <2> QED
    BY <2>1, <2>2
<1>3. CASE inbox'[w.cmd] = inbox[w.cmd]
  BY <1>2, <1>3 DEF Current, Record
<1>4. ASSUME NEW d, AdmitCommand(w.cmd, d) PROVE FALSE
  BY <1>1, <1>4, StoredRecords DEF AdmitCommand, Stored, RInv
<1>5. ASSUME NEW v \in calls, Commit(v), v.cmd = w.cmd PROVE FALSE
  <2>1. inbox'[w.cmd].rev = inbox[w.cmd].rev + 1
    <3>1. inbox'[v.cmd] = [rev |-> v.rev + 1, rec |-> v.rec]
      BY <1>5, CommittedRecord
    <3>2. v.rev = inbox[v.cmd].rev
      BY <1>5 DEF Commit, Current
    <3> QED
      BY <1>5, <3>1, <3>2
  <2>2. w.rev = inbox[w.cmd].rev + 1 /\ inbox[w.cmd].rev \in Nat
    BY <1>1, <2>1, StoredRecords DEF Current, RInv
  <2> QED
    BY <1>1, <2>2
<1>6. ASSUME NEW c \in Command, NEW d \in Deadline, AdmitCommand(c, d), c # w.cmd
      PROVE  inbox'[w.cmd] = inbox[w.cmd]
  BY <1>1, <1>6, AdmittedRecord
<1>7. ASSUME NEW v \in calls, Commit(v), v.cmd # w.cmd
      PROVE  inbox'[w.cmd] = inbox[w.cmd]
  BY <1>1, <1>7, CommittedRecord
<1>8. CASE UNCHANGED inbox
  BY <1>3, <1>8
<1> QED
  BY <1>3, <1>4, <1>5, <1>6, <1>7, <1>8, InboxSteps

LEMMA ClaimsHonoured == Spec => [](RInv /\ WritesHonourClaims)
<1>1. Init => WritesHonourClaims
  BY DEF Init, WritesHonourClaims
<1>2. ASSUME RInv, WritesHonourClaims, [Next]_vars PROVE WritesHonourClaims'
  <2> SUFFICES ASSUME NEW w \in calls', Current(w)' PROVE HonoursClaim(w)'
    BY DEF WritesHonourClaims
  <2>1. CASE w \notin calls
    BY <1>2, <2>1, DecidedUnderClaim
  <2>2. CASE w \in calls
    <3>1. HonoursClaim(w) /\ Record(w.cmd)' = Record(w.cmd) /\ now <= now'
      BY <1>2, <2>2, StillCurrent DEF WritesHonourClaims
    <3>2. /\ now \in Nat /\ now' \in Nat /\ Skew \in Nat
          /\ Record(w.cmd).claim.expires \in Nat
      <4>1. TypeOK /\ TypeOK'
        BY <1>2, RowsStep DEF RInv
      <4>2. now \in Nat /\ now' \in Nat /\ Skew \in Nat
        BY <4>1, LegacyBoundsAssumption DEF TypeOK
      <4>3. w.cmd \in Command
        BY <2>2, <4>1 DEF TypeOK, Write
      <4> QED
        BY <4>1, <4>2, <4>3, StoredRecords DEF InboxRecord, CommandClaim
    <3>3. now' + Skew < Record(w.cmd).claim.expires => now + Skew < Record(w.cmd).claim.expires
      BY <3>1, <3>2
    <3> QED
      BY <3>1, <3>3 DEF HonoursClaim
  <2> QED
    BY <2>1, <2>2
<1> QED
  BY <1>1, <1>2, RowInvariance, PTL DEF Spec

\* While a claim is live by every clock only a later grant claims its command,
\* and only its own begins or rejects it.  (The claim_held rule.)
THEOREM LiveClaimHolds == Spec => LiveClaimExcludes
<1> DEFINE Excludes == \A c \in Command :
          LET held == Record(c).claim
          IN  /\ Record(c).state = "claimed" /\ now + Skew < held.expires
              /\ inbox'[c] # inbox[c]
              => \/ Record(c)'.state = "claimed" /\ Record(c)'.claim.lease > held.lease
                 \/ /\ Record(c)'.state \in {"applying", "rejected"}
                    /\ \E w \in calls : /\ w.cmd = c /\ w.rec = Record(c)'
                                        /\ w.by = held.lease
<1>1. ASSUME RInv, WritesHonourClaims, [Next]_vars PROVE Excludes
  <2> SUFFICES ASSUME NEW c \in Command, Record(c).state = "claimed",
                      now + Skew < Record(c).claim.expires, inbox'[c] # inbox[c]
               PROVE  \/ Record(c)'.state = "claimed" /\ Record(c)'.claim.lease > Record(c).claim.lease
                      \/ /\ Record(c)'.state \in {"applying", "rejected"}
                         /\ \E w \in calls : /\ w.cmd = c /\ w.rec = Record(c)'
                                             /\ w.by = Record(c).claim.lease
    OBVIOUS
  <2>1. \A d \in Deadline : ~AdmitCommand(c, d)
    BY <1>1, AdmittedRecord
  <2>2. PICK w \in calls : Commit(w) /\ w.cmd = c
    BY <1>1, <2>1, InboxSteps, AdmittedRecord, CommittedRecord
  <2>3. HonoursClaim(w) /\ Record(c)' = w.rec
    BY <1>1, <2>2, CommittedRecord DEF WritesHonourClaims, Commit
  <2> QED
    BY <2>2, <2>3 DEF HonoursClaim
<1> HIDE DEF Excludes
<1>2. RInv /\ WritesHonourClaims /\ [Next]_vars => [Excludes]_vars
  BY <1>1
<1>3. Spec => [][Excludes]_vars
  BY <1>2, ClaimsHonoured, PTL DEF Spec
<1> QED
  BY <1>3 DEF Excludes, LiveClaimExcludes

-----------------------------------------------------------------------------
(* The refinement.                                                         *)

LEMMA OneEffect ==
    ASSUME IInv, NEW c \in Command, NEW i \in EffectsOf(c)
    PROVE  EffectsOf(c) = {i} /\ Cardinality(EffectsOf(c)) = 1
<1>1. ASSUME NEW k \in EffectsOf(c) PROVE k = i
  <2>1. k - 1 \in Naming(journal, c) /\ i - 1 \in Naming(journal, c)
    BY EffectIsBehindPrefix DEF EffectsOf
  <2>2. k - 1 = i - 1
    BY <2>1, OnePrefixDecides
  <2>3. k \in Nat /\ i \in Nat
    BY JournalDomain DEF EffectsOf, IInv
  <2> QED
    BY <2>2, <2>3
<1>2. EffectsOf(c) = {i}
  BY <1>1
<1> QED
  BY <1>2, FS_Singleton

LEMMA NoEffects ==
    ASSUME NEW c, \A i \in DOMAIN journal : journal[i].of # c
    PROVE  Cardinality(EffectsOf(c)) = 0
<1>1. EffectsOf(c) = {}
  BY DEF EffectsOf
<1> QED
  BY <1>1, FS_EmptySet

\* A step that leaves every command's fate and effects alone maps to none.
LEMMA StepMapsToNone ==
    ASSUME \A c \in Command : Fate(c)' = Fate(c) /\ EffectsOf(c)' = EffectsOf(c)
    PROVE  UNCHANGED Effects!effectVars
BY DEF Effects!effectVars

LEMMA SameRecordsSameFates ==
    ASSUME UNCHANGED inbox
    PROVE  \A c : Fate(c)' = Fate(c)
BY DEF Fate, Stored, Record

LEMMA AdmissionMaps ==
    ASSUME IInv, NEW c \in Command, NEW d \in Deadline, AdmitCommand(c, d)
    PROVE  Effects!Accept(c)
<1>1. /\ inbox[c] = Absent /\ inbox'[c] = [rev |-> 1, rec |-> PendingRecord(d)]
      /\ \A b \in Command : b # c => inbox'[b] = inbox[b]
  BY AdmittedRecord, RecordsHalf
<1>2. Fate(c) = "absent" /\ Fate(c)' = "open"
  BY <1>1 DEF Fate, Stored, Record, Absent, PendingRecord, Terminal
<1>3. \A b \in Command : b # c => Fate(b)' = Fate(b)
  BY <1>1 DEF Fate, Stored, Record
<1>4. \A b : EffectsOf(b)' = EffectsOf(b)
  BY DEF EffectsOf, AdmitCommand
<1> QED
  BY <1>2, <1>3, <1>4 DEF Effects!Accept

LEMMA CommitMaps ==
    ASSUME IInv, NEW w \in calls, Commit(w)
    PROVE  [Effects!EffectsNext]_(Effects!effectVars)
<1> DEFINE c == w.cmd
<1>1. /\ c \in Command /\ WriteFollows(w) /\ inbox'[c] = [rev |-> w.rev + 1, rec |-> w.rec]
      /\ \A b \in Command : b # c => inbox'[b] = inbox[b]
  <2>1. WriteFollows(w)
    BY DEF IInv, WritesFollow, Commit
  <2> QED
    BY <2>1, CommittedRecord, RecordsHalf
<1>2. w.rev \in Nat
  BY DEF IInv, TypeOK, Write
<1>3. Fate(c) = "open" /\ Fate(c)' = IF Terminal(w.rec.state) THEN w.rec.state ELSE "open"
  BY <1>1, <1>2 DEF Fate, Stored, Record, WriteFollows, RowFollows
<1>4. \A b \in Command : b # c => Fate(b)' = Fate(b)
  BY <1>1 DEF Fate, Stored, Record
<1>5. \A b : EffectsOf(b)' = EffectsOf(b)
  BY DEF EffectsOf, Commit
<1>6. CASE ~Terminal(w.rec.state)
  BY <1>3, <1>4, <1>5, <1>6, StepMapsToNone
<1>7. CASE w.rec.state = "rejected"
  <2>1. Cardinality(EffectsOf(c)) = 0
    BY <1>1, <1>7, NoEffects DEF WriteFollows, NoMore
  <2>2. Effects!Close(c, "rejected")
    BY <1>1, <1>3, <1>4, <1>5, <1>7, <2>1 DEF Effects!Close, Terminal
  <2> QED
    BY <1>1, <2>2 DEF Effects!EffectsNext
<1>8. CASE w.rec.state = "applied"
  <2>1. Cardinality(EffectsOf(c)) = 1
    BY <1>1, <1>8, OneEffect DEF WriteFollows, HasEffect, EffectsOf
  <2>2. Effects!Close(c, "applied")
    BY <1>1, <1>3, <1>4, <1>5, <1>8, <2>1 DEF Effects!Close, Terminal
  <2> QED
    BY <1>1, <2>2 DEF Effects!EffectsNext
<1> QED
  BY <1>6, <1>7, <1>8 DEF Terminal

LEMMA EffectMaps ==
    ASSUME IInv, NEW e \in Epoch, NEW c \in Command, AppendEffect(e, c)
    PROVE  Effects!TakeEffect(c)
<1> DEFINE n == Len(journal) + 1
           x == [kind |-> "public_event", lease |-> 0, cmd |-> NoCommand, mapped |-> FALSE,
                 by |-> e, of |-> c]
<1>1. PrefixAtTip /\ journal[Len(journal)].cmd = c /\ journal' = Append(journal, x) /\ UNCHANGED inbox
  BY DEF AppendEffect, Appends, Unowned
<1>2. x \in Entry /\ x.of = c
  BY DEF Entry, EnvelopeKind, Epoch
<1> HIDE DEF x
<1>3. /\ DOMAIN journal' = DOMAIN journal \cup {n} /\ journal'[n] = x
      /\ \A i \in DOMAIN journal : journal'[i] = journal[i]
  BY <1>1, <1>2, AppendedEntry DEF IInv
<1>4. Len(journal) \in Nat /\ DOMAIN journal = 1..Len(journal)
  BY JournalDomain DEF IInv
<1>5. Len(journal) \in Naming(journal, c)
  BY <1>1, <1>4 DEF PrefixAtTip, Naming
<1>6. \A i \in DOMAIN journal : journal[i].of # c
  <2> SUFFICES ASSUME NEW i \in DOMAIN journal, journal[i].of = c PROVE FALSE
    OBVIOUS
  <2>1. i - 1 = Len(journal)
    BY <1>5, EffectIsBehindPrefix, OnePrefixDecides
  <2> QED
    BY <2>1, <1>4
<1>7. Fate(c) = "open" /\ Fate(c)' = "open"
  <2>1. UnderWay(c, journal[Len(journal)].by)
    BY <1>5 DEF IInv, PrefixesAreBegun, PrefixOf
  <2>2. Record(c).state # "rejected"
    BY <1>1 DEF IInv, OutcomesStand, NoMore
  <2>3. Record(c).state # "applied"
    BY <1>6 DEF IInv, OutcomesStand, HasEffect
  <2> QED
    BY <1>1, <2>1, <2>2, <2>3 DEF UnderWay, Fate, Terminal, Stored, Record
<1>8. \A b : Fate(b)' = Fate(b)
  BY <1>1, SameRecordsSameFates
<1>9. \A b \in Command : b # c => EffectsOf(b)' = EffectsOf(b)
  BY <1>2, <1>3, <1>4 DEF EffectsOf
<1>10. EffectsOf(c)' = {n}
  BY <1>2, <1>3, <1>6 DEF EffectsOf
<1>11. Cardinality(EffectsOf(c)) = 0 /\ Cardinality(EffectsOf(c)') = 1
  BY <1>6, <1>10, NoEffects, FS_Singleton
<1> QED
  BY <1>7, <1>8, <1>9, <1>11 DEF Effects!TakeEffect

\* Every other record that a grant appends is the effect of no command.
LEMMA OtherAppendMaps ==
    ASSUME IInv, UNCHANGED inbox, NEW x \in Entry, x.of = NoCommand, journal' = Append(journal, x)
    PROVE  UNCHANGED Effects!effectVars
<1>1. \A c \in Command : EffectsOf(c)' = EffectsOf(c)
  BY AppendedEntry, NoCommandAssumption DEF EffectsOf, IInv
<1> QED
  BY <1>1, SameRecordsSameFates, StepMapsToNone

LEMMA NextMaps ==
    ASSUME IInv, [Next]_vars
    PROVE  [Effects!EffectsNext]_(Effects!effectVars)
<1>1. CASE UNCHANGED <<inbox, journal>>
  <2>1. \A c : EffectsOf(c)' = EffectsOf(c)
    BY <1>1 DEF EffectsOf
  <2> QED
    BY <1>1, <2>1, SameRecordsSameFates, StepMapsToNone
<1>2. ASSUME NEW e \in Epoch, OpenJournal(e) PROVE UNCHANGED Effects!effectVars
  <2> DEFINE x == [kind |-> "opening_fence", lease |-> e, cmd |-> NoCommand, mapped |-> FALSE,
                   by |-> e, of |-> NoCommand]
  <2>1. x \in Entry /\ x.of = NoCommand /\ journal' = Append(journal, x) /\ UNCHANGED inbox
    BY <1>2 DEF OpenJournal, Appends, OpeningFence, Entry, EnvelopeKind, Epoch
  <2> HIDE DEF x
  <2> QED
    BY <2>1, OtherAppendMaps
<1>3. ASSUME NEW e \in Epoch, NEW c \in Command, AppendPrefix(e, c) PROVE UNCHANGED Effects!effectVars
  <2> DEFINE x == [kind |-> "application_prefix", lease |-> e, cmd |-> c, mapped |-> TRUE,
                   by |-> e, of |-> NoCommand]
  <2>1. x \in Entry /\ x.of = NoCommand /\ journal' = Append(journal, x) /\ UNCHANGED inbox
    BY <1>3 DEF AppendPrefix, Appends, ApplicationPrefix, Entry, EnvelopeKind, Epoch
  <2> HIDE DEF x
  <2> QED
    BY <2>1, OtherAppendMaps
<1>4. ASSUME NEW e \in Epoch, AppendEvent(e) PROVE UNCHANGED Effects!effectVars
  <2> DEFINE x == [kind |-> "public_event", lease |-> 0, cmd |-> NoCommand, mapped |-> FALSE,
                   by |-> e, of |-> NoCommand]
  <2>1. x \in Entry /\ x.of = NoCommand /\ journal' = Append(journal, x) /\ UNCHANGED inbox
    BY <1>4 DEF AppendEvent, Appends, Unowned, Entry, EnvelopeKind, Epoch
  <2> HIDE DEF x
  <2> QED
    BY <2>1, OtherAppendMaps
<1>5. ASSUME NEW e \in Epoch, NEW c \in Command, AppendEffect(e, c) PROVE Effects!EffectsNext
  BY <1>5, EffectMaps DEF Effects!EffectsNext
<1>6. ASSUME NEW c \in Command, NEW d \in Deadline, AdmitCommand(c, d) PROVE Effects!EffectsNext
  BY <1>6, AdmissionMaps DEF Effects!EffectsNext
<1>7. ASSUME NEW w \in calls, Commit(w) PROVE [Effects!EffectsNext]_(Effects!effectVars)
  BY <1>7, CommitMaps
<1>8. \/ UNCHANGED <<inbox, journal>>
      \/ \E e \in Epoch : OpenJournal(e)
      \/ \E e \in Applier : AppendEvent(e)
      \/ \E e \in Applier, c \in Command : AppendPrefix(e, c) \/ AppendEffect(e, c)
      \/ \E c \in Command, d \in Deadline : AdmitCommand(c, d)
      \/ \E w \in calls : Commit(w)
  BY DEF Next, vars, Tick, ClaimCommand, BeginApplyingCommand, CompleteCommand, RejectCommand,
         RejectAt, Prepare, CommitFailed
<1>9. Applier \subseteq Epoch
  BY LegacyBoundsAssumption DEF Epoch
<1> QED
  BY <1>1, <1>2, <1>3, <1>4, <1>5, <1>6, <1>7, <1>8, <1>9

\* What the inbox and its journal promise together: a command takes effect at
\* most once, only while it is open, and is closed by what it did.
THEOREM ImplementsEffects ==
    ASSUME ~LateOpeners
    PROVE  Spec => ImplementsCommandEffects
<1>1. Init => Effects!EffectsInit
  <2> SUFFICES ASSUME Init PROVE Effects!EffectsInit
    OBVIOUS
  <2>1. \A c \in Command : Fate(c) = "absent" /\ Cardinality(EffectsOf(c)) = 0
    BY NoEffects DEF Init, Fate, Stored, Absent
  <2> QED
    BY <2>1 DEF Effects!EffectsInit
<1>2. IInv /\ [Next]_vars => [Effects!EffectsNext]_(Effects!effectVars)
  BY NextMaps
<1> QED
  BY <1>1, <1>2, Invariance, PTL DEF Spec, ImplementsCommandEffects, Effects!EffectsSpec
=============================================================================
