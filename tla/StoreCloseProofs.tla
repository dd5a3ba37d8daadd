-------------------------- MODULE StoreCloseProofs --------------------------
(***************************************************************************)
(* What the Store promises while it closes, for any number of grants,      *)
(* writers, streams and puts used together.  Every holder of an admission  *)
(* has an invariant of its own, a predicate of its record and of whether   *)
(* it is admitted, so that a step of one holder leaves the others' alone.  *)
(***************************************************************************)
EXTENDS StoreClose, FiniteSetTheorems, TLAPS

\* What a set whose elements are all equal counts.
LEMMA AtMostOne ==
    ASSUME NEW S, \A x, y \in S : x = y
    PROVE  Cardinality(S) <= 1
<1>1. CASE S = {}
  BY <1>1, FS_EmptySet
<1>2. CASE S # {}
  <2>1. PICK x : x \in S
    BY <1>2
  <2>2. S = {x}
    BY <2>1
  <2> QED BY <2>2, FS_Singleton
<1> QED BY <1>1, <1>2

-----------------------------------------------------------------------------
(* Residency grants.                                                       *)

\* A grant nobody has, or has yet, holds nothing; one that is not released
\* keeps its admission; and one caller at a time is behind the gate.
GrantOK(r, isAdmitted) ==
    /\ r.acquired \in {"idle", "leasing"} \/ (r.acquired = "gone" /\ ~r.released) =>
          r.lease = "none" /\ r.hook = "unset" /\ ~r.released /\ \A c \in Releaser : r.in[c] = "out"
    /\ r.acquired \notin {"idle", "gone"} /\ ~r.released => isAdmitted
    /\ r.released => \A c \in Releaser : r.in[c] # "provider"
    /\ \A c, d \in Releaser : r.in[c] \in {"gate", "provider"} /\ r.in[d] \in {"gate", "provider"} => c = d

GrantsInv ==
    /\ grant \in [Grant -> ResidencyGrant]
    /\ \A g \in Grant : GrantOK(grant[g], g \in admitted)

\* Nobody but g gains or loses an admission, and g gains none once the Store
\* is closing.
OnlyAdmits(g) ==
    /\ closing' = closing /\ provider' = provider
    /\ \A h : h # g => (h \in admitted' <=> h \in admitted)
    /\ closing => admitted' \subseteq admitted

\* A step of one grant.
LEMMA GrantBecomes ==
    ASSUME GrantsInv, NEW g \in Grant, NEW r \in ResidencyGrant, Becomes(g, r),
           GrantOK(r, g \in admitted'), OnlyAdmits(g)
    PROVE  GrantsInv'
  BY DEF GrantsInv, Becomes, OnlyAdmits

\* What a step of the Store does to who is admitted.
LEMMA AdmissionSteps ==
    ASSUME NEW g
    PROVE  /\ UNCHANGED storeVars => OnlyAdmits(g) /\ (g \in admitted' <=> g \in admitted)
           /\ AdmitForeground(g) => OnlyAdmits(g) /\ g \in admitted' /\ ~closing
           /\ ReleaseAdmission(g) => OnlyAdmits(g) /\ g \notin admitted'
<1>1. UNCHANGED storeVars => OnlyAdmits(g) /\ (g \in admitted' <=> g \in admitted)
  BY DEF storeVars, OnlyAdmits
<1>2. AdmitForeground(g) => OnlyAdmits(g) /\ g \in admitted' /\ ~closing
  BY DEF AdmitForeground, OnlyAdmits
<1>3. ReleaseAdmission(g) => OnlyAdmits(g) /\ g \notin admitted'
  BY DEF ReleaseAdmission, OnlyAdmits
<1> QED BY <1>1, <1>2, <1>3

\* A step that neither releases the lease nor moves who releases it.
LEMMA GrantMoves ==
    ASSUME NEW s, NEW wasAdmitted, GrantOK(s, wasAdmitted), NEW r, NEW isAdmitted,
           \A c \in Releaser : r.in[c] = s.in[c], r.released = s.released,
           r.acquired \in {"idle", "leasing"} \/ (r.acquired = "gone" /\ ~r.released) =>
               r.lease = "none" /\ r.hook = "unset" /\ ~r.released /\ \A c \in Releaser : r.in[c] = "out",
           r.acquired \notin {"idle", "gone"} /\ ~r.released => isAdmitted
    PROVE  GrantOK(r, isAdmitted)
BY DEF GrantOK

\* A caller that is not releasing begins to, or finds it done.
LEMMA GrantEnters ==
    ASSUME NEW r \in ResidencyGrant, NEW isAdmitted, GrantOK(r, isAdmitted), NEW c \in Releaser,
           r.acquired \notin {"idle", "leasing", "gone"} \/ r.hook # "unset"
    PROVE  EnterRelease(r, c) \in ResidencyGrant /\ GrantOK(EnterRelease(r, c), isAdmitted)
<1>1. CASE r.released
  BY <1>1 DEF EnterRelease
<1>2. CASE ~r.released
  <2> DEFINE t == [r EXCEPT !.in[c] = "waiting"]
  <2>1. EnterRelease(r, c) = t
    BY <1>2 DEF EnterRelease
  <2>2. t \in ResidencyGrant
    BY DEF ResidencyGrant
  <2>3. /\ t.in[c] = "waiting" /\ \A d \in Releaser \ {c} : t.in[d] = r.in[d]
        /\ t.acquired = r.acquired /\ t.released = r.released
    BY DEF ResidencyGrant
  <2> HIDE DEF t
  <2>4. r.acquired \notin {"idle", "leasing"} /\ ~(r.acquired = "gone" /\ ~r.released)
    BY DEF GrantOK
  <2>5. \A d \in Releaser : t.in[d] \in {"gate", "provider"} => t.in[d] = r.in[d]
    BY <2>3
  <2>6. GrantOK(t, isAdmitted)
    BY <1>2, <2>3, <2>4, <2>5 DEF GrantOK
  <2> QED BY <2>1, <2>2, <2>6
<1> QED BY <1>1, <1>2

\* Every step of a grant keeps its invariant, and is its own.
LEMMA GrantSteps ==
    ASSUME GrantsInv, NEW g \in Grant,
           \/ AcquireResidency(g) \/ HolderReleases(g) \/ GrantGoesOn(g)
           \/ \E c \in Releaser : ReleaseGoesOn(g, c)
    PROVE  GrantsInv' /\ OnlyAdmits(g)
<1> DEFINE s == grant[g]
<1>1. s \in ResidencyGrant /\ GrantOK(s, g \in admitted)
  BY DEF GrantsInv
<1>2. ASSUME NEW r \in ResidencyGrant, Becomes(g, r), OnlyAdmits(g), GrantOK(r, g \in admitted')
      PROVE  GrantsInv' /\ OnlyAdmits(g)
  BY <1>2, GrantBecomes
<1>3. CASE AcquireResidency(g)
  <2> DEFINE t == [s EXCEPT !.acquired = "leasing"]
  <2>1. s.acquired = "idle" /\ Becomes(g, t) /\ OnlyAdmits(g) /\ g \in admitted'
    BY <1>3, AdmissionSteps DEF AcquireResidency
  <2>2. t \in ResidencyGrant
    BY <1>1 DEF ResidencyGrant
  <2>3. t.in = s.in /\ t.released = s.released /\ t.lease = s.lease /\ t.hook = s.hook
    BY <1>1 DEF ResidencyGrant
  <2>4. s.lease = "none" /\ s.hook = "unset" /\ ~s.released /\ \A c \in Releaser : s.in[c] = "out"
    BY <1>1, <2>1 DEF GrantOK
  <2> HIDE DEF t
  <2>5. GrantOK(t, g \in admitted')
    BY <1>1, <2>1, <2>3, <2>4, GrantMoves
  <2> QED BY <1>2, <2>1, <2>2, <2>5
<1>4. CASE HolderReleases(g)
  <2>1. s.acquired = "held" /\ Becomes(g, EnterRelease(s, "holder")) /\ OnlyAdmits(g)
        /\ (g \in admitted' <=> g \in admitted)
    BY <1>4, AdmissionSteps DEF HolderReleases
  <2>2. EnterRelease(s, "holder") \in ResidencyGrant /\ GrantOK(EnterRelease(s, "holder"), g \in admitted)
    BY <1>1, <2>1, GrantEnters DEF Releaser
  <2> QED BY <1>2, <2>1, <2>2
<1>5. CASE LeaserAcquires(g)
  <2>1. s.acquired = "leasing"
    BY <1>5 DEF LeaserAcquires
  <2>2. s.lease = "none" /\ s.hook = "unset" /\ ~s.released /\ (\A c \in Releaser : s.in[c] = "out") /\ g \in admitted
    BY <1>1, <2>1 DEF GrantOK
  <2>3. CASE Becomes(g, [s EXCEPT !.acquired = "leased", !.lease = "held"]) /\ UNCHANGED storeVars
    <3> DEFINE t == [s EXCEPT !.acquired = "leased", !.lease = "held"]
    <3>1. t \in ResidencyGrant
      BY <1>1 DEF ResidencyGrant
    <3>2. t.in = s.in /\ t.released = s.released /\ t.acquired = "leased"
      BY <1>1 DEF ResidencyGrant
    <3>3. Becomes(g, t) /\ OnlyAdmits(g) /\ g \in admitted'
      BY <2>2, <2>3, AdmissionSteps
    <3> HIDE DEF t
    <3>4. GrantOK(t, g \in admitted')
      BY <1>1, <3>2, <3>3, GrantMoves
    <3> QED BY <1>2, <3>1, <3>3, <3>4
  <2>4. CASE Becomes(g, [s EXCEPT !.acquired = "gone"]) /\ ReleaseAdmission(g)
    <3> DEFINE t == [s EXCEPT !.acquired = "gone"]
    <3>1. t \in ResidencyGrant
      BY <1>1 DEF ResidencyGrant
    <3>2. t.in = s.in /\ t.released = s.released /\ t.acquired = "gone" /\ t.lease = s.lease /\ t.hook = s.hook
      BY <1>1 DEF ResidencyGrant
    <3>3. Becomes(g, t) /\ OnlyAdmits(g)
      BY <2>4, AdmissionSteps
    <3> HIDE DEF t
    <3>4. GrantOK(t, g \in admitted')
      BY <1>1, <2>2, <3>2, GrantMoves
    <3> QED BY <1>2, <3>1, <3>3, <3>4
  <2> QED BY <1>5, <2>3, <2>4 DEF LeaserAcquires
<1>6. CASE BindCancelHandle(g)
  <2> DEFINE t == [s EXCEPT !.acquired = "armed", !.hook = "armed"]
  <2>1. s.acquired = "leased" /\ Becomes(g, t) /\ OnlyAdmits(g) /\ (g \in admitted' <=> g \in admitted)
    BY <1>6, AdmissionSteps DEF BindCancelHandle
  <2>2. t \in ResidencyGrant
    BY <1>1 DEF ResidencyGrant, Hook
  <2>3. t.in = s.in /\ t.released = s.released /\ t.acquired = "armed"
    BY <1>1 DEF ResidencyGrant
  <2>4. ~s.released => g \in admitted
    BY <1>1, <2>1 DEF GrantOK
  <2> HIDE DEF t
  <2>5. GrantOK(t, g \in admitted')
    BY <1>1, <2>1, <2>3, <2>4, GrantMoves
  <2> QED BY <1>2, <2>1, <2>2, <2>5
<1>7. CASE PublishStop(g)
  <2>1. PICK h : h = IF s.released THEN StopHook(s.hook) ELSE s.hook
    OBVIOUS
  <2> DEFINE t == [s EXCEPT !.acquired = "bound", !.published = TRUE, !.hook = h]
  <2>2. s.acquired = "armed" /\ Becomes(g, t) /\ OnlyAdmits(g) /\ (g \in admitted' <=> g \in admitted)
    BY <1>7, <2>1, AdmissionSteps DEF PublishStop
  <2>3. h \in Hook
    BY <1>1, <2>1 DEF StopHook, Hook, ResidencyGrant
  <2>4. t \in ResidencyGrant
    BY <1>1, <2>3 DEF ResidencyGrant
  <2>5. t.in = s.in /\ t.released = s.released /\ t.acquired = "bound"
    BY <1>1 DEF ResidencyGrant
  <2>6. ~s.released => g \in admitted
    BY <1>1, <2>2 DEF GrantOK
  <2> HIDE DEF t
  <2>7. GrantOK(t, g \in admitted')
    BY <1>1, <2>2, <2>5, <2>6, GrantMoves
  <2> QED BY <1>2, <2>2, <2>4, <2>7
<1>8. CASE DecideAcquire(g)
  <2>1. s.acquired = "bound" /\ OnlyAdmits(g) /\ (g \in admitted' <=> g \in admitted)
    BY <1>8, AdmissionSteps DEF DecideAcquire
  <2>2. ~s.released => g \in admitted
    BY <1>1, <2>1 DEF GrantOK
  <2>3. ASSUME NEW place \in {"refusing", "held"}
        PROVE  LET t == [s EXCEPT !.acquired = place]
               IN  t \in ResidencyGrant /\ t.acquired = place /\ GrantOK(t, g \in admitted')
    <3> DEFINE t == [s EXCEPT !.acquired = place]
    <3>1. t \in ResidencyGrant
      BY <1>1 DEF ResidencyGrant
    <3>2. t.in = s.in /\ t.released = s.released /\ t.acquired = place
      BY <1>1 DEF ResidencyGrant
    <3> HIDE DEF t
    <3>3. GrantOK(t, g \in admitted')
      BY <1>1, <2>1, <2>2, <3>2, GrantMoves
    <3> QED BY <3>1, <3>2, <3>3 DEF t
  <2>4. CASE Becomes(g, EnterRelease([s EXCEPT !.acquired = "refusing"], "acquirer"))
    BY <1>2, <2>1, <2>3, <2>4, GrantEnters DEF Releaser
  <2>5. CASE Becomes(g, [s EXCEPT !.acquired = "held"])
    BY <1>2, <2>1, <2>3, <2>5
  <2> QED BY <1>8, <2>4, <2>5 DEF DecideAcquire
<1>9. CASE CleanupReturns(g)
  <2>1. PICK place : place = IF s.released THEN "gone" ELSE "held"
    OBVIOUS
  <2> DEFINE t == [s EXCEPT !.acquired = place]
  <2>2. s.acquired = "refusing" /\ Becomes(g, t) /\ OnlyAdmits(g) /\ (g \in admitted' <=> g \in admitted)
    BY <1>9, <2>1, AdmissionSteps DEF CleanupReturns
  <2>3. t \in ResidencyGrant
    BY <1>1, <2>1 DEF ResidencyGrant
  <2>4. t.in = s.in /\ t.released = s.released /\ t.acquired = place
    BY <1>1 DEF ResidencyGrant
  <2>5. ~s.released => g \in admitted /\ place = "held"
    BY <1>1, <2>1, <2>2 DEF GrantOK
  <2>6. s.released => place = "gone"
    BY <2>1
  <2> HIDE DEF t
  <2>7. GrantOK(t, g \in admitted')
    BY <1>1, <2>2, <2>4, <2>5, <2>6, GrantMoves DEF ResidencyGrant
  <2> QED BY <1>2, <2>2, <2>3, <2>7
<1>10. CASE ShutdownHook(g)
  <2> DEFINE t == [s EXCEPT !.hook = "ran"]
  <2>1. s.hook = "armed" /\ Becomes(g, EnterRelease(t, "hook")) /\ OnlyAdmits(g) /\ (g \in admitted' <=> g \in admitted)
    BY <1>10, AdmissionSteps DEF ShutdownHook
  <2>2. t \in ResidencyGrant
    BY <1>1 DEF ResidencyGrant, Hook
  <2>3. t.in = s.in /\ t.released = s.released /\ t.acquired = s.acquired /\ t.hook = "ran"
    BY <1>1 DEF ResidencyGrant
  <2>4. s.acquired \notin {"idle", "leasing"} /\ ~(s.acquired = "gone" /\ ~s.released)
        /\ (s.acquired \notin {"idle", "gone"} /\ ~s.released => g \in admitted)
    BY <1>1, <2>1 DEF GrantOK
  <2> HIDE DEF t
  <2>5. GrantOK(t, g \in admitted')
    BY <1>1, <2>1, <2>3, <2>4, GrantMoves
  <2>6. EnterRelease(t, "hook") \in ResidencyGrant /\ GrantOK(EnterRelease(t, "hook"), g \in admitted')
    BY <2>2, <2>3, <2>5, GrantEnters DEF Releaser
  <2> QED BY <1>2, <2>1, <2>6
<1>11. ASSUME NEW c \in Releaser, ReleaseGoesOn(g, c) PROVE GrantsInv' /\ OnlyAdmits(g)
  <2>1. CASE TakeReleaseGate(g, c)
    BY <1>1, <1>2, <2>1 DEF TakeReleaseGate, GateFree, InRelease, storeVars,
       OnlyAdmits, GrantOK, ResidencyGrant, Releaser
  <2>2. CASE ReleaseTimesOut(g, c)
    BY <1>1, <1>2, <2>2 DEF ReleaseTimesOut, storeVars,
       OnlyAdmits, GrantOK, ResidencyGrant, Releaser
  <2>3. CASE RecheckReleased(g, c)
    BY <1>1, <1>2, <2>3 DEF RecheckReleased, MustRelease, storeVars,
       OnlyAdmits, GrantOK, ResidencyGrant, Releaser
  <2>4. CASE LeaseReleases(g, c)
    <3>1. PICK h : h = IF s.published THEN StopHook(s.hook) ELSE s.hook
      OBVIOUS
    <3>2. PICK t : t = [s EXCEPT !.in[c] = "out", !.lease = "returned", !.released = TRUE, !.hook = h]
      OBVIOUS
    <3>3. Becomes(g, t) /\ ReleaseAdmission(g) /\ s.in[c] = "provider"
      BY <2>4, <3>1, <3>2 DEF LeaseReleases
    <3>4. h \in Hook
      BY <1>1, <3>1 DEF StopHook, Hook, ResidencyGrant
    <3>5. t \in ResidencyGrant
      BY <1>1, <3>2, <3>4 DEF ResidencyGrant
    <3>6. /\ t.released /\ t.acquired = s.acquired /\ t.in[c] = "out"
          /\ \A d \in Releaser \ {c} : t.in[d] = s.in[d]
      BY <1>1, <3>2 DEF ResidencyGrant
    <3>7. GrantOK(t, g \in admitted')
      <4>1. s.acquired \notin {"idle", "leasing"} /\ \A d \in Releaser \ {c} : s.in[d] \notin {"gate", "provider"}
        BY <1>1, <3>3 DEF GrantOK
      <4> QED BY <3>6, <4>1 DEF GrantOK
    <3>8. OnlyAdmits(g)
      BY <3>3 DEF ReleaseAdmission, OnlyAdmits
    <3> QED BY <1>2, <3>3, <3>5, <3>7, <3>8
  <2>5. CASE LeaseRefuses(g, c)
    BY <1>1, <1>2, <2>5 DEF LeaseRefuses, AdmissionAfterRefusal, storeVars,
       OnlyAdmits, GrantOK, ResidencyGrant, Releaser
  <2> QED BY <1>11, <2>1, <2>2, <2>3, <2>4, <2>5 DEF ReleaseGoesOn
<1> QED BY <1>3, <1>4, <1>5, <1>6, <1>7, <1>8, <1>9, <1>10, <1>11 DEF GrantGoesOn

-----------------------------------------------------------------------------
(* Journal writers.                                                        *)

\* A writer nobody has holds nothing; one that is not closed keeps its
\* admission, and whoever has the mutex or left the lease unreleased does; an
\* append is of an open writer.
WriterOK(s, isAdmitted) ==
    /\ s.opened \in {"idle", "opening", "gone"} =>
          s.lease # "held" /\ s.hook = "unset" /\ ~s.closed /\ \A u \in WriterUser : s.in[u] = "out"
    /\ s.opened \notin {"idle", "gone"} /\ ~s.closed => isAdmitted
    /\ s.lease = "held" => isAdmitted
    /\ \A u \in WriterUser : s.in[u] = "locked" => isAdmitted /\ (s.closed <=> u # "append")
    /\ \A u, v \in WriterUser : s.in[u] = "locked" /\ s.in[v] = "locked" => u = v

WritersInv ==
    /\ writer \in [Writer -> WriterHandle]
    /\ \A w \in Writer : WriterOK(writer[w], w \in admitted)

\* A step of one writer.
LEMMA WriterBecomes ==
    ASSUME WritersInv, NEW w \in Writer, NEW s \in WriterHandle, Writes(w, s),
           WriterOK(s, w \in admitted'), OnlyAdmits(w)
    PROVE  WritersInv'
  BY DEF WritersInv, Writes, OnlyAdmits

\* A step of an open writer that neither closes it nor takes its mutex.
LEMMA WriterMoves ==
    ASSUME NEW s, NEW isAdmitted, WriterOK(s, isAdmitted), NEW r,
           \A u \in WriterUser : r.in[u] = "locked" => s.in[u] = "locked", r.closed = s.closed, r.lease = s.lease,
           s.opened \notin {"idle", "opening", "gone"}, r.opened \notin {"idle", "opening", "gone"}
    PROVE  WriterOK(r, isAdmitted)
<1>1. \A u \in WriterUser : r.in[u] = "locked" => isAdmitted /\ (r.closed <=> u # "append")
  BY DEF WriterOK
<1>2. \A u, v \in WriterUser : r.in[u] = "locked" /\ r.in[v] = "locked" => u = v
  BY DEF WriterOK
<1>3. (~r.closed => isAdmitted) /\ (r.lease = "held" => isAdmitted)
  BY DEF WriterOK
<1> QED BY <1>1, <1>2, <1>3 DEF WriterOK

\* Every step of a writer keeps its invariant, and is its own.
LEMMA WriterSteps ==
    ASSUME WritersInv, NEW w \in Writer,
           \/ OpenJournal(w) \/ WriterGoesOn(w) \/ CallClose(w, "holder") \/ BeginAppend(w) \/ AppendReturns(w)
           \/ \E u \in WriterUser : CloseWriter(w, u) \/ LeaseReleaseReturns(w, u)
    PROVE  WritersInv' /\ OnlyAdmits(w)
<1> DEFINE s == writer[w]
<1>1. s \in WriterHandle /\ WriterOK(s, w \in admitted)
  BY DEF WritersInv
<1>2. ASSUME NEW r \in WriterHandle, Writes(w, r), OnlyAdmits(w), WriterOK(r, w \in admitted')
      PROVE  WritersInv' /\ OnlyAdmits(w)
  BY <1>2, WriterBecomes
<1>3. CASE OpenJournal(w)
  BY <1>1, <1>2, <1>3 DEF OpenJournal, AdmitForeground,
     storeVars, OnlyAdmits, WriterOK, WriterHandle, WriterUser, Hook
<1>4. CASE OpeningEnds(w)
  BY <1>1, <1>2, <1>4 DEF OpeningEnds, ReleaseAdmission,
     storeVars, OnlyAdmits, WriterOK, WriterHandle, WriterUser, Hook
<1>5. CASE BindShutdown(w)
  <2>1. PICK h : h = IF s.closed THEN StopHook(s.hook) ELSE s.hook
    OBVIOUS
  <2> DEFINE t == [s EXCEPT !.opened = "bound", !.published = TRUE, !.hook = h]
  <2>2. s.opened = "armed" /\ Writes(w, t) /\ OnlyAdmits(w) /\ (w \in admitted' <=> w \in admitted)
    BY <1>5, <2>1, AdmissionSteps DEF BindShutdown
  <2>3. h \in Hook
    BY <1>1, <2>1 DEF StopHook, Hook, WriterHandle
  <2>4. t \in WriterHandle
    BY <1>1, <2>3 DEF WriterHandle
  <2>5. t.in = s.in /\ t.closed = s.closed /\ t.lease = s.lease /\ t.opened = "bound"
    BY <1>1 DEF WriterHandle
  <2> HIDE DEF t
  <2>6. WriterOK(t, w \in admitted)
    BY <1>1, <2>2, <2>5, WriterMoves
  <2> QED BY <1>2, <2>2, <2>4, <2>6
<1>6. CASE OpenReturns(w)
  <2>1. s.opened = "bound" /\ OnlyAdmits(w) /\ (w \in admitted' <=> w \in admitted)
    BY <1>6, AdmissionSteps DEF OpenReturns
  <2>2. CASE closing
    <3> DEFINE t == [s EXCEPT !.opened = "refusing", !.in["opener"] = "waiting"]
    <3>1. Writes(w, t)
      BY <1>6, <2>2 DEF OpenReturns
    <3>2. t \in WriterHandle
      BY <1>1 DEF WriterHandle
    <3>3. /\ \A u \in WriterUser : t.in[u] = "locked" => s.in[u] = "locked"
          /\ t.closed = s.closed /\ t.lease = s.lease /\ t.opened = "refusing"
      BY <1>1 DEF WriterHandle
    <3> HIDE DEF t
    <3>4. WriterOK(t, w \in admitted)
      BY <1>1, <2>1, <3>3, WriterMoves
    <3> QED BY <1>2, <2>1, <3>1, <3>2, <3>4
  <2>3. CASE ~closing
    <3> DEFINE t == [s EXCEPT !.opened = "held"]
    <3>1. Writes(w, t)
      BY <1>6, <2>3 DEF OpenReturns
    <3>2. t \in WriterHandle
      BY <1>1 DEF WriterHandle
    <3>3. t.in = s.in /\ t.closed = s.closed /\ t.lease = s.lease /\ t.opened = "held"
      BY <1>1 DEF WriterHandle
    <3> HIDE DEF t
    <3>4. WriterOK(t, w \in admitted)
      BY <1>1, <2>1, <3>3, WriterMoves
    <3> QED BY <1>2, <2>1, <3>1, <3>2, <3>4
  <2> QED BY <2>2, <2>3
<1>7. CASE BeginAppend(w)
  BY <1>1, <1>2, <1>7 DEF BeginAppend, Unlocked,
     storeVars, OnlyAdmits, WriterOK, WriterHandle, WriterUser, Hook
<1>8. CASE AppendReturns(w)
  BY <1>1, <1>2, <1>8 DEF AppendReturns,
     storeVars, OnlyAdmits, WriterOK, WriterHandle, WriterUser, Hook
<1>9. ASSUME NEW u \in WriterUser, CallClose(w, u) \/ CloseWriter(w, u) \/ LeaseReleaseReturns(w, u) PROVE WritersInv' /\ OnlyAdmits(w)
  <2>1. CASE CallClose(w, u)
    <3>1. PICK h : h = IF u = "hook" THEN "ran" ELSE s.hook
      OBVIOUS
    <3> DEFINE t == [s EXCEPT !.in[u] = "waiting", !.hook = h]
    <3>2. /\ s.hook = "armed" \/ s.opened = "held"
          /\ Writes(w, t) /\ OnlyAdmits(w) /\ (w \in admitted' <=> w \in admitted)
      BY <2>1, <3>1, AdmissionSteps DEF CallClose
    <3>3. h \in Hook
      BY <1>1, <3>1 DEF Hook, WriterHandle
    <3>4. t \in WriterHandle
      BY <1>1, <3>3 DEF WriterHandle
    <3>5. /\ \A v \in WriterUser : t.in[v] = "locked" => s.in[v] = "locked"
          /\ t.closed = s.closed /\ t.lease = s.lease /\ t.opened = s.opened
      BY <1>1 DEF WriterHandle
    <3>6. s.opened \notin {"idle", "opening", "gone"}
      BY <1>1, <3>2 DEF WriterOK
    <3> HIDE DEF t
    <3>7. WriterOK(t, w \in admitted)
      BY <1>1, <3>5, <3>6, WriterMoves
    <3> QED BY <1>2, <3>2, <3>4, <3>7
  <2>2. CASE CloseWriter(w, u)
    <3>1. /\ u # "append" /\ s.in[u] = "waiting" /\ \A v \in WriterUser : s.in[v] # "locked"
          /\ OnlyAdmits(w) /\ (w \in admitted' <=> w \in admitted)
      BY <2>2, AdmissionSteps DEF CloseWriter, Unlocked
    <3>2. s.opened \notin {"idle", "opening", "gone"}
      BY <1>1, <3>1 DEF WriterOK
    <3>3. CASE s.closed
      <4> DEFINE t == [s EXCEPT !.in[u] = "out"]
      <4>1. Writes(w, t)
        BY <2>2, <3>3 DEF CloseWriter
      <4>2. t \in WriterHandle
        BY <1>1 DEF WriterHandle
      <4>3. /\ \A v \in WriterUser : t.in[v] = "locked" => s.in[v] = "locked"
            /\ t.closed = s.closed /\ t.lease = s.lease /\ t.opened = s.opened
        BY <1>1 DEF WriterHandle
      <4> HIDE DEF t
      <4>4. WriterOK(t, w \in admitted)
        BY <1>1, <3>2, <4>3, WriterMoves
      <4> QED BY <1>2, <3>1, <4>1, <4>2, <4>4
    <3>4. CASE ~s.closed
      <4>1. PICK h : h = IF s.published THEN StopHook(s.hook) ELSE s.hook
        OBVIOUS
      <4> DEFINE t == [s EXCEPT !.in[u] = "locked", !.closed = TRUE, !.hook = h]
      <4>2. Writes(w, t)
        BY <2>2, <3>4, <4>1 DEF CloseWriter
      <4>3. h \in Hook
        BY <1>1, <4>1 DEF StopHook, Hook, WriterHandle
      <4>4. t \in WriterHandle
        BY <1>1, <4>3 DEF WriterHandle
      <4>5. /\ t.in[u] = "locked" /\ \A v \in WriterUser \ {u} : t.in[v] = s.in[v]
            /\ t.closed /\ t.lease = s.lease /\ t.opened = s.opened
        BY <1>1 DEF WriterHandle
      <4> HIDE DEF t
      <4>6. w \in admitted
        BY <1>1, <3>2, <3>4 DEF WriterOK
      <4>7. \A v \in WriterUser : t.in[v] = "locked" => v = u
        BY <3>1, <4>5
      <4>8. WriterOK(t, w \in admitted)
        BY <3>1, <3>2, <4>5, <4>6, <4>7 DEF WriterOK
      <4> QED BY <1>2, <3>1, <4>2, <4>4, <4>8
    <3> QED BY <3>3, <3>4
  <2>3. CASE LeaseReleaseReturns(w, u)
    <3>1. PICK lease \in {"none", "left"} : Writes(w, [s EXCEPT !.in[u] = "out", !.lease = lease])
      BY <2>3 DEF LeaseReleaseReturns
    <3>2. OnlyAdmits(w) /\ w \notin admitted' /\ u # "append" /\ s.in[u] = "locked"
      BY <2>3 DEF LeaseReleaseReturns, ReleaseAdmission, OnlyAdmits
    <3>3. s.closed /\ s.opened \notin {"idle", "opening", "gone"}
      BY <1>1, <3>2 DEF WriterOK, WriterHandle, WriterUser
    <3>4. \A v \in WriterUser \ {u} : s.in[v] # "locked"
      BY <1>1, <3>2 DEF WriterOK
    <3>5. [s EXCEPT !.in[u] = "out", !.lease = lease] \in WriterHandle
      BY <1>1 DEF WriterHandle
    <3>6. WriterOK([s EXCEPT !.in[u] = "out", !.lease = lease], w \in admitted')
      BY <1>1, <3>3, <3>4 DEF WriterOK, WriterHandle
    <3> QED BY <1>2, <3>1, <3>2, <3>5, <3>6
  <2> QED BY <1>9, <2>1, <2>2, <2>3
<1> QED BY <1>3, <1>4, <1>5, <1>6, <1>7, <1>8, <1>9 DEF WriterGoesOn, WriterUser

-----------------------------------------------------------------------------
(* Puts.                                                                   *)

\* A put in progress is admitted; what it verified stays, and so does what it
\* was told.
PutOK(c, isAdmitted) ==
    /\ c.at \notin {"idle", "told", "failed", "gone"} => isAdmitted
    /\ c.at = "committing" => objects[c.generation].kept = "exact"
PutsInv ==
    /\ objects \in [Generation -> StoredObject]
    /\ puts \in [Put -> PutCall]
    /\ \A p \in Put : PutOK(puts[p], p \in admitted)
    /\ VisibleIsWhole

\* What the provider keeps of a body, once it keeps one, and the metadata row,
\* once there is one, stay.
ObjectsStay ==
    \A g \in Generation :
        /\ objects[g].kept # "nothing" => objects'[g].kept = objects[g].kept
        /\ objects[g].row # NoPut => objects'[g].row = objects[g].row

\* A step of one put.
LEMMA PutBecomes ==
    ASSUME PutsInv, NEW p \in Put, NEW c \in PutCall, puts' = [puts EXCEPT ![p] = c], OnlyAdmits(p),
           objects' \in [Generation -> StoredObject], ObjectsStay,
           c.at \notin {"idle", "told", "failed", "gone"} => p \in admitted',
           c.at = "committing" => objects'[c.generation].kept = "exact",
           c.at = "told" => objects'[c.generation].row = p,
           \A g \in Generation : objects'[g].row # NoPut => objects'[g].kept = "exact"
    PROVE  PutsInv' /\ OnlyAdmits(p)
<1>1. puts' \in [Put -> PutCall] /\ puts'[p] = c /\ \A q \in Put \ {p} : puts'[q] = puts[q]
  BY DEF PutsInv
<1>2. \A q \in Put : PutOK(puts[q], q \in admitted)'
  BY <1>1 DEF PutsInv, PutOK, OnlyAdmits, ObjectsStay, PutCall
<1>3. VisibleIsWhole'
  BY <1>1, PutAssumption DEF PutsInv, VisibleIsWhole, Object, ObjectsStay, PutCall
<1> QED BY <1>1, <1>2, <1>3 DEF PutsInv

\* Every step of a put keeps the invariant, and is its own.
LEMMA PutSteps ==
    ASSUME PutsInv, NEW p \in Put, PutObject(p) \/ PutAgain(p) \/ PutGoesOn(p)
    PROVE  PutsInv' /\ OnlyAdmits(p)
<1> DEFINE c == puts[p]
<1>1. /\ c \in PutCall /\ PutOK(c, p \in admitted) /\ c.generation \in Generation
      /\ objects \in [Generation -> StoredObject] /\ Object(p) = objects[c.generation]
      /\ \A g \in Generation : objects[g].row # NoPut => objects[g].kept = "exact"
      /\ c.at = "told" => objects[c.generation].row = p
  BY DEF PutsInv, PutCall, VisibleIsWhole, Object
\* A step that moves the put and leaves the objects alone.
<1>2. ASSUME NEW place \in {"binding", "storing", "verifying", "committing", "rereading", "told", "failed"},
             NEW g \in Generation, objects' = objects, OnlyAdmits(p),
             puts' = [puts EXCEPT ![p] = [at |-> place, generation |-> g]],
             place \notin {"told", "failed"} => p \in admitted',
             place = "committing" => objects[g].kept = "exact",
             place = "told" => objects[g].row = p
      PROVE  PutsInv' /\ OnlyAdmits(p)
  <2>1. PICK d : d = [at |-> place, generation |-> g]
    OBVIOUS
  <2>2. d \in PutCall /\ d.at = place /\ d.generation = g
    BY <2>1 DEF PutCall
  <2> QED BY <1>1, <1>2, <2>1, <2>2, PutBecomes DEF ObjectsStay
\* Going somewhere, with or without the admission.
<1>3. ASSUME NEW place \in {"storing", "verifying", "committing", "rereading", "told", "failed"},
             GoesTo(p, place), c.at \notin {"idle", "told", "failed", "gone"}
      PROVE  /\ puts' = [puts EXCEPT ![p] = [at |-> place, generation |-> c.generation]]
             /\ OnlyAdmits(p) /\ (place \notin {"told", "failed"} => p \in admitted')
  <2>1. [c EXCEPT !.at = place] = [at |-> place, generation |-> c.generation]
    BY <1>1 DEF PutCall
  <2>2. puts' = [puts EXCEPT ![p] = [at |-> place, generation |-> c.generation]]
    BY <1>3, <2>1 DEF GoesTo
  <2>3. OnlyAdmits(p) /\ (place \notin {"told", "failed"} => p \in admitted')
    BY <1>1, <1>3 DEF GoesTo, OnlyAdmits, ReleaseAdmission, storeVars, PutOK
  <2> QED BY <2>2, <2>3
<1>4. CASE PutObject(p)
  <2>1. puts' = [puts EXCEPT ![p] = [at |-> "binding", generation |-> c.generation]]
    <3>1. [c EXCEPT !.at = "binding"] = [at |-> "binding", generation |-> c.generation]
      BY <1>1 DEF PutCall
    <3> QED BY <1>4, <3>1 DEF PutObject
  <2> QED BY <1>1, <1>2, <1>4, <2>1 DEF PutObject, AdmitForeground, OnlyAdmits
<1>5. CASE PutAgain(p)
  BY <1>1, <1>2, <1>5 DEF PutAgain, AdmitForeground, OnlyAdmits
<1>6. CASE BindSessionScope(p)
  BY <1>1, <1>2, <1>3, <1>6 DEF BindSessionScope
<1>7. CASE BlobsPut(p)
  <2>1. CASE GoesTo(p, "failed") /\ UNCHANGED objects
    BY <1>1, <1>2, <1>3, <1>7, <2>1 DEF BlobsPut
  <2>2. ASSUME objects[c.generation].kept = "nothing", NEW kept \in {"exact", "damaged"},
               NEW place \in {"verifying", "failed"}, Keeps(p, kept), GoesTo(p, place)
        PROVE  PutsInv' /\ OnlyAdmits(p)
    <3>1. /\ puts' = [puts EXCEPT ![p] = [at |-> place, generation |-> c.generation]]
          /\ OnlyAdmits(p) /\ (place # "failed" => p \in admitted')
      BY <1>3, <1>7, <2>2 DEF BlobsPut
    <3>2. /\ objects' \in [Generation -> StoredObject]
          /\ objects'[c.generation].row = objects[c.generation].row
          /\ \A g \in Generation \ {c.generation} : objects'[g] = objects[g]
      BY <1>1, <2>2 DEF Keeps, StoredObject
    <3>3. objects[c.generation].row = NoPut
      BY <1>1, <2>2
    <3>4. ObjectsStay /\ \A g \in Generation : objects'[g].row # NoPut => objects'[g].kept = "exact"
      BY <1>1, <2>2, <3>2, <3>3 DEF ObjectsStay
    <3>5. PICK d : d = [at |-> place, generation |-> c.generation]
      OBVIOUS
    <3>6. d \in PutCall /\ d.at = place
      BY <1>1, <3>5 DEF PutCall
    <3> QED BY <3>1, <3>2, <3>4, <3>5, <3>6, PutBecomes
  <2> QED BY <1>1, <1>7, <2>1, <2>2 DEF BlobsPut
<1>8. CASE VerifyPersisted(p)
  BY <1>1, <1>2, <1>3, <1>8 DEF VerifyPersisted, Verified
<1>9. CASE PersistObjectMetadata(p)
  <2>1. CASE GoesTo(p, "rereading") /\ UNCHANGED objects
    BY <1>1, <1>2, <1>3, <1>9, <2>1 DEF PersistObjectMetadata
  <2>2. ASSUME objects[c.generation].row = NoPut, NEW place \in {"told", "rereading", "failed"},
               objects' = [objects EXCEPT ![c.generation].row = p], GoesTo(p, place)
        PROVE  PutsInv' /\ OnlyAdmits(p)
    <3>1. /\ puts' = [puts EXCEPT ![p] = [at |-> place, generation |-> c.generation]]
          /\ OnlyAdmits(p) /\ (place = "rereading" => p \in admitted')
      BY <1>3, <1>9, <2>2 DEF PersistObjectMetadata
    <3>2. /\ objects' \in [Generation -> StoredObject] /\ objects'[c.generation].row = p
          /\ objects'[c.generation].kept = objects[c.generation].kept
          /\ \A g \in Generation \ {c.generation} : objects'[g] = objects[g]
      BY <1>1, <2>2 DEF StoredObject
    <3>3. objects[c.generation].kept = "exact"
      BY <1>1, <1>9 DEF PersistObjectMetadata, PutOK
    <3>4. ObjectsStay /\ \A g \in Generation : objects'[g].row # NoPut => objects'[g].kept = "exact"
      BY <1>1, <2>2, <3>2, <3>3 DEF ObjectsStay
    <3>5. PICK d : d = [at |-> place, generation |-> c.generation]
      OBVIOUS
    <3>6. d \in PutCall /\ d.at = place /\ d.generation = c.generation
      BY <1>1, <3>5 DEF PutCall
    <3> QED BY <3>1, <3>2, <3>4, <3>5, <3>6, PutBecomes
  <2> QED BY <1>1, <1>9, <2>1, <2>2 DEF PersistObjectMetadata
<1>10. CASE RereadObjectMetadata(p)
  BY <1>1, <1>2, <1>3, <1>10 DEF RereadObjectMetadata
<1>11. CASE PutStops(p)
  BY <1>1, <1>2, <1>3, <1>11 DEF PutStops
<1> QED BY <1>4, <1>5, <1>6, <1>7, <1>8, <1>9, <1>10, <1>11 DEF PutGoesOn

-----------------------------------------------------------------------------
(* Object streams.                                                         *)

\* A stream that was not bound has no users and is not ending; one that has not
\* ended keeps its admission; one user ends it, after whom nobody reads; and
\* what Close answers is settled by then.
ReaderOK(s, isAdmitted) ==
    /\ s.got \in {"idle", "opening", "opened", "gone"} =>
          s.hook = "unset" /\ ~s.closing /\ \A u \in User : s.in[u] = "out"
    /\ s.got \in {"idle", "opening", "gone"} => s.under # "open"
    /\ s.got \notin {"idle", "gone"} /\ ~s.done => isAdmitted
    /\ s.done => s.under # "open" /\ \A u \in User : s.in[u] \notin {"reading", "closing", "draining"}
    /\ s.done => s.closing
    /\ \A u \in User :
          /\ s.in[u] \in {"closing", "draining", "releasing"} => s.closing
          /\ s.in[u] = "draining" => s.under = "closed"
          /\ s.in[u] = "releasing" => s.done
    /\ \A u, v \in User :
          s.in[u] \in {"closing", "draining", "releasing"} /\ s.in[v] \in {"closing", "draining", "releasing"} => u = v
    /\ s.in["hook"] # "out" => s.hook = "ran"
    /\ s.primary = "eof" => s.whole
    /\ s.told # {} => s.done
    /\ "nil" \in s.told => ~CloseError(s)
    /\ "error" \in s.told => CloseError(s)

ReadersInv ==
    /\ reader \in [Reader -> ObjectReader]
    /\ \A r \in Reader : ReaderOK(reader[r], r \in admitted)

\* A step of one stream.
LEMMA ReaderTurns ==
    ASSUME ReadersInv, NEW r \in Reader, NEW s \in ObjectReader, Turns(r, s),
           ReaderOK(s, r \in admitted'), OnlyAdmits(r)
    PROVE  ReadersInv'
  BY DEF ReadersInv, Turns, OnlyAdmits

\* A user moves to a place where nobody ends or has ended the stream.
LEMMA UserMoves ==
    ASSUME NEW s \in ObjectReader, NEW isAdmitted, ReaderOK(s, isAdmitted), NEW u \in User,
           NEW place \in {"out", "turn", "reading", "waiting"}, place = "reading" => ~s.done,
           s.got \notin {"idle", "opening", "opened", "gone"}, u = "hook" => place = "out" \/ s.hook = "ran"
    PROVE  [s EXCEPT !.in[u] = place] \in ObjectReader /\ ReaderOK([s EXCEPT !.in[u] = place], isAdmitted)
<1> DEFINE t == [s EXCEPT !.in[u] = place]
<1>2. t \in ObjectReader
  BY DEF ObjectReader
<1>3. /\ t.in[u] = place /\ \A w \in User \ {u} : t.in[w] = s.in[w]
      /\ t.got = s.got /\ t.hook = s.hook /\ t.under = s.under /\ t.closing = s.closing /\ t.done = s.done
      /\ t.primary = s.primary /\ t.clean = s.clean /\ t.whole = s.whole /\ t.told = s.told
  BY DEF ObjectReader
<1> HIDE DEF t
<1>4. ReaderOK(t, isAdmitted)
  <2>1. CloseError(t) <=> CloseError(s)
    BY <1>3 DEF CloseError
  <2>2. \A w \in User : s.in[w] = t.in[w] \/ (w = u /\ t.in[w] \in {"out", "turn", "reading", "waiting"})
    BY <1>3
  <2>3. t.in["hook"] # "out" => t.hook = "ran"
    BY <1>3 DEF ReaderOK, User
  <2>4. t.done => \A w \in User : t.in[w] \notin {"reading", "closing", "draining"}
    BY <1>3, <2>2 DEF ReaderOK
  <2> QED BY <1>3, <2>1, <2>2, <2>3, <2>4 DEF ReaderOK
<1> QED BY <1>2, <1>4 DEF t

\* A user who is not in its methods begins to end a stream.
LEMMA BeginsTermination ==
    ASSUME NEW s \in ObjectReader, NEW isAdmitted, ReaderOK(s, isAdmitted), NEW u \in User, s.in[u] = "out",
           s.got \notin {"idle", "opening", "opened", "gone"}, u = "hook" => s.hook = "ran"
    PROVE  BeginTermination(s, u) \in ObjectReader /\ ReaderOK(BeginTermination(s, u), isAdmitted)
<1>1. CASE s.done
  BY <1>1 DEF BeginTermination
<1>2. CASE ~s.done /\ s.closing
  <2> DEFINE t == [s EXCEPT !.in[u] = "waiting"]
  <2>1. BeginTermination(s, u) = t
    BY <1>2 DEF BeginTermination
  <2>2. t \in ObjectReader /\ ReaderOK(t, isAdmitted)
    BY UserMoves
  <2> QED BY <2>1, <2>2
<1>3. CASE ~s.closing
  <2> DEFINE t == [s EXCEPT !.in[u] = "closing", !.closing = TRUE, !.primary = "error"]
  <2>1. BeginTermination(s, u) = t
    BY <1>3 DEF BeginTermination, ReaderOK
  <2>2. t \in ObjectReader
    BY DEF ObjectReader
  <2>3. \A v \in User : s.in[v] \notin {"closing", "draining", "releasing"}
    BY <1>3 DEF ReaderOK
  <2>4. s.told = {} /\ ~s.done
    BY <1>3 DEF ReaderOK
  <2>5. /\ t.in[u] = "closing" /\ \A v \in User \ {u} : t.in[v] = s.in[v]
        /\ t.closing /\ t.primary = "error" /\ t.told = s.told /\ t.done = s.done /\ t.hook = s.hook
        /\ t.got = s.got /\ t.under = s.under
    BY DEF ObjectReader
  <2> HIDE DEF t
  <2>6. ReaderOK(t, isAdmitted)
    <3>1. \A w, x \in User : t.in[w] \in {"closing", "draining", "releasing"}
                              /\ t.in[x] \in {"closing", "draining", "releasing"} => w = x
      BY <2>3, <2>5
    <3>2. \A w \in User : /\ t.in[w] = "draining" => t.under = "closed"
                          /\ t.in[w] = "releasing" => t.done
      BY <2>3, <2>5
    <3>3. t.in["hook"] # "out" => t.hook = "ran"
      BY <2>5 DEF ReaderOK, User
    <3>4. t.got \notin {"idle", "opening", "opened", "gone"} /\ isAdmitted
      BY <2>4, <2>5 DEF ReaderOK
    <3> QED BY <2>4, <2>5, <3>1, <3>2, <3>3, <3>4 DEF ReaderOK
  <2> QED BY <2>1, <2>2, <2>6
<1> QED BY <1>1, <1>2, <1>3

\* Answering a Close once the stream has ended.
LEMMA Answers ==
    ASSUME NEW s \in ObjectReader, NEW isAdmitted, ReaderOK(s, isAdmitted), s.done, NEW u \in User
    PROVE  Answer(s, u) \in ObjectReader /\ ReaderOK(Answer(s, u), isAdmitted)
<1>1. CASE u # "closing"
  BY <1>1 DEF Answer
<1>2. CASE u = "closing" /\ CloseError(s)
  BY <1>2 DEF Answer, ReaderOK, ObjectReader, CloseError
<1>3. CASE u = "closing" /\ ~CloseError(s)
  BY <1>3 DEF Answer, ReaderOK, ObjectReader, CloseError
<1> QED BY <1>1, <1>2, <1>3

\* Verifying one read says nothing of who is in the stream's methods.
LEMMA ReadVerifies ==
    ASSUME NEW s \in ObjectReader, NEW isAdmitted, ReaderOK(s, isAdmitted),
           NEW left \in 0..Length, NEW whole \in BOOLEAN, s.whole => whole
    PROVE  /\ [s EXCEPT !.left = left, !.whole = whole] \in ObjectReader
           /\ ReaderOK([s EXCEPT !.left = left, !.whole = whole], isAdmitted)
<1> DEFINE t == [s EXCEPT !.left = left, !.whole = whole]
<1>1. t \in ObjectReader
  BY DEF ObjectReader
<1>2. /\ t.in = s.in /\ t.got = s.got /\ t.hook = s.hook /\ t.under = s.under /\ t.closing = s.closing
      /\ t.done = s.done /\ t.primary = s.primary /\ t.clean = s.clean /\ t.whole = whole /\ t.told = s.told
  BY DEF ObjectReader
<1> HIDE DEF t
<1>3. ReaderOK(t, isAdmitted)
  <2>1. CloseError(t) <=> CloseError(s)
    BY <1>2 DEF CloseError
  <2>2. t.primary = "eof" => t.whole
    BY <1>2 DEF ReaderOK
  <2> QED BY <1>2, <2>1, <2>2 DEF ReaderOK
<1> QED BY <1>1, <1>3 DEF t

\* A read that fails while another user ends the stream spoils the end.
LEMMA ReadSpoils ==
    ASSUME NEW s \in ObjectReader, NEW isAdmitted, ReaderOK(s, isAdmitted), NEW u \in User, s.in[u] = "reading"
    PROVE  /\ [s EXCEPT !.in[u] = "waiting", !.clean = FALSE] \in ObjectReader
           /\ ReaderOK([s EXCEPT !.in[u] = "waiting", !.clean = FALSE], isAdmitted)
<1>1. ~s.done /\ s.told = {} /\ s.got \notin {"idle", "opening", "opened", "gone"}
  BY DEF ReaderOK
<1> DEFINE t == [s EXCEPT !.in[u] = "waiting", !.clean = FALSE]
<1>2. t \in ObjectReader
  BY DEF ObjectReader
<1>3. /\ t.in[u] = "waiting" /\ \A w \in User \ {u} : t.in[w] = s.in[w]
      /\ t.got = s.got /\ t.hook = s.hook /\ t.under = s.under /\ t.closing = s.closing /\ t.done = s.done
      /\ t.primary = s.primary /\ t.clean = FALSE /\ t.whole = s.whole /\ t.told = s.told
  BY DEF ObjectReader
<1> HIDE DEF t
<1>4. ReaderOK(t, isAdmitted)
  <2>1. \A w \in User : s.in[w] = t.in[w] \/ t.in[w] = "waiting"
    BY <1>3
  <2>2. \A w, x \in User : t.in[w] \in {"closing", "draining", "releasing"}
                            /\ t.in[x] \in {"closing", "draining", "releasing"} => w = x
    BY <2>1 DEF ReaderOK
  <2>3. t.in["hook"] # "out" => t.hook = "ran"
    BY <1>3 DEF ReaderOK, User
  <2> QED BY <1>1, <1>3, <2>1, <2>2, <2>3 DEF ReaderOK
<1> QED BY <1>2, <1>4 DEF t

\* A read that fails, or reaches the end, begins to end the stream.
LEMMA ReadEnds ==
    ASSUME NEW s \in ObjectReader, NEW isAdmitted, ReaderOK(s, isAdmitted), NEW u \in User, s.in[u] = "reading",
           ~s.closing, NEW v \in {"eof", "error"}, v = "eof" => s.whole
    PROVE  /\ [s EXCEPT !.in[u] = "closing", !.closing = TRUE, !.primary = v] \in ObjectReader
           /\ ReaderOK([s EXCEPT !.in[u] = "closing", !.closing = TRUE, !.primary = v], isAdmitted)
<1>1. /\ ~s.done /\ s.told = {} /\ s.got \notin {"idle", "opening", "opened", "gone"}
      /\ \A w \in User : s.in[w] \notin {"closing", "draining", "releasing"}
      /\ (u = "hook" => s.hook = "ran")
  BY DEF ReaderOK
<1> DEFINE t == [s EXCEPT !.in[u] = "closing", !.closing = TRUE, !.primary = v]
<1>2. t \in ObjectReader
  BY DEF ObjectReader
<1>3. /\ t.in[u] = "closing" /\ \A w \in User \ {u} : t.in[w] = s.in[w]
      /\ t.got = s.got /\ t.hook = s.hook /\ t.under = s.under /\ t.closing = TRUE /\ t.done = s.done
      /\ t.primary = v /\ t.clean = s.clean /\ t.whole = s.whole /\ t.told = s.told
  BY DEF ObjectReader
<1> HIDE DEF t
<1>4. ReaderOK(t, isAdmitted)
  <2>1. \A w, x \in User : t.in[w] \in {"closing", "draining", "releasing"}
                            /\ t.in[x] \in {"closing", "draining", "releasing"} => w = x
    BY <1>1, <1>3
  <2>2. \A w \in User : /\ t.in[w] \in {"closing", "draining", "releasing"} => t.closing
                        /\ t.in[w] = "draining" => t.under = "closed"
                        /\ t.in[w] = "releasing" => t.done
    BY <1>1, <1>3
  <2>3. t.in["hook"] # "out" => t.hook = "ran"
    BY <1>1, <1>3 DEF ReaderOK, User
  <2>4. t.told = {} /\ ~t.done /\ t.got \notin {"idle", "opening", "opened", "gone"} /\ isAdmitted
        /\ (t.primary = "eof" => t.whole)
    BY <1>1, <1>3 DEF ReaderOK
  <2> QED BY <2>1, <2>2, <2>3, <2>4 DEF ReaderOK
<1> QED BY <1>2, <1>4 DEF t

\* The provider's reader is closed by the user who ends the stream.
LEMMA ClosesUnder ==
    ASSUME NEW s \in ObjectReader, NEW isAdmitted, ReaderOK(s, isAdmitted), NEW u \in User, s.in[u] = "closing",
           NEW clean \in BOOLEAN, NEW h \in Hook, s.hook = "ran" => h = "ran"
    PROVE  /\ [s EXCEPT !.in[u] = "draining", !.under = "closed", !.clean = clean, !.hook = h] \in ObjectReader
           /\ ReaderOK([s EXCEPT !.in[u] = "draining", !.under = "closed", !.clean = clean, !.hook = h], isAdmitted)
<1>1. ~s.done /\ s.told = {} /\ s.got \notin {"idle", "opening", "opened", "gone"} /\ s.closing
  BY DEF ReaderOK
<1> DEFINE t == [s EXCEPT !.in[u] = "draining", !.under = "closed", !.clean = clean, !.hook = h]
<1>2. t \in ObjectReader
  BY DEF ObjectReader
<1>3. /\ t.in[u] = "draining" /\ \A w \in User \ {u} : t.in[w] = s.in[w]
      /\ t.got = s.got /\ t.hook = h /\ t.under = "closed" /\ t.closing = s.closing /\ t.done = s.done
      /\ t.primary = s.primary /\ t.clean = clean /\ t.whole = s.whole /\ t.told = s.told
  BY DEF ObjectReader
<1> HIDE DEF t
<1>4. ReaderOK(t, isAdmitted)
  <2>1. \A w, x \in User : t.in[w] \in {"closing", "draining", "releasing"}
                            /\ t.in[x] \in {"closing", "draining", "releasing"} => w = x
    <3>1. \A w \in User : t.in[w] \in {"closing", "draining", "releasing"} => s.in[w] \in {"closing", "draining", "releasing"}
      BY <1>3
    <3> QED BY <3>1 DEF ReaderOK
  <2>2. \A w \in User : t.in[w] # "releasing"
    <3>1. \A w \in User : s.in[w] # "releasing"
      BY <1>1 DEF ReaderOK
    <3> QED BY <1>3, <3>1
  <2>3. t.in["hook"] # "out" => t.hook = "ran"
    BY <1>3 DEF ReaderOK, User
  <2>4. t.told = {} /\ ~t.done /\ t.closing /\ t.got \notin {"idle", "opening", "opened", "gone"} /\ isAdmitted
        /\ (t.primary = "eof" => t.whole)
    BY <1>1, <1>3 DEF ReaderOK
  <2> QED BY <1>3, <2>1, <2>2, <2>3, <2>4 DEF ReaderOK
<1> QED BY <1>2, <1>4 DEF t

\* The stream has ended once nobody reads from it.
LEMMA Completes ==
    ASSUME NEW s \in ObjectReader, NEW isAdmitted, ReaderOK(s, isAdmitted), NEW u \in User, s.in[u] = "draining",
           \A v \in User : s.in[v] # "reading"
    PROVE  /\ [s EXCEPT !.in[u] = "releasing", !.done = TRUE] \in ObjectReader
           /\ ReaderOK([s EXCEPT !.in[u] = "releasing", !.done = TRUE], isAdmitted)
<1>1. /\ s.closing /\ s.under = "closed" /\ s.got \notin {"idle", "opening", "opened", "gone"}
      /\ \A v \in User \ {u} : s.in[v] \notin {"closing", "draining", "releasing"}
      /\ (u = "hook" => s.hook = "ran")
  BY DEF ReaderOK
<1> DEFINE t == [s EXCEPT !.in[u] = "releasing", !.done = TRUE]
<1>2. t \in ObjectReader
  BY DEF ObjectReader
<1>3. /\ t.in[u] = "releasing" /\ \A w \in User \ {u} : t.in[w] = s.in[w]
      /\ t.got = s.got /\ t.hook = s.hook /\ t.under = s.under /\ t.closing = s.closing /\ t.done = TRUE
      /\ t.primary = s.primary /\ t.clean = s.clean /\ t.whole = s.whole /\ t.told = s.told
  BY DEF ObjectReader
<1> HIDE DEF t
<1>4. ReaderOK(t, isAdmitted)
  <2>1. \A w, x \in User : t.in[w] \in {"closing", "draining", "releasing"}
                            /\ t.in[x] \in {"closing", "draining", "releasing"} => w = x
    BY <1>1, <1>3
  <2>2. \A w \in User : t.in[w] \notin {"reading", "closing", "draining"}
    BY <1>1, <1>3
  <2>3. t.in["hook"] # "out" => t.hook = "ran"
    BY <1>1, <1>3 DEF ReaderOK, User
  <2>4. CloseError(t) <=> CloseError(s)
    BY <1>3 DEF CloseError
  <2>5. /\ t.primary = "eof" => t.whole
        /\ "nil" \in t.told => ~CloseError(t)
        /\ "error" \in t.told => CloseError(t)
    BY <1>3, <2>4 DEF ReaderOK
  <2> QED BY <1>1, <1>3, <2>1, <2>2, <2>3, <2>5 DEF ReaderOK
<1> QED BY <1>2, <1>4 DEF t

\* Whoever waited for the end, or made it, leaves, with or without the admission.
LEMMA LeavesEnded ==
    ASSUME NEW s \in ObjectReader, NEW isAdmitted, NEW wasAdmitted, ReaderOK(s, wasAdmitted), s.done, NEW u \in User,
           s.got \notin {"idle", "gone"}
    PROVE  [s EXCEPT !.in[u] = "out"] \in ObjectReader /\ ReaderOK([s EXCEPT !.in[u] = "out"], isAdmitted)
  BY DEF ReaderOK, ObjectReader, CloseError

\* Every step of a stream keeps its invariant, and is its own.
LEMMA ReaderSteps ==
    ASSUME ReadersInv, NEW r \in Reader,
           \/ GetObject(r) \/ ReaderGoesOn(r) \/ CloseReader(r) \/ CancelHook(r) \/ CloseAgain(r)
           \/ \E u \in User : Read(r, u) \/ ReadReturns(r, u) \/ UserGoesOn(r, u)
    PROVE  ReadersInv' /\ OnlyAdmits(r)
<1> DEFINE s == reader[r]
<1>1. s \in ObjectReader /\ ReaderOK(s, r \in admitted)
  BY DEF ReadersInv
<1>2. ASSUME NEW t \in ObjectReader, Turns(r, t), OnlyAdmits(r), ReaderOK(t, r \in admitted')
      PROVE  ReadersInv' /\ OnlyAdmits(r)
  BY <1>2, ReaderTurns
<1>3. CASE GetObject(r)
  BY <1>1, <1>2, <1>3 DEF GetObject, AdmitForeground,
     storeVars, OnlyAdmits, ReaderOK, ObjectReader, CloseError, Hook
<1>4. CASE BlobsGet(r)
  <2>1. CASE Turns(r, [s EXCEPT !.got = "opened", !.under = "open"]) /\ UNCHANGED storeVars
    <3>1. [s EXCEPT !.got = "opened", !.under = "open"] \in ObjectReader
      BY <1>1 DEF ObjectReader
    <3>2. ReaderOK([s EXCEPT !.got = "opened", !.under = "open"], r \in admitted)
      BY <1>1, <1>4 DEF BlobsGet, ReaderOK, ObjectReader, CloseError
    <3> QED BY <1>2, <2>1, <3>1, <3>2 DEF storeVars, OnlyAdmits
  <2>2. CASE Turns(r, [s EXCEPT !.got = "gone"]) /\ ReleaseAdmission(r)
    <3>1. [s EXCEPT !.got = "gone"] \in ObjectReader
      BY <1>1 DEF ObjectReader
    <3>2. ReaderOK([s EXCEPT !.got = "gone"], r \in admitted')
      BY <1>1, <1>4 DEF BlobsGet, ReaderOK, ObjectReader, CloseError
    <3> QED BY <1>2, <2>2, <3>1, <3>2 DEF ReleaseAdmission, OnlyAdmits
  <2> QED BY <1>4, <2>1, <2>2 DEF BlobsGet
<1>5. CASE BindReader(r)
  <2>1. [s EXCEPT !.got = "armed", !.hook = "armed"] \in ObjectReader
    BY <1>1 DEF ObjectReader, Hook
  <2>2. ReaderOK([s EXCEPT !.got = "armed", !.hook = "armed"], r \in admitted)
    BY <1>1, <1>5 DEF BindReader, ReaderOK, ObjectReader, CloseError, User
  <2> QED BY <1>2, <1>5, <2>1, <2>2 DEF BindReader, storeVars, OnlyAdmits
<1>6. CASE PublishReader(r)
  <2>1. PICK h : h = IF s.done THEN StopHook(s.hook) ELSE s.hook
    OBVIOUS
  <2>2. h \in Hook /\ (s.hook = "ran" => h = "ran")
    BY <1>1, <2>1 DEF StopHook, Hook, ObjectReader
  <2>3. [s EXCEPT !.got = "returned", !.published = TRUE, !.hook = h] \in ObjectReader
    BY <1>1, <2>2 DEF ObjectReader
  <2>4. ReaderOK([s EXCEPT !.got = "returned", !.published = TRUE, !.hook = h], r \in admitted)
    BY <1>1, <1>6, <2>2 DEF PublishReader, ReaderOK, ObjectReader, CloseError
  <2>5. Turns(r, [s EXCEPT !.got = "returned", !.published = TRUE, !.hook = h])
    BY <1>6, <2>1 DEF PublishReader
  <2> QED BY <1>2, <1>6, <2>3, <2>4, <2>5 DEF PublishReader, storeVars, OnlyAdmits
<1>7. CASE CloseReader(r)
  BY <1>1, <1>2, <1>7, BeginsTermination DEF CloseReader, storeVars, OnlyAdmits, User
<1>8. CASE CancelHook(r)
  <2>1. PICK t : t = [s EXCEPT !.hook = "ran"]
    OBVIOUS
  <2>2. s.got \notin {"idle", "opening", "opened", "gone"} /\ s.in["hook"] = "out"
    BY <1>1, <1>8 DEF CancelHook, ReaderOK
  <2>3. t \in ObjectReader /\ t.in = s.in /\ t.got = s.got /\ t.hook = "ran"
    BY <1>1, <2>1 DEF ObjectReader, Hook
  <2>4. ReaderOK(t, r \in admitted)
    BY <1>1, <2>1, <2>2 DEF ReaderOK, ObjectReader, CloseError
  <2>5. BeginTermination(t, "hook") \in ObjectReader /\ ReaderOK(BeginTermination(t, "hook"), r \in admitted)
    BY <2>2, <2>3, <2>4, BeginsTermination DEF User
  <2> QED BY <1>2, <1>8, <2>1, <2>5 DEF CancelHook, storeVars, OnlyAdmits
<1>9. CASE CloseAgain(r)
  BY <1>1, <1>2, <1>9, Answers DEF CloseAgain, storeVars, OnlyAdmits, User
<1>10. ASSUME NEW u \in User, Read(r, u) \/ ReadReturns(r, u) \/ UserGoesOn(r, u)
       PROVE  ReadersInv' /\ OnlyAdmits(r)
  <2>1. CASE Read(r, u)
    <3>1. ReadPlace(r, u) \in {"out", "waiting", "turn", "reading"} /\ u # "hook"
      BY <2>1 DEF Read, ReadPlace
    <3>2. PICK place : place = ReadPlace(r, u)
      OBVIOUS
    <3>3. s.got = "returned" /\ ~s.done
      BY <2>1 DEF Read
    <3> QED BY <1>1, <1>2, <2>1, <3>1, <3>2, <3>3, UserMoves DEF Read, storeVars, OnlyAdmits
  <2>3. CASE ReadTurn(r, u)
    <3>1. ReadPlace(r, u) \in {"out", "waiting", "turn", "reading"} /\ (ReadPlace(r, u) = "reading" => ~s.done)
      BY DEF ReadPlace
    <3>2. PICK place : place = ReadPlace(r, u)
      OBVIOUS
    <3>3. s.got \notin {"idle", "opening", "opened", "gone"} /\ (u = "hook" => s.hook = "ran")
      BY <1>1, <2>3 DEF ReadTurn, ReaderOK
    <3> QED BY <1>1, <1>2, <2>3, <3>1, <3>2, <3>3, UserMoves DEF ReadTurn, storeVars, OnlyAdmits
  <2>2. CASE ReadReturns(r, u)
    <3>1. PICK v \in Verdicts(r) :
             LET t == [s EXCEPT !.left = IF v = "data" THEN @ - 1 ELSE @,
                                !.whole = @ \/ (v = "eof" /\ s.body = "exact")]
             IN  Turns(r, IF v = "data" THEN [t EXCEPT !.in[u] = IF t.closing THEN "waiting" ELSE "out"]
                          ELSE IF t.closing THEN [t EXCEPT !.in[u] = "waiting", !.clean = FALSE]
                          ELSE [t EXCEPT !.in[u] = "closing", !.closing = TRUE, !.primary = v])
      BY <2>2 DEF ReadReturns
    <3>2. PICK left \in 0..Length, whole \in BOOLEAN :
             /\ left = (IF v = "data" THEN s.left - 1 ELSE s.left)
             /\ whole = (s.whole \/ (v = "eof" /\ s.body = "exact"))
      <4>1. s.left \in 0..Length /\ s.whole \in BOOLEAN /\ (v = "data" => s.left > 0)
        BY <1>1 DEF ObjectReader, Verdicts
      <4>2. (IF v = "data" THEN s.left - 1 ELSE s.left) \in 0..Length
        BY <4>1, ReaderAssumption
      <4>3. (s.whole \/ (v = "eof" /\ s.body = "exact")) \in BOOLEAN
        OBVIOUS
      <4> QED BY <4>2, <4>3
    <3>3. PICK t : t = [s EXCEPT !.left = left, !.whole = whole]
      OBVIOUS
    <3>4. t \in ObjectReader /\ ReaderOK(t, r \in admitted)
      BY <1>1, <3>2, <3>3, ReadVerifies
    <3>5. t.in = s.in /\ t.done = s.done /\ t.got = s.got /\ t.hook = s.hook /\ t.whole = whole
      BY <1>1, <3>3 DEF ObjectReader
    <3>6. /\ s.in[u] = "reading" /\ ~s.done /\ s.got \notin {"idle", "opening", "opened", "gone"}
          /\ (u = "hook" => s.hook = "ran")
      BY <1>1, <2>2 DEF ReadReturns, ReaderOK
    <3>7. Turns(r, IF v = "data" THEN [t EXCEPT !.in[u] = IF t.closing THEN "waiting" ELSE "out"]
                   ELSE IF t.closing THEN [t EXCEPT !.in[u] = "waiting", !.clean = FALSE]
                   ELSE [t EXCEPT !.in[u] = "closing", !.closing = TRUE, !.primary = v])
      BY <3>1, <3>2, <3>3
    <3>8. OnlyAdmits(r) /\ admitted' = admitted
      BY <2>2 DEF ReadReturns, storeVars, OnlyAdmits
    <3>9. CASE v = "data"
      <4>1. PICK place \in {"waiting", "out"} : place = IF t.closing THEN "waiting" ELSE "out"
        OBVIOUS
      <4>2. [t EXCEPT !.in[u] = place] \in ObjectReader /\ ReaderOK([t EXCEPT !.in[u] = place], r \in admitted)
        BY <3>4, <3>5, <3>6, <4>1, UserMoves
      <4> QED BY <1>2, <3>7, <3>8, <3>9, <4>1, <4>2
    <3>10. CASE v # "data" /\ t.closing
      <4>1. /\ [t EXCEPT !.in[u] = "waiting", !.clean = FALSE] \in ObjectReader
            /\ ReaderOK([t EXCEPT !.in[u] = "waiting", !.clean = FALSE], r \in admitted)
        BY <3>4, <3>5, <3>6, ReadSpoils
      <4> QED BY <1>2, <3>7, <3>8, <3>10, <4>1
    <3>11. CASE v # "data" /\ ~t.closing
      <4>1. v \in {"eof", "error"} /\ (v = "eof" => t.whole)
        BY <3>2, <3>5, <3>11 DEF Verdicts, Verifies
      <4>2. /\ [t EXCEPT !.in[u] = "closing", !.closing = TRUE, !.primary = v] \in ObjectReader
            /\ ReaderOK([t EXCEPT !.in[u] = "closing", !.closing = TRUE, !.primary = v], r \in admitted)
        BY <3>4, <3>5, <3>6, <3>11, <4>1, ReadEnds
      <4> QED BY <1>2, <3>7, <3>8, <3>11, <4>2
    <3> QED BY <3>9, <3>10, <3>11
  <2>4. CASE UnderlyingClose(r, u)
    <3>1. PICK cleanly \in BOOLEAN :
             Turns(r, [s EXCEPT !.in[u] = "draining", !.under = "closed", !.clean = @ /\ cleanly,
                           !.hook = IF s.published THEN StopHook(@) ELSE @])
      BY <2>4 DEF UnderlyingClose
    <3>2. PICK clean \in BOOLEAN, h \in Hook :
             /\ clean = (s.clean /\ cleanly) /\ h = (IF s.published THEN StopHook(s.hook) ELSE s.hook)
             /\ (s.hook = "ran" => h = "ran")
      BY <1>1 DEF ObjectReader, StopHook, Hook
    <3>3. Turns(r, [s EXCEPT !.in[u] = "draining", !.under = "closed", !.clean = clean, !.hook = h])
      BY <3>1, <3>2
    <3>4. /\ [s EXCEPT !.in[u] = "draining", !.under = "closed", !.clean = clean, !.hook = h] \in ObjectReader
          /\ ReaderOK([s EXCEPT !.in[u] = "draining", !.under = "closed", !.clean = clean, !.hook = h], r \in admitted)
      BY <1>1, <2>4, <3>2, ClosesUnder DEF UnderlyingClose
    <3> QED BY <1>2, <2>4, <3>3, <3>4 DEF UnderlyingClose, storeVars, OnlyAdmits
  <2>5. CASE CompleteTermination(r, u)
    <3>1. s.in[u] = "draining" /\ \A v \in User : s.in[v] # "reading"
      BY <2>5 DEF CompleteTermination, Drained, At
    <3>2. /\ [s EXCEPT !.in[u] = "releasing", !.done = TRUE] \in ObjectReader
          /\ ReaderOK([s EXCEPT !.in[u] = "releasing", !.done = TRUE], r \in admitted)
      BY <1>1, <3>1, Completes
    <3> QED BY <1>2, <2>5, <3>2 DEF CompleteTermination, storeVars, OnlyAdmits
  <2>6. CASE ReleaseReader(r, u) \/ WaitTerminal(r, u)
    <3>1. PICK t : t = [s EXCEPT !.in[u] = "out"]
      OBVIOUS
    <3>2. s.done /\ s.got \notin {"idle", "gone"}
      BY <1>1, <2>6 DEF ReleaseReader, WaitTerminal, ReaderOK
    <3>3. t \in ObjectReader /\ ReaderOK(t, r \in admitted') /\ t.done
      BY <1>1, <3>1, <3>2, LeavesEnded DEF ObjectReader
    <3>4. Answer(t, u) \in ObjectReader /\ ReaderOK(Answer(t, u), r \in admitted')
      BY <3>3, Answers
    <3>5. Turns(r, Answer(t, u)) /\ OnlyAdmits(r)
      BY <2>6, <3>1 DEF ReleaseReader, WaitTerminal, ReleaseAdmission, storeVars, OnlyAdmits
    <3> QED BY <1>2, <3>4, <3>5
  <2> QED BY <1>10, <2>1, <2>2, <2>3, <2>4, <2>5, <2>6 DEF UserGoesOn
<1> QED BY <1>3, <1>4, <1>5, <1>6, <1>7, <1>8, <1>9, <1>10 DEF ReaderGoesOn

-----------------------------------------------------------------------------
(* The Store.                                                              *)

\* The provider is closed when nobody is admitted any more.
IInv ==
    /\ closing \in BOOLEAN /\ provider \in {"open", "closing", "closed"}
    /\ admitted \subseteq Grant \cup Writer \cup Reader \cup Put
    /\ provider # "open" => closing /\ admitted = {}
    /\ GrantsInv /\ WritersInv /\ ReadersInv /\ PutsInv

\* A Store begins with nothing admitted.
LEMMA InitHolds == Init => IInv
<1> SUFFICES ASSUME Init PROVE IInv
  OBVIOUS
<1>1. PICK used \in Mix : GrantsInit(used) /\ WritersInit(used) /\ ReadersInit(used) /\ PutsInit(used)
  BY DEF Init
<1>2. closing = FALSE /\ admitted = {} /\ provider = "open"
  BY DEF Init, StoreInit
<1>3. GrantsInv
  BY <1>1 DEF GrantsInit, GrantsInv, GrantOK, ResidencyGrant, Releaser, Hook
<1>4. WritersInv
  BY <1>1 DEF WritersInit, WritersInv, WriterOK, WriterHandle, WriterUser, Hook
<1>5. ReadersInv
  <2>1. PICK body \in [Reader -> Body] :
          reader = [r \in Reader |->
            [got |-> IF r \in used THEN "idle" ELSE "gone", hook |-> "unset", published |-> FALSE,
             body |-> body[r], left |-> Length, under |-> "none",
             closing |-> FALSE, done |-> FALSE, primary |-> "none", clean |-> TRUE,
             whole |-> FALSE, told |-> {}, in |-> [u \in User |-> "out"]]]
    BY <1>1 DEF ReadersInit
  <2>2. ASSUME NEW r \in Reader PROVE reader[r] \in ObjectReader
    <3>1. PICK got \in {"idle", "gone"}, b \in Body : got = (IF r \in used THEN "idle" ELSE "gone") /\ b = body[r]
      OBVIOUS
    <3>2. reader[r] = [got |-> got, hook |-> "unset", published |-> FALSE,
             body |-> b, left |-> Length, under |-> "none",
             closing |-> FALSE, done |-> FALSE, primary |-> "none", clean |-> TRUE,
             whole |-> FALSE, told |-> {}, in |-> [u \in User |-> "out"]]
      BY <2>1, <3>1
    <3>3. Length \in 0..Length /\ {} \subseteq {"nil", "error"}
      BY ReaderAssumption
    <3> QED BY <3>2, <3>3 DEF ObjectReader, Hook
  <2>3. ASSUME NEW r \in Reader PROVE ReaderOK(reader[r], r \in admitted)
    BY <2>1 DEF ReaderOK, User
  <2> QED BY <2>1, <2>2, <2>3 DEF ReadersInv
<1>6. PutsInv
  BY <1>1 DEF PutsInit, PutsInv, PutOK, PutCall, StoredObject, VisibleIsWhole
<1> QED BY <1>2, <1>3, <1>4, <1>5, <1>6 DEF IInv

\* What a step of one holder leaves alone.
LEMMA OthersStand ==
    ASSUME IInv, NEW h \in Grant \cup Writer \cup Reader \cup Put, OnlyAdmits(h)
    PROVE  /\ closing' \in BOOLEAN /\ provider' \in {"open", "closing", "closed"}
           /\ admitted' \subseteq Grant \cup Writer \cup Reader \cup Put
           /\ provider' # "open" => closing' /\ admitted' = {}
           /\ h \notin Grant /\ grant' = grant => GrantsInv'
           /\ h \notin Writer /\ writer' = writer => WritersInv'
           /\ h \notin Reader /\ reader' = reader => ReadersInv'
           /\ h \notin Put /\ puts' = puts /\ objects' = objects => PutsInv'
<1>1. /\ closing' \in BOOLEAN /\ provider' \in {"open", "closing", "closed"}
      /\ admitted' \subseteq Grant \cup Writer \cup Reader \cup Put
      /\ provider' # "open" => closing' /\ admitted' = {}
  BY DEF IInv, OnlyAdmits
<1>2. h \notin Grant /\ grant' = grant => GrantsInv'
  BY DEF IInv, OnlyAdmits, GrantsInv
<1>3. h \notin Writer /\ writer' = writer => WritersInv'
  BY DEF IInv, OnlyAdmits, WritersInv
<1>4. h \notin Reader /\ reader' = reader => ReadersInv'
  BY DEF IInv, OnlyAdmits, ReadersInv
<1>5. h \notin Put /\ puts' = puts /\ objects' = objects => PutsInv'
  <2> SUFFICES ASSUME h \notin Put, puts' = puts, objects' = objects PROVE PutsInv'
    OBVIOUS
  <2>1. \A p \in Put : PutOK(puts[p], p \in admitted)'
    BY DEF IInv, OnlyAdmits, PutsInv, PutOK
  <2> QED BY <2>1 DEF IInv, PutsInv, VisibleIsWhole, Object
<1> QED BY <1>1, <1>2, <1>3, <1>4, <1>5

\* Every step of the Store and of what it admits keeps the invariant.
LEMMA NextKeeps == IInv /\ [Next]_allVars => IInv'
<1> SUFFICES ASSUME IInv, [Next]_allVars PROVE IInv'
  OBVIOUS
<1>1. CASE UNCHANGED allVars
  <2>1. \A p \in Put : PutOK(puts[p], p \in admitted)'
    BY <1>1 DEF allVars, IInv, PutsInv, PutOK
  <2>2. PutsInv'
    BY <1>1, <2>1 DEF allVars, IInv, PutsInv, VisibleIsWhole, Object
  <2> QED BY <1>1, <2>2 DEF allVars, IInv, GrantsInv, WritersInv, ReadersInv
<1>2. CASE StoreNext /\ UNCHANGED <<grant, writer, reader, objects, puts>>
  <2>1. /\ closing' \in BOOLEAN /\ provider' \in {"open", "closing", "closed"} /\ admitted' = admitted
        /\ provider' # "open" => closing' /\ admitted' = {}
    BY <1>2 DEF StoreNext, Close, ActiveWait, ProviderClose, IInv
  <2>2. \A p \in Put : PutOK(puts[p], p \in admitted)'
    BY <1>2, <2>1 DEF IInv, PutsInv, PutOK
  <2>3. PutsInv'
    BY <1>2, <2>2 DEF IInv, PutsInv, VisibleIsWhole, Object
  <2> QED BY <1>2, <2>1, <2>3 DEF IInv, GrantsInv, WritersInv, ReadersInv
<1>3. CASE GrantsNext /\ UNCHANGED <<writer, reader, objects, puts>>
  <2>1. PICK g \in Grant : GrantsInv' /\ OnlyAdmits(g)
    BY <1>3, GrantSteps DEF GrantsNext, IInv
  <2> QED BY <1>3, <2>1, OthersStand, HolderAssumption DEF IInv
<1>4. CASE WritersNext /\ UNCHANGED <<grant, reader, objects, puts>>
  <2>1. PICK w \in Writer : WritersInv' /\ OnlyAdmits(w)
    BY <1>4, WriterSteps DEF WritersNext, IInv
  <2> QED BY <1>4, <2>1, OthersStand, HolderAssumption DEF IInv
<1>5. CASE ReadersNext /\ UNCHANGED <<grant, writer, objects, puts>>
  <2>1. PICK r \in Reader : ReadersInv' /\ OnlyAdmits(r)
    BY <1>5, ReaderSteps DEF ReadersNext, IInv
  <2> QED BY <1>5, <2>1, OthersStand, HolderAssumption DEF IInv
<1>6. CASE PutsNext /\ UNCHANGED <<grant, writer, reader>>
  <2>1. PICK p \in Put : PutsInv' /\ OnlyAdmits(p)
    BY <1>6, PutSteps DEF PutsNext, IInv
  <2> QED BY <1>6, <2>1, OthersStand, HolderAssumption DEF IInv
<1> QED BY <1>1, <1>2, <1>3, <1>4, <1>5, <1>6 DEF Next

\* The invariant, of every behaviour.
LEMMA Invariant == Spec => []IInv
  BY InitHolds, NextKeeps, PTL DEF Spec

\* Records stay well formed, whoever races with the shutdown.
THEOREM TypeCorrect == Spec => []TypeOK
<1>1. IInv => TypeOK
  BY DEF IInv, TypeOK, GrantsInv, WritersInv, ReadersInv, PutsInv
<1> QED BY <1>1, Invariant, PTL

\* No lease, stream, append or call is left in the provider's hands when the
\* Store closes it, for any number of holders.
THEOREM ProviderOutlives == Spec => []ProviderOutlivesItsUse
<1>1. IInv => ProviderOutlivesItsUse
  <2> SUFFICES ASSUME IInv, provider # "open" PROVE ProviderOutlivesItsUse
    BY DEF ProviderOutlivesItsUse
  <2>1. admitted = {}
    BY DEF IInv
  <2>2. ASSUME NEW g \in Grant PROVE ~GrantUsesProvider(g)
    <3>1. grant[g] \in ResidencyGrant /\ GrantOK(grant[g], g \in admitted) /\ g \notin admitted
      BY <2>1 DEF IInv, GrantsInv
    <3> QED BY <3>1 DEF GrantUsesProvider, GrantOK, InRelease, ResidencyGrant
  <2>3. ASSUME NEW w \in Writer PROVE ~WriterUsesProvider(w)
    <3>1. writer[w] \in WriterHandle /\ WriterOK(writer[w], w \in admitted) /\ w \notin admitted
      BY <2>1 DEF IInv, WritersInv
    <3> QED BY <3>1 DEF WriterUsesProvider, WriterOK, Unlocked
  <2>4. ASSUME NEW r \in Reader PROVE ~ReaderUsesProvider(r)
    <3>1. reader[r] \in ObjectReader /\ ReaderOK(reader[r], r \in admitted) /\ r \notin admitted
      BY <2>1 DEF IInv, ReadersInv
    <3> QED BY <3>1 DEF ReaderUsesProvider, ReaderOK, At
  <2>5. ASSUME NEW p \in Put PROVE ~PutUsesProvider(p)
    BY <2>1 DEF IInv, PutsInv, PutOK, PutUsesProvider
  <2> QED BY <2>2, <2>3, <2>4, <2>5 DEF ProviderOutlivesItsUse
<1> QED BY <1>1, Invariant, PTL

\* One caller at a time releases a lease, and none after it was released,
\* though the acquirer, the holder and the shutdown hook all may.
THEOREM ReleasedOnce == Spec => []LeaseReleasedOnce
<1>1. IInv => LeaseReleasedOnce
  <2> SUFFICES ASSUME IInv, NEW g \in Grant
               PROVE  /\ Cardinality(InRelease(g, "provider")) <= 1
                      /\ grant[g].released => InRelease(g, "provider") = {}
    BY DEF LeaseReleasedOnce
  <2>1. GrantOK(grant[g], g \in admitted)
    BY DEF IInv, GrantsInv
  <2>2. \A c, d \in InRelease(g, "provider") : c = d
    BY <2>1 DEF GrantOK, InRelease
  <2>3. Cardinality(InRelease(g, "provider")) <= 1
    BY <2>2, AtMostOne
  <2> QED BY <2>1, <2>3 DEF GrantOK, InRelease
<1> QED BY <1>1, Invariant, PTL

\* An object that can be found is whole, and so is what a stream ended
\* without complaint on, whatever the provider damaged, failed or hid.
THEOREM WholeObjects == Spec => []ObjectsAreWhole
<1>1. IInv => ObjectsAreWhole
  <2> SUFFICES ASSUME IInv PROVE NilCloseMeansWhole
    BY DEF ObjectsAreWhole, IInv, PutsInv
  <2> SUFFICES ASSUME NEW r \in Reader
               PROVE  /\ "nil" \in reader[r].told => reader[r].whole
                      /\ Cardinality(reader[r].told) <= 1
    BY DEF NilCloseMeansWhole
  <2>1. reader[r] \in ObjectReader /\ ReaderOK(reader[r], r \in admitted)
    BY DEF IInv, ReadersInv
  <2>2. reader[r].told \subseteq {"nil", "error"}
    BY <2>1 DEF ObjectReader
  <2>3. \A x, y \in reader[r].told : x = y
    BY <2>1, <2>2 DEF ReaderOK
  <2>4. Cardinality(reader[r].told) <= 1
    BY <2>3, AtMostOne
  <2> QED BY <2>1, <2>4 DEF ReaderOK, CloseError
<1> QED BY <1>1, Invariant, PTL
-----------------------------------------------------------------------------
(* The admissions alone: what a Store promises whoever it admits, and that  *)
(* grants, writers, streams and puts keep to it.                           *)

Holder == Grant \cup Writer \cup Reader \cup Put

LifecycleNext == StoreNext \/ \E h \in Holder : AdmitForeground(h) \/ ReleaseAdmission(h)
LifecycleSpec == StoreInit /\ [][LifecycleNext]_storeVars

\* Once Close is called nothing is admitted and nothing reopens; the provider
\* is closed when the last admission has been released, and in two steps.
OnlyDrains ==
    /\ closing => closing' /\ admitted' \subseteq admitted
    /\ provider' # provider =>
          /\ closing /\ admitted = {}
          /\ <<provider, provider'>> \in {<<"open", "closing">>, <<"closing", "closed">>}

\* What one holder does to the Store is to be admitted, or to be released.
LEMMA HolderIsAdmittedOrReleased ==
    ASSUME IInv, NEW h \in Holder, OnlyAdmits(h)
    PROVE  UNCHANGED storeVars \/ AdmitForeground(h) \/ ReleaseAdmission(h)
<1>1. closing' = closing /\ provider' = provider /\ \A k : k # h => (k \in admitted' <=> k \in admitted)
  BY DEF OnlyAdmits
<1>2. CASE h \notin admitted'
  <2>1. admitted' = admitted \ {h}
    BY <1>1, <1>2
  <2> QED BY <1>1, <2>1 DEF ReleaseAdmission
<1>3. CASE h \in admitted' /\ h \in admitted
  <2>1. admitted' = admitted
    BY <1>1, <1>3
  <2> QED BY <1>1, <2>1 DEF storeVars
<1>4. CASE h \in admitted' /\ h \notin admitted
  <2>1. admitted' = admitted \cup {h}
    BY <1>1, <1>4
  <2>2. ~closing
    BY <1>4 DEF OnlyAdmits
  <2> QED BY <1>1, <2>1, <2>2 DEF AdmitForeground
<1> QED BY <1>2, <1>3, <1>4

\* Each step of the whole is a step of the admissions, or none.
LEMMA StepsOfTheStore ==
    ASSUME IInv, [Next]_allVars
    PROVE  [LifecycleNext]_storeVars
<1>1. CASE UNCHANGED allVars
  BY <1>1 DEF allVars, storeVars
<1>2. CASE StoreNext
  BY <1>2 DEF LifecycleNext
<1>3. ASSUME NEW h \in Holder, OnlyAdmits(h) PROVE [LifecycleNext]_storeVars
  BY <1>3, HolderIsAdmittedOrReleased DEF LifecycleNext
<1>4. CASE GrantsNext
  <2>1. PICK g \in Grant : OnlyAdmits(g)
    BY <1>4, GrantSteps DEF GrantsNext, IInv
  <2> QED BY <1>3, <2>1 DEF Holder
<1>5. CASE WritersNext
  <2>1. PICK w \in Writer : OnlyAdmits(w)
    BY <1>5, WriterSteps DEF WritersNext, IInv
  <2> QED BY <1>3, <2>1 DEF Holder
<1>6. CASE ReadersNext
  <2>1. PICK r \in Reader : OnlyAdmits(r)
    BY <1>6, ReaderSteps DEF ReadersNext, IInv
  <2> QED BY <1>3, <2>1 DEF Holder
<1>7. CASE PutsNext
  <2>1. PICK p \in Put : OnlyAdmits(p)
    BY <1>7, PutSteps DEF PutsNext, IInv
  <2> QED BY <1>3, <2>1 DEF Holder
<1> QED BY <1>1, <1>2, <1>4, <1>5, <1>6, <1>7 DEF Next

LEMMA StepsDrain ==
    ASSUME IInv, [LifecycleNext]_storeVars
    PROVE  OnlyDrains
<1>1. CASE UNCHANGED storeVars
  BY <1>1 DEF storeVars, OnlyDrains
<1>2. CASE Close
  BY <1>2 DEF Close, OnlyDrains
<1>3. CASE ActiveWait \/ ProviderClose
  BY <1>3 DEF ActiveWait, ProviderClose, OnlyDrains, IInv
<1>4. ASSUME NEW h, AdmitForeground(h) \/ ReleaseAdmission(h) PROVE OnlyDrains
  BY <1>4 DEF AdmitForeground, ReleaseAdmission, OnlyDrains
<1> QED BY <1>1, <1>2, <1>3, <1>4 DEF LifecycleNext, StoreNext

\* Grants, writers, streams and puts, whatever they race for, touch the Store
\* as its operations allow: one holder is admitted or released at a time, none
\* once Close was called.  (admitForeground, releaseAdmission, Close.)
THEOREM HoldersImplementLifecycle == Spec => LifecycleSpec
<1>1. Init => StoreInit
  BY DEF Init
<1> QED BY <1>1, Invariant, StepsOfTheStore, PTL DEF Spec, LifecycleSpec

\* The safety half of "Close ends": each step after Close leaves the same
\* admissions or fewer, and only their end lets the provider be closed.
THEOREM ShutdownOnlyDrains == Spec => [][OnlyDrains]_allVars
  BY Invariant, StepsOfTheStore, StepsDrain, PTL DEF Spec
=============================================================================
