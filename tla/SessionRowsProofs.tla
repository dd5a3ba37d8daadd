------------------------- MODULE SessionRowsProofs -------------------------
(***************************************************************************)
(* What callers of a session's rows may rely on, for any number of marks,   *)
(* orders, replicas, requests, launches, calls in flight and any skew.  The *)
(* properties say nothing of writes in flight, so none is inductive; the    *)
(* invariant of each part adds what a write rests on that is still current, *)
(* that is, whose row nobody has written since it was decided.              *)
(***************************************************************************)
EXTENDS SessionRows, SequenceTheorems, WellFoundedInduction, TLAPS

-----------------------------------------------------------------------------
(* A behaviour keeps the part it began with.                               *)

\* No action adds a row or a thing to tell.
LEMMA PartsStand ==
    ASSUME Next
    PROVE  DOMAIN rows' = DOMAIN rows /\ DOMAIN told' = DOMAIN told
<1>1. ASSUME FencedNext PROVE DOMAIN rows' = DOMAIN rows /\ DOMAIN told' = DOMAIN told
  BY <1>1 DEF FencedNext, PutHostRegistration, ClearHostRegistration, ClearSessionPointer, Clear,
     SetSessionPointer, SaveDispositionCommandCursor, GetHostRegistration, GetSessionPointer,
     LoadDispositionCommandCursor, Show, Write, Offer, OfferAt, Commit, Land, Tell, Lose
<1>2. ASSUME ConsumptionNext PROVE DOMAIN rows' = DOMAIN rows /\ DOMAIN told' = DOMAIN told
  BY <1>2 DEF ConsumptionNext, AcceptCommand, Damage, StartConsuming, SaveConsumed,
     SaveDispositionCommandCursor, ListSessionDispositionCommands, Write, Offer, OfferAt, Commit, Land,
     Tell, Lose
<1>3. ASSUME ClaimNext PROVE DOMAIN rows' = DOMAIN rows /\ DOMAIN told' = DOMAIN told
  BY <1>3 DEF ClaimNext, Tick, AcquireReconciliationClaim, ReleaseReconciliationClaim,
     GetReconciliationClaim, ClaimCommit, Offer, OfferAt, Land, Lose
<1>4. ASSUME PlacementNext PROVE DOMAIN rows' = DOMAIN rows /\ DOMAIN told' = DOMAIN told
  BY <1>4 DEF PlacementNext, CreateCatalogEntry, UpdateCatalogHostState, UpdateCatalogDesiredState,
     RecordPlacementTermination, GetPlacementTermination, PlacementCommit, Offer, OfferAt, Land, Lose
<1>5. ASSUME CreateNext PROVE DOMAIN rows' = DOMAIN rows /\ DOMAIN told' = DOMAIN told
  BY <1>5 DEF CreateNext, Reserve, PreparePublicCreate, AdmitPublicCreate, CreatePlainCatalogEntry,
     AdmitPlain, CreateCommit, OfferAt, Land, Lose
<1> QED BY <1>1, <1>2, <1>3, <1>4, <1>5 DEF Next

\* The parts exclude each other.
LEMMA OnePart ==
    /\ FencedPart => ~ConsumptionPart /\ ~ClaimPart /\ ~PlacementPart /\ ~CreatePart
    /\ ConsumptionPart => ~FencedPart /\ ~ClaimPart /\ ~PlacementPart /\ ~CreatePart
    /\ ClaimPart => ~FencedPart /\ ~ConsumptionPart /\ ~PlacementPart /\ ~CreatePart
    /\ PlacementPart => ~FencedPart /\ ~ConsumptionPart /\ ~ClaimPart /\ ~CreatePart
    /\ CreatePart => ~FencedPart /\ ~ConsumptionPart /\ ~ClaimPart /\ ~PlacementPart
  BY DEF FencedPart, FencedKind, ConsumptionPart, ClaimPart, PlacementPart, CreatePart

\* So a step of a behaviour with some part is a step of that part.
LEMMA PartSteps ==
    ASSUME [Next]_vars
    PROVE  /\ FencedPart' = FencedPart /\ (FencedPart => [FencedNext]_vars)
           /\ ConsumptionPart' = ConsumptionPart /\ (ConsumptionPart => [ConsumptionNext]_vars)
           /\ ClaimPart' = ClaimPart /\ (ClaimPart => [ClaimNext]_vars)
           /\ PlacementPart' = PlacementPart /\ (PlacementPart => [PlacementNext]_vars)
           /\ CreatePart' = CreatePart /\ (CreatePart => [CreateNext]_vars)
<1>1. DOMAIN rows' = DOMAIN rows /\ DOMAIN told' = DOMAIN told
  BY PartsStand DEF vars
<1>2. FencedPart' = FencedPart /\ ConsumptionPart' = ConsumptionPart /\ ClaimPart' = ClaimPart
        /\ PlacementPart' = PlacementPart /\ CreatePart' = CreatePart
  BY <1>1 DEF FencedPart, ConsumptionPart, ClaimPart, PlacementPart, CreatePart
<1> QED BY <1>2, OnePart DEF Next

-----------------------------------------------------------------------------
(* Fenced rows.                                                            *)

\* A current write is at least as new as what it replaces, and what was told is
\* in the row.
FencedInv ==
    /\ FencedTypeOK
    /\ \E kind \in FencedKind : DOMAIN rows = {kind}
    /\ \A w \in calls : w.rev \in Nat /\ w.rev < MaxRev
    /\ \A w \in calls : Current(w) /\ Found(w.id) =>
          Record(w.id).mark <= w.rec.mark /\ Record(w.id).order <= w.rec.order
    /\ told.mark = 0 => told.order = 0
    /\ told.mark # 0 =>
          \A i \in DOMAIN rows : Found(i) /\ told.mark <= Record(i).mark /\ told.order <= Record(i).order

\* A record of any of the rows has a mark and an order.
LEMMA FencedRecordType ==
    ASSUME NEW i \in FencedKind, NEW r \in FencedRecord[i]
    PROVE  r.mark \in Mark /\ r.mark \in Nat /\ r.mark # 0 /\ r.order \in Order /\ r.order \in Nat
<1>1. r \in HostRegistration \/ r \in SessionPointer \/ r \in DispositionCommandCursor
  BY DEF FencedKind, FencedRecord
<1>2. r.mark \in Mark /\ r.order \in Order
  <2>1. r \in HostRegistration => r.mark \in Mark /\ r.order \in Order
    BY FencedAssumption DEF HostRegistration, Order
  <2>2. r \in SessionPointer => r.mark \in Mark /\ r.order \in Order
    BY DEF SessionPointer
  <2>3. r \in DispositionCommandCursor => r.mark \in Mark /\ r.order \in Order
    BY DEF DispositionCommandCursor
  <2> QED BY <1>1, <2>1, <2>2, <2>3
<1> QED BY <1>2, FencedAssumption DEF Mark, Order

\* An offered write satisfies the invariant when it is at least as new as its row.
LEMMA OfferKeepsFencedInv ==
    ASSUME FencedInv, NEW i \in DOMAIN rows, NEW rec \in FencedRecord[i], Write(i, rec),
           Found(i) => Record(i).mark <= rec.mark /\ Record(i).order <= rec.order
    PROVE  FencedInv'
<1> DEFINE w == [id |-> i, rev |-> rows[i].rev, rec |-> rec]
<1>1. calls' = calls \cup {w} /\ rows' = rows /\ now' = now /\ told' = told
  BY DEF Write, Offer, OfferAt
<1>2. rows[i].rev <= rows[i].rev
  BY DEF FencedInv, FencedTypeOK, IndexTypeOK
<1>3. IndexTypeOK' /\ (\A v \in calls' : v.rec \in FencedRecord[v.id])
  BY <1>1, <1>2 DEF FencedInv, FencedTypeOK, IndexTypeOK, Found
<1>4. FencedTypeOK'
  BY <1>1, <1>3 DEF FencedInv, FencedTypeOK, Found, Record
<1>5. \A v \in calls' : (Current(v) /\ Found(v.id))' =>
          Record(v.id)'.mark <= v.rec.mark /\ Record(v.id)'.order <= v.rec.order
  BY <1>1 DEF FencedInv, Current, Found, Record
<1>6. \A v \in calls' : v.rev \in Nat /\ v.rev < MaxRev
  BY <1>1, IndexAssumption DEF FencedInv, FencedTypeOK, IndexTypeOK, Write, Offer, OfferAt
<1> QED BY <1>1, <1>4, <1>5, <1>6 DEF FencedInv, Found, Record

\* Telling raises either number to what is told.
LEMMA TellRaises ==
    ASSUME FencedInv, NEW mark \in Mark, NEW order \in Order, Tell(mark, order)
    PROVE  /\ told' \in [mark : 0..MaxMark, order : Order] /\ told'.mark # 0
           /\ told'.mark = Highest(told.mark, mark) /\ told'.order = Highest(told.order, order)
<1>1. told \in [mark : 0..MaxMark, order : 0..MaxOrder]
  BY DEF FencedInv, FencedTypeOK, Order
<1>2. told'.mark = Highest(told.mark, mark) /\ told'.order = Highest(told.order, order)
  BY <1>1 DEF Tell
<1>3. told' = [mark |-> Highest(told.mark, mark), order |-> Highest(told.order, order)]
  BY <1>1 DEF Tell
<1>4. Highest(told.mark, mark) \in 0..MaxMark /\ Highest(told.mark, mark) # 0
        /\ Highest(told.order, order) \in 0..MaxOrder
  BY <1>1, FencedAssumption DEF Highest, Mark, Order
<1> QED BY <1>2, <1>3, <1>4 DEF Order

\* What a caller is told is told in full, and is in the row.
LEMMA TellKeepsFencedInv ==
    ASSUME FencedInv, NEW i \in DOMAIN rows, Found(i), NEW mark \in Mark, NEW order \in Order,
           mark <= Record(i).mark, order <= Record(i).order,
           Tell(mark, order), UNCHANGED <<rows, calls, now>>
    PROVE  FencedInv'
<1>1. told' \in [mark : 0..MaxMark, order : Order] /\ told'.mark # 0
        /\ told'.mark = Highest(told.mark, mark) /\ told'.order = Highest(told.order, order)
  BY TellRaises
<1>2. Record(i).mark \in Nat /\ Record(i).order \in Nat
  BY FencedRecordType DEF FencedInv, FencedTypeOK
<1>3. told'.mark <= Record(i).mark /\ told'.order <= Record(i).order
  BY <1>1, <1>2 DEF FencedInv, FencedTypeOK, Highest, Order, Mark
<1>4. \A j \in DOMAIN rows : Found(j) /\ told'.mark <= Record(j).mark /\ told'.order <= Record(j).order
  BY <1>3 DEF FencedInv
<1>5. FencedTypeOK'
  BY <1>1 DEF FencedInv, FencedTypeOK, IndexTypeOK, Found, Record
<1> QED BY <1>1, <1>4, <1>5 DEF FencedInv, Found, Record, Current

\* A write that lands was current: it is at least as new as all that was told.
LEMMA CommitKeepsFencedInv ==
    ASSUME FencedInv, NEW w \in calls, Commit(w)
    PROVE  FencedInv'
<1> DEFINE i == w.id
<1>1. /\ i \in DOMAIN rows /\ DOMAIN rows = {i} /\ i \in FencedKind
      /\ w.rec \in FencedRecord[i] /\ rows[i].rev = w.rev /\ rows[i].rev \in Nat
  BY IndexAssumption DEF FencedInv, FencedTypeOK, IndexTypeOK, Commit, Land, Current
<1>2. w.rec.mark \in Mark /\ w.rec.mark \in Nat /\ w.rec.mark # 0 /\ w.rec.order \in Order /\ w.rec.order \in Nat
  BY <1>1, FencedRecordType
<1>3. /\ rows' = [rows EXCEPT ![i] = [rev |-> rows[i].rev + 1, rec |-> w.rec]]
      /\ calls' = calls \ {w} /\ now' = now
  BY DEF Commit, Land
<1>4. DOMAIN rows' = {i} /\ Found(i)' /\ Record(i)' = w.rec /\ rows'[i].rev = rows[i].rev + 1
  BY <1>1, <1>3 DEF Found, Record
<1>5. told.mark \in 0..MaxMark /\ told.order \in Order /\ told.mark \in Nat /\ told.order \in Nat
  BY FencedAssumption DEF FencedInv, FencedTypeOK, Order
<1>6. told.mark <= w.rec.mark /\ told.order <= w.rec.order
  <2>1. CASE told.mark = 0
    BY <2>1, <1>2, <1>5 DEF FencedInv
  <2>2. CASE told.mark # 0
    <3>1. Found(i) /\ told.mark <= Record(i).mark /\ told.order <= Record(i).order
      BY <2>2, <1>1 DEF FencedInv
    <3>2. Record(i).mark \in Nat /\ Record(i).order \in Nat
      BY <1>1, <3>1, FencedRecordType DEF FencedInv, FencedTypeOK
    <3>3. Record(i).mark <= w.rec.mark /\ Record(i).order <= w.rec.order
      BY <1>1, <3>1 DEF FencedInv, Current
    <3> QED BY <3>1, <3>2, <3>3, <1>2, <1>5
  <2> QED BY <2>1, <2>2
<1>7. /\ told' \in [mark : 0..MaxMark, order : Order]
      /\ told'.mark = 0 => told'.order = 0
      /\ told'.mark <= w.rec.mark /\ told'.order <= w.rec.order
  <2>1. CASE Tell(w.rec.mark, w.rec.order)
    <3>1. /\ told' \in [mark : 0..MaxMark, order : Order] /\ told'.mark # 0
          /\ told'.mark = Highest(told.mark, w.rec.mark) /\ told'.order = Highest(told.order, w.rec.order)
      BY <2>1, <1>2, TellRaises
    <3> QED BY <3>1, <1>2, <1>5, <1>6 DEF Highest
  <2>2. CASE UNCHANGED told
    BY <2>2, <1>6 DEF FencedInv, FencedTypeOK
  <2> QED BY <2>1, <2>2 DEF Commit
<1>8. \A v \in calls' : v.id = i /\ v.rev <= rows[i].rev
  BY <1>1, <1>3 DEF FencedInv, FencedTypeOK, IndexTypeOK
<1>9. FencedTypeOK'
  <2>1. rows[i].rev + 1 \in 0..MaxRev
    BY <1>1, IndexAssumption DEF FencedInv
  <2>2. \A v \in calls' : v.id \in DOMAIN rows' /\ v.rev <= rows'[v.id].rev
    BY <1>1, <1>3, <1>4, <1>8 DEF FencedInv
  <2>3. IndexTypeOK'
    BY <1>1, <1>3, <1>4, <2>1, <2>2 DEF IndexTypeOK, Found, FencedInv, FencedTypeOK
  <2>4. \A v \in calls' : v.rec \in FencedRecord[v.id]
    BY <1>3 DEF FencedInv, FencedTypeOK
  <2> QED BY <1>1, <1>4, <1>7, <2>3, <2>4 DEF FencedTypeOK
<1>10. \A v \in calls' : ~Current(v)' /\ v.rev \in Nat /\ v.rev < MaxRev
  BY <1>1, <1>3, <1>4, <1>8 DEF Current, FencedInv
<1>11. \A j \in DOMAIN rows' : Found(j)' /\ told'.mark <= Record(j)'.mark /\ told'.order <= Record(j)'.order
  BY <1>4, <1>7
<1> QED BY <1>1, <1>4, <1>7, <1>9, <1>10, <1>11 DEF FencedInv

\* A write that never lands rests on nothing.
LEMMA LoseKeepsFencedInv ==
    ASSUME FencedInv, NEW w \in calls, Lose(w)
    PROVE  FencedInv'
  BY DEF FencedInv, FencedTypeOK, IndexTypeOK, Lose, Current, Found, Record

\* Every step of a fenced row keeps its invariant.
LEMMA FencedStep ==
    ASSUME FencedInv, [FencedNext]_vars
    PROVE  FencedInv'
<1>1. CASE UNCHANGED vars
  BY <1>1 DEF FencedInv, FencedTypeOK, IndexTypeOK, vars, Current, Found, Record
<1>2. ASSUME NEW i \in DOMAIN rows, Found(i)
      PROVE  Record(i).mark \in Mark /\ Record(i).mark \in Nat /\ Record(i).mark # 0
               /\ Record(i).order \in Order /\ Record(i).order \in Nat
  BY <1>2, FencedRecordType DEF FencedInv, FencedTypeOK
<1>3. ASSUME NEW mark \in Mark, PutHostRegistration(mark)
      PROVE  FencedInv'
  <2> DEFINE rec == [mark |-> mark, order |-> 0, live |-> TRUE]
  <2>1. "registration" \in DOMAIN rows /\ Write("registration", rec)
    BY <1>3 DEF PutHostRegistration, Has
  <2>2. rec \in FencedRecord["registration"]
    BY DEF FencedRecord, HostRegistration
  <2>3. Found("registration") => Record("registration").mark <= rec.mark /\ Record("registration").order <= rec.order
    <3>1. FencedRecord["registration"] = HostRegistration
      BY DEF FencedRecord
    <3>2. Found("registration") => Record("registration") \in HostRegistration
      BY <2>1, <3>1 DEF FencedInv, FencedTypeOK
    <3>3. Found("registration") => Record("registration").order = 0
      BY <3>2 DEF HostRegistration
    <3> QED BY <1>3, <3>3 DEF PutHostRegistration, EpochFence
  <2> QED BY <2>1, <2>2, <2>3, OfferKeepsFencedInv
<1>4. ASSUME NEW i \in {"registration", "pointer"}, NEW mark \in Mark, Clear(i, mark)
      PROVE  FencedInv'
  <2> DEFINE rec == [mark |-> mark, order |-> Record(i).order, live |-> FALSE]
  <2>1. i \in DOMAIN rows /\ Found(i) /\ Record(i).mark <= mark
    BY <1>4 DEF Clear, Has, EpochFence
  <2>2. CASE AlreadyCleared(i, mark)
    <3>1. Tell(mark, Record(i).order) /\ UNCHANGED <<rows, calls, now>> /\ mark = Record(i).mark
      BY <1>4, <2>2 DEF Clear, AlreadyCleared
    <3> QED BY <2>1, <3>1, <1>2, TellKeepsFencedInv
  <2>3. CASE ~AlreadyCleared(i, mark)
    <3>1. Write(i, rec)
      BY <1>4, <2>3 DEF Clear
    <3>2. Record(i) \in FencedRecord[i]
      BY <2>1 DEF FencedInv, FencedTypeOK
    <3>3. rec \in FencedRecord[i]
      <4>1. CASE i = "registration"
        <5>1. Record(i) \in HostRegistration
          BY <3>2, <4>1 DEF FencedRecord
        <5>2. rec \in HostRegistration
          BY <5>1 DEF HostRegistration
        <5> QED BY <4>1, <5>2 DEF FencedRecord
      <4>2. CASE i = "pointer"
        <5>1. Record(i) \in SessionPointer
          BY <3>2, <4>2 DEF FencedRecord
        <5>2. rec \in SessionPointer
          BY <5>1 DEF SessionPointer
        <5> QED BY <4>2, <5>2 DEF FencedRecord
      <4> QED BY <4>1, <4>2
    <3>4. Record(i).order <= rec.order
      BY <2>1, <1>2
    <3> QED BY <2>1, <3>1, <3>3, <3>4, OfferKeepsFencedInv
  <2> QED BY <2>2, <2>3
<1>5. ASSUME NEW mark \in Mark, NEW order \in Order, SetSessionPointer(mark, order)
      PROVE  FencedInv'
  <2> DEFINE rec == [mark |-> mark, order |-> order, live |-> TRUE]
  <2>1. "pointer" \in DOMAIN rows /\ Write("pointer", rec)
    BY <1>5 DEF SetSessionPointer, Has
  <2>2. rec \in FencedRecord["pointer"]
    BY DEF FencedRecord, SessionPointer
  <2>3. Found("pointer") => Record("pointer").mark <= rec.mark /\ Record("pointer").order <= rec.order
    BY <1>5 DEF SetSessionPointer, EpochFence, SequenceFence
  <2> QED BY <2>1, <2>2, <2>3, OfferKeepsFencedInv
<1>6. ASSUME NEW mark \in Mark, NEW order \in Order, SaveDispositionCommandCursor(mark, order)
      PROVE  FencedInv'
  <2> DEFINE rec == [mark |-> mark, order |-> order, live |-> TRUE]
  <2>1. "cursor" \in DOMAIN rows /\ Write("cursor", rec) /\ order # 0
    BY <1>6 DEF SaveDispositionCommandCursor, Has
  <2>2. rec \in FencedRecord["cursor"]
    BY <2>1 DEF FencedRecord, DispositionCommandCursor
  <2>3. Found("cursor") => Record("cursor").mark <= rec.mark /\ Record("cursor").order <= rec.order
    BY <1>6 DEF SaveDispositionCommandCursor, EpochFence, OrderFence
  <2> QED BY <2>1, <2>2, <2>3, OfferKeepsFencedInv
<1>7. ASSUME NEW i \in FencedKind, Show(i)
      PROVE  FencedInv'
  <2>1. i \in DOMAIN rows /\ Found(i) /\ Tell(Record(i).mark, Record(i).order) /\ UNCHANGED <<rows, calls, now>>
    BY <1>7 DEF Show, Has
  <2> QED BY <2>1, <1>2, TellKeepsFencedInv
<1> QED BY <1>1, <1>3, <1>4, <1>5, <1>6, <1>7, CommitKeepsFencedInv, LoseKeepsFencedInv
        DEF FencedNext, ClearHostRegistration, ClearSessionPointer, GetHostRegistration, GetSessionPointer,
            LoadDispositionCommandCursor, FencedKind

\* A fenced row begins with its invariant.
LEMMA FencedStart == ASSUME FencedInit PROVE FencedPart /\ FencedInv
<1>1. PICK kind \in FencedKind : rows = [i \in {kind} |-> Absent]
  BY DEF FencedInit
<1>2. DOMAIN rows = {kind} /\ rows[kind] = Absent /\ ~Found(kind) /\ calls = {}
  BY <1>1 DEF FencedInit, Found, Absent
<1>3. IndexTypeOK
  BY <1>2, IndexAssumption DEF FencedInit, IndexTypeOK, Absent
<1>4. told = [mark |-> 0, order |-> 0] /\ told \in [mark : 0..MaxMark, order : Order]
  BY FencedAssumption DEF FencedInit, Order
<1>5. FencedTypeOK
  BY <1>2, <1>3, <1>4 DEF FencedTypeOK
<1> QED BY <1>2, <1>4, <1>5 DEF FencedInv, FencedPart

-----------------------------------------------------------------------------
(* Consumption.                                                            *)

\* A set of numbers has a least one.
LEMMA NatWellOrdered ==
    ASSUME NEW T \in SUBSET Nat, T # {}
    PROVE  \E x \in T : \A y \in T : x <= y
<1> DEFINE Less == {p \in Nat \X Nat : p[1] < p[2]}
<1>1. IsWellFoundedOn(Less, Nat)
  BY NatLessThanWellFounded DEF OpToRel
<1>2. PICK x \in T : \A y \in T : ~(<<y, x>> \in Less)
  <2> HIDE DEF Less
  <2> QED BY <1>1, WFMin
<1>3. ASSUME NEW y \in T, ~(x <= y) PROVE FALSE
  <2>1. <<y, x>> \in Nat \X Nat /\ y < x
    BY <1>3
  <2> QED BY <1>2, <2>1
<1> QED BY <1>3

\* A page that ascends keeps ascending.
LEMMA PageAscends ==
    ASSUME NEW bound \in Nat, NEW m \in Nat, NEW answer \in [1..m -> Nat], Ascending(bound, answer)
    PROVE  \A i, j \in 1..m : i < j => answer[i] < answer[j]
<1> SUFFICES ASSUME NEW i \in 1..m, NEW k \in 1..m, i < k, ~(answer[i] < answer[k]) PROVE FALSE
  OBVIOUS
<1> DEFINE T == {j \in 1..m : i < j /\ ~(answer[i] < answer[j])}
<1>1. PICK j \in T : \A l \in T : j <= l
  <2>1. T \in SUBSET Nat /\ k \in T
    OBVIOUS
  <2> QED BY <2>1, NatWellOrdered
<1>2. j \in 2..m /\ j - 1 \in 1..m /\ answer[j - 1] < answer[j]
  BY DEF Ascending, Follows
<1>3. j - 1 = i \/ (i < j - 1 /\ answer[i] < answer[j - 1])
  BY <1>1, <1>2
<1>4. answer[i] \in Nat /\ answer[j - 1] \in Nat /\ answer[j] \in Nat
  BY <1>2
<1> QED BY <1>2, <1>3, <1>4

\* A page that ascends from its bound, and of which the provider left nothing
\* out, goes on from the bound one command at a time.
LEMMA PageLeavesNothingOut ==
    ASSUME NEW bound \in Nat, NEW n \in Nat, NEW m \in Nat, NEW answer \in [1..m -> 1..n],
           Ascending(bound, answer),
           \A order \in 1..n :
              bound < order /\ (\E i \in 1..m : order < answer[i]) => \E i \in 1..m : answer[i] = order
    PROVE  \A i \in 1..m : answer[i] = bound + i
<1> SUFFICES ASSUME NEW k \in 1..m, answer[k] # bound + k PROVE FALSE
  OBVIOUS
<1> DEFINE T == {i \in 1..m : answer[i] # bound + i}
<1>1. PICK i \in T : \A l \in T : i <= l
  <2>1. T \in SUBSET Nat /\ T # {}
    OBVIOUS
  <2> QED BY <2>1, NatWellOrdered
<1>2. i \in 1..m /\ answer[i] \in 1..n /\ answer[i] # bound + i
  OBVIOUS
<1>3. bound + i - 1 < answer[i]
  <2>1. CASE i = 1
    BY <2>1 DEF Ascending, Follows
  <2>2. CASE i # 1
    <3>1. i - 1 \in 1..m /\ answer[i - 1] = bound + (i - 1)
      BY <1>1, <1>2, <2>2
    <3>2. answer[i - 1] < answer[i]
      BY <1>2, <2>2 DEF Ascending, Follows
    <3> QED BY <1>2, <3>1, <3>2
  <2> QED BY <2>1, <2>2
<1>4. bound + i \in 1..n /\ bound < bound + i /\ bound + i < answer[i]
  <2>1. i \in Nat /\ 1 <= i /\ answer[i] \in Nat /\ answer[i] <= n
    BY <1>2
  <2> HIDE DEF T
  <2>2. \A a, b \in Nat : b - 1 < a /\ a # b => b < a
    OBVIOUS
  <2>3. bound + i \in Nat /\ bound + i - 1 < answer[i] /\ answer[i] # bound + i
    BY <1>2, <1>3, <2>1
  <2>4. bound + i < answer[i]
    BY <2>1, <2>2, <2>3
  <2> QED BY <2>1, <2>4
<1>5. PICK j \in 1..m : answer[j] = bound + i
  BY <1>2, <1>4
<1>6. i < j
  BY <1>1, <1>2, <1>5
<1>7. answer[i] < answer[j]
  <2>1. answer \in [1..m -> Nat]
    OBVIOUS
  <2> QED BY <1>2, <1>6, <2>1, PageAscends
<1> QED BY <1>2, <1>4, <1>5, <1>7

Handed(order) == \E e \in Mark : \E i \in DOMAIN told.handed[e] : told.handed[e][i] = order

ConsumptionTold ==
    [mark : 0..MaxMark, order : Order, stream : Seq(BOOLEAN), from : [Mark -> Order \cup {None}],
     at : [Mark -> Order \cup {None}], handed : [Mark -> Seq(Order)]]

\* A Host that started has been handed what lies between its start and its
\* place; what is before its start, before the cursor, and before any cursor on
\* its way, somebody was handed.
ConsumptionInv ==
    /\ ConsumptionTypeOK /\ told \in ConsumptionTold
    /\ DOMAIN rows = {"cursor"}
    /\ \A w \in calls : w.id = "cursor" /\ w.rev \in Nat /\ w.rev < MaxRev
                         /\ w.rec \in DispositionCommandCursor /\ (\A o \in 1..w.rec.order : Handed(o))
    /\ \A e \in Mark : told.at[e] = None => told.handed[e] = << >>
    /\ \A e \in Mark : told.at[e] # None =>
          /\ told.from[e] # None /\ told.at[e] = told.from[e] + Len(told.handed[e])
          /\ \A i \in DOMAIN told.handed[e] : told.handed[e][i] = told.from[e] + i
          /\ (\A o \in 1..told.from[e] : Handed(o))
    /\ Found("cursor") => (\A o \in 1..Record("cursor").order : Handed(o))

\* A step that hands out nothing and moves no Host.
LEMMA NothingHanded ==
    ASSUME ConsumptionInv, told' \in ConsumptionTold,
           told'.handed = told.handed, told'.from = told.from, told'.at = told.at,
           ConsumptionTypeOK', DOMAIN rows' = DOMAIN rows,
           \A w \in calls' : w \in calls \/
              (/\ w.id = "cursor" /\ w.rev \in Nat /\ w.rev < MaxRev
               /\ w.rec \in DispositionCommandCursor /\ (\A o \in 1..w.rec.order : Handed(o))),
           rows' = rows \/ \E w \in calls : Record("cursor")' = w.rec
    PROVE  ConsumptionInv'
<1>1. \A o : Handed(o)' <=> Handed(o)
  BY DEF Handed
<1>3. \A w \in calls' : w.id = "cursor" /\ w.rev \in Nat /\ w.rev < MaxRev
                         /\ w.rec \in DispositionCommandCursor /\ (\A o \in 1..w.rec.order : Handed(o)')
  BY <1>1 DEF ConsumptionInv
<1>4. Found("cursor")' => (\A o \in 1..Record("cursor")'.order : Handed(o)')
  BY <1>1 DEF ConsumptionInv, Found, Record
<1>5. \A e \in Mark : told'.at[e] # None =>
          /\ told'.from[e] # None /\ told'.at[e] = told'.from[e] + Len(told'.handed[e])
          /\ \A i \in DOMAIN told'.handed[e] : told'.handed[e][i] = told'.from[e] + i
          /\ (\A o \in 1..told'.from[e] : Handed(o)')
  BY <1>1 DEF ConsumptionInv
<1> QED BY <1>3, <1>4, <1>5 DEF ConsumptionInv

\* A Host starts where the cursor is.
LEMMA StartKeepsConsumptionInv ==
    ASSUME ConsumptionInv, NEW e \in Mark, StartConsuming(e)
    PROVE  ConsumptionInv'
<1> DEFINE consumed == IF Found("cursor") THEN Record("cursor").order ELSE 0
<1>1. consumed \in Order /\ consumed # None /\ (\A o \in 1..consumed : Handed(o))
  <2>1. CASE Found("cursor")
    <3>1. Record("cursor").order \in Order /\ (\A o \in 1..Record("cursor").order : Handed(o))
      BY <2>1 DEF ConsumptionInv, ConsumptionTypeOK, DispositionCommandCursor
    <3> QED BY <2>1, <3>1, FencedAssumption DEF Order, None
  <2>2. CASE ~Found("cursor")
    BY <2>2, FencedAssumption DEF Order, None
  <2> QED BY <2>1, <2>2
<1>2. /\ told.at[e] = None /\ told.handed[e] = << >> /\ rows' = rows /\ calls' = calls /\ now' = now
      /\ told' = [told EXCEPT !.from[e] = consumed, !.at[e] = consumed]
  BY DEF StartConsuming, ConsumptionInv
<1> HIDE DEF consumed
<1>3. /\ told' \in ConsumptionTold /\ told'.handed = told.handed /\ told'.stream = told.stream
      /\ told'.mark = told.mark /\ told'.order = told.order
      /\ told'.from = [told.from EXCEPT ![e] = consumed] /\ told'.at = [told.at EXCEPT ![e] = consumed]
  BY <1>1, <1>2 DEF ConsumptionInv, ConsumptionTold
<1>4. \A o : Handed(o)' <=> Handed(o)
  BY <1>3 DEF Handed
<1>5. ConsumptionTypeOK'
  BY <1>2, <1>3 DEF ConsumptionInv, ConsumptionTypeOK, IndexTypeOK, Found, Record, ConsumptionTold
<1>6. /\ told'.from[e] = consumed /\ told'.at[e] = consumed
      /\ \A f \in Mark \ {e} : told'.from[f] = told.from[f] /\ told'.at[f] = told.at[f]
  BY <1>3 DEF ConsumptionInv, ConsumptionTold
<1>7. ASSUME NEW f \in Mark
      PROVE  /\ told'.at[f] = None => told'.handed[f] = << >>
             /\ told'.at[f] # None =>
                  /\ told'.from[f] # None /\ told'.at[f] = told'.from[f] + Len(told'.handed[f])
                  /\ \A k \in DOMAIN told'.handed[f] : told'.handed[f][k] = told'.from[f] + k
                  /\ (\A o \in 1..told'.from[f] : Handed(o)')
  <2>1. CASE f = e
    <3>1. Len(<< >>) = 0 /\ consumed + 0 = consumed /\ DOMAIN << >> = {}
      BY <1>1, FencedAssumption DEF Order
    <3> QED BY <1>1, <1>2, <1>3, <1>4, <1>6, <2>1, <3>1
  <2>2. CASE f # e
    BY <1>3, <1>4, <1>6, <2>2 DEF ConsumptionInv
  <2> QED BY <2>1, <2>2
<1>8. Found("cursor")' => (\A o \in 1..Record("cursor")'.order : Handed(o)')
  BY <1>2, <1>4 DEF ConsumptionInv, Found, Record
<1>9. \A w \in calls' : w.id = "cursor" /\ w.rev \in Nat /\ w.rev < MaxRev
                         /\ w.rec \in DispositionCommandCursor /\ (\A o \in 1..w.rec.order : Handed(o)')
  BY <1>2, <1>4 DEF ConsumptionInv
<1>10. \A f \in Mark : told'.at[f] = None => told'.handed[f] = << >>
  BY <1>7
<1>11. \A f \in Mark : told'.at[f] # None =>
          /\ told'.from[f] # None /\ told'.at[f] = told'.from[f] + Len(told'.handed[f])
          /\ \A k \in DOMAIN told'.handed[f] : told'.handed[f][k] = told'.from[f] + k
          /\ (\A o \in 1..told'.from[f] : Handed(o)')
  BY <1>7
<1> QED BY <1>2, <1>3, <1>5, <1>8, <1>9, <1>10, <1>11 DEF ConsumptionInv

\* A page hands a Host what comes next.
LEMMA PageKeepsConsumptionInv ==
    ASSUME ConsumptionInv, NEW e \in Mark, NEW limit \in 1..MaxPage, NEW answer \in Answers(told.at[e]),
           NEW next \in Order, told.at[e] # None, ListSessionDispositionCommands(e, limit, answer, next)
    PROVE  ConsumptionInv'
<1> DEFINE n == Len(told.stream)
           bound == told.at[e]
<1>1. /\ n \in Nat /\ n <= MaxOrder /\ DOMAIN told.stream = 1..n /\ bound \in Nat /\ MaxOrder \in Nat
      /\ told.handed \in [Mark -> Seq(Order)]
      /\ told.from[e] \in Nat /\ bound = told.from[e] + Len(told.handed[e]) /\ told.at[e] = bound
  BY FencedAssumption DEF ConsumptionInv, ConsumptionTypeOK, ConsumptionTold, Order, None
<1>2. PICK m \in Nat : answer \in [1..m -> 1..n]
  BY <1>1, ConsumptionAssumption DEF Answers, SeqOf
<1>3. Len(answer) = m /\ DOMAIN answer = 1..m /\ m # 0 /\ next = answer[m] /\ m \in 1..m
  BY <1>2 DEF ListSessionDispositionCommands, Last
<1>4. \A i \in 1..m : answer[i] = bound + i
  <2>1. \A order \in 1..n :
          bound < order /\ (\E i \in 1..m : order < answer[i]) => \E i \in 1..m : answer[i] = order
    BY <1>1, <1>3 DEF Answers
  <2>2. Ascending(bound, answer)
    BY DEF ListSessionDispositionCommands
  <2> HIDE DEF n, bound
  <2>3. n \in Nat /\ bound \in Nat /\ answer \in [1..m -> 1..n]
    BY <1>1, <1>2
  <2>4. ASSUME NEW b \in Nat, NEW k \in Nat, b = bound, k = n PROVE \A i \in 1..m : answer[i] = b + i
    <3>1. answer \in [1..m -> 1..k] /\ Ascending(b, answer)
      BY <2>2, <2>3, <2>4
    <3>2. \A order \in 1..k :
            b < order /\ (\E i \in 1..m : order < answer[i]) => \E i \in 1..m : answer[i] = order
      BY <2>1, <2>4
    <3> QED BY <3>1, <3>2, PageLeavesNothingOut
  <2> QED BY <2>3, <2>4
<1>5. answer \in Seq(Order) /\ next = bound + m /\ next # None
  <2>1. 1..n \subseteq Order
    BY <1>1 DEF Order
  <2>2. answer \in [1..m -> Order]
    BY <1>2, <2>1
  <2>3. answer \in Seq(Order)
    BY <2>2, SeqDef
  <2>4. next = bound + m
    BY <1>3, <1>4
  <2>5. MaxOrder + 1 \notin 0..MaxOrder
    BY <1>1
  <2> QED BY <2>3, <2>4, <2>5 DEF Order, None
<1> DEFINE handed == told.handed[e] \o answer
<1>6. /\ handed \in Seq(Order) /\ Len(handed) = Len(told.handed[e]) + m
      /\ DOMAIN handed = 1..Len(handed)
      /\ \A i \in DOMAIN told.handed[e] : i \in DOMAIN handed /\ handed[i] = told.handed[e][i]
      /\ \A i \in 1..(Len(told.handed[e]) + m) :
            handed[i] = IF i <= Len(told.handed[e]) THEN told.handed[e][i] ELSE answer[i - Len(told.handed[e])]
  <2>1. told.handed[e] \in Seq(Order)
    BY <1>1
  <2>2. Len(told.handed[e]) \in Nat /\ DOMAIN told.handed[e] = 1..Len(told.handed[e])
    BY <2>1, LenProperties
  <2>3. /\ handed \in Seq(Order) /\ Len(handed) = Len(told.handed[e]) + Len(answer)
        /\ \A i \in 1..(Len(told.handed[e]) + Len(answer)) :
              handed[i] = IF i <= Len(told.handed[e]) THEN told.handed[e][i] ELSE answer[i - Len(told.handed[e])]
    BY <1>5, <2>1, ConcatProperties
  <2>4. DOMAIN handed = 1..Len(handed)
    BY <2>3, LenProperties
  <2> QED BY <1>2, <1>3, <2>2, <2>3, <2>4
<1>7. \A i \in DOMAIN handed : handed[i] = told.from[e] + i
  <2> TAKE i \in DOMAIN handed
  <2>1. Len(told.handed[e]) \in Nat /\ DOMAIN told.handed[e] = 1..Len(told.handed[e])
    BY <1>1
  <2>2. CASE i <= Len(told.handed[e])
    <3>1. i \in DOMAIN told.handed[e]
      BY <1>6, <2>1, <2>2
    <3>2. told.handed[e][i] = told.from[e] + i
      BY <3>1 DEF ConsumptionInv
    <3> QED BY <1>6, <3>1, <3>2
  <2>3. CASE ~(i <= Len(told.handed[e]))
    <3>0. i \in 1..(Len(told.handed[e]) + m)
      BY <1>6
    <3>1. i - Len(told.handed[e]) \in 1..m /\ handed[i] = answer[i - Len(told.handed[e])]
      <4>1. handed[i] = answer[i - Len(told.handed[e])]
        BY <1>6, <2>3, <3>0
      <4>2. i - Len(told.handed[e]) \in 1..m
        BY <1>1, <2>1, <2>3, <3>0
      <4> QED BY <4>1, <4>2
    <3>2. i \in Nat
      BY <3>0
    <3>3. handed[i] = bound + (i - Len(told.handed[e]))
      BY <1>4, <3>1
    <3> HIDE DEF n, bound, handed
    <3> QED BY <1>1, <2>1, <3>2, <3>3
  <2> QED BY <2>2, <2>3
<1>8. /\ rows' = rows /\ calls' = calls /\ now' = now
      /\ told' = [told EXCEPT !.handed[e] = handed, !.at[e] = next]
  BY DEF ListSessionDispositionCommands
<1> HIDE DEF handed
<1>9. /\ told' \in ConsumptionTold /\ told'.from = told.from /\ told'.stream = told.stream
      /\ told'.mark = told.mark /\ told'.order = told.order
      /\ told'.handed = [told.handed EXCEPT ![e] = handed] /\ told'.at = [told.at EXCEPT ![e] = next]
  BY <1>6, <1>8 DEF ConsumptionInv, ConsumptionTold
<1>10. /\ told'.handed[e] = handed /\ told'.at[e] = next
       /\ \A f \in Mark \ {e} : told'.handed[f] = told.handed[f] /\ told'.at[f] = told.at[f]
  BY <1>9 DEF ConsumptionInv, ConsumptionTold
<1>11. \A o : Handed(o) => Handed(o)'
  <2> SUFFICES ASSUME NEW o, NEW f \in Mark, NEW i \in DOMAIN told.handed[f], told.handed[f][i] = o
               PROVE  \E g \in Mark : \E j \in DOMAIN told'.handed[g] : told'.handed[g][j] = o
    BY DEF Handed
  <2>1. i \in DOMAIN told'.handed[f] /\ told'.handed[f][i] = o
    BY <1>6, <1>10
  <2> QED BY <2>1
<1>13. ConsumptionTypeOK'
  BY <1>8, <1>9 DEF ConsumptionInv, ConsumptionTypeOK, IndexTypeOK, Found, Record, ConsumptionTold
<1>14. \A w \in calls' : w.id = "cursor" /\ w.rev \in Nat /\ w.rev < MaxRev
                         /\ w.rec \in DispositionCommandCursor /\ (\A o \in 1..w.rec.order : Handed(o)')
  BY <1>8, <1>11 DEF ConsumptionInv
<1>15. \A f \in Mark : told'.at[f] = None => told'.handed[f] = << >>
  BY <1>5, <1>10 DEF ConsumptionInv
<1>16. ASSUME NEW f \in Mark, told'.at[f] # None
       PROVE  /\ told'.from[f] # None /\ told'.at[f] = told'.from[f] + Len(told'.handed[f])
              /\ \A k \in DOMAIN told'.handed[f] : told'.handed[f][k] = told'.from[f] + k
              /\ (\A o \in 1..told'.from[f] : Handed(o)')
  <2>1. CASE f = e
    <3>1. next = told.from[e] + Len(handed)
      <4>1. bound \in Nat /\ told.from[e] \in Nat /\ bound = told.from[e] + Len(told.handed[e])
        BY <1>1
      <4>2. next = bound + m /\ Len(handed) = Len(told.handed[e]) + m
        BY <1>5, <1>6
      <4>3. Len(told.handed[e]) \in Nat
        BY <1>1, LenProperties
      <4> HIDE DEF n, bound
      <4> QED BY <4>1, <4>2, <4>3
    <3>2. told.from[e] # None /\ (\A o \in 1..told.from[e] : Handed(o))
      BY DEF ConsumptionInv
    <3> QED BY <1>7, <1>9, <1>10, <1>11, <2>1, <3>1, <3>2
  <2>2. CASE f # e
    <3>1. told.at[f] # None /\ told'.at[f] = told.at[f] /\ told'.handed[f] = told.handed[f]
      BY <1>10, <1>16, <2>2
    <3> QED BY <1>9, <1>11, <3>1 DEF ConsumptionInv
  <2> QED BY <2>1, <2>2
<1>17. Found("cursor")' => (\A o \in 1..Record("cursor")'.order : Handed(o)')
  BY <1>8, <1>11 DEF ConsumptionInv, Found, Record
<1>18. \A f \in Mark : told'.at[f] # None =>
          /\ told'.from[f] # None /\ told'.at[f] = told'.from[f] + Len(told'.handed[f])
          /\ \A k \in DOMAIN told'.handed[f] : told'.handed[f][k] = told'.from[f] + k
          /\ (\A o \in 1..told'.from[f] : Handed(o)')
  BY <1>16
<1>19. DOMAIN rows' = {"cursor"}
  BY <1>8 DEF ConsumptionInv
<1> QED BY <1>9, <1>13, <1>14, <1>15, <1>17, <1>18, <1>19 DEF ConsumptionInv

\* Every step of the stream, its Hosts and their cursor keeps the invariant.
LEMMA ConsumptionStep ==
    ASSUME ConsumptionInv, [ConsumptionNext]_vars
    PROVE  ConsumptionInv'
<1>1. CASE UNCHANGED vars
  <2>1. ConsumptionTypeOK'
    BY <1>1 DEF vars, ConsumptionInv, ConsumptionTypeOK, IndexTypeOK, Found, Record
  <2> QED BY <1>1, <2>1, NothingHanded DEF vars, ConsumptionInv
\* A step that changes the stream.
<1>2. ASSUME NEW stream \in Seq(BOOLEAN), Len(stream) <= MaxOrder, UNCHANGED <<rows, calls, now>>,
             told' = [told EXCEPT !.stream = stream]
      PROVE  ConsumptionInv'
  <2>1. /\ told' \in ConsumptionTold /\ told'.stream = stream /\ told'.handed = told.handed
        /\ told'.from = told.from /\ told'.at = told.at /\ told'.mark = told.mark /\ told'.order = told.order
    BY <1>2 DEF ConsumptionInv, ConsumptionTold
  <2>2. ConsumptionTypeOK'
    BY <1>2, <2>1 DEF ConsumptionInv, ConsumptionTypeOK, IndexTypeOK, Found, Record
  <2> QED BY <1>2, <2>1, <2>2, NothingHanded DEF ConsumptionInv
<1>3. CASE AcceptCommand
  <2>1. told.stream \in Seq(BOOLEAN) /\ Len(told.stream) \in Nat /\ Len(told.stream) < MaxOrder
    BY <1>3 DEF AcceptCommand, ConsumptionInv, ConsumptionTypeOK
  <2>2. Append(told.stream, TRUE) \in Seq(BOOLEAN) /\ Len(Append(told.stream, TRUE)) <= MaxOrder
    BY <2>1, FencedAssumption
  <2> QED BY <1>2, <1>3, <2>2 DEF AcceptCommand
<1>4. ASSUME NEW order \in Order, Damage(order) PROVE ConsumptionInv'
  <2>1. told.stream \in Seq(BOOLEAN) /\ Len(told.stream) <= MaxOrder /\ order \in 1..Len(told.stream)
    BY <1>4 DEF Damage, ConsumptionInv, ConsumptionTypeOK
  <2>2. /\ [told.stream EXCEPT ![order] = FALSE] \in Seq(BOOLEAN)
        /\ Len([told.stream EXCEPT ![order] = FALSE]) = Len(told.stream)
    BY <2>1
  <2> QED BY <1>2, <1>4, <2>1, <2>2 DEF Damage
<1>5. ASSUME NEW e \in Mark, NEW order \in Order, SaveConsumed(e, order) PROVE ConsumptionInv'
  <2> DEFINE w == [id |-> "cursor", rev |-> rows["cursor"].rev, rec |-> [mark |-> e, order |-> order, live |-> TRUE]]
  <2>1. calls' = calls \cup {w} /\ rows' = rows /\ now' = now /\ told' = told /\ rows["cursor"].rev < MaxRev
    BY <1>5 DEF SaveConsumed, SaveDispositionCommandCursor, Write, Offer, OfferAt
  <2>2. order # 0 /\ w.rec \in DispositionCommandCursor /\ rows["cursor"].rev \in Nat
    BY <1>5 DEF SaveConsumed, SaveDispositionCommandCursor, DispositionCommandCursor, ConsumptionInv,
       ConsumptionTypeOK, IndexTypeOK
  <2>3. \A o \in 1..order : Handed(o)
    <3>1. /\ told.at[e] # None /\ order <= told.at[e] /\ order \in Nat
          /\ told.at[e] = told.from[e] + Len(told.handed[e]) /\ told.from[e] \in Nat
          /\ Len(told.handed[e]) \in Nat /\ DOMAIN told.handed[e] = 1..Len(told.handed[e])
      BY <1>5, FencedAssumption DEF SaveConsumed, ConsumptionInv, ConsumptionTold, Order, None
    <3> TAKE o \in 1..order
    <3>2. CASE o <= told.from[e]
      BY <3>1, <3>2 DEF ConsumptionInv
    <3>3. CASE ~(o <= told.from[e])
      <4>1. o - told.from[e] \in DOMAIN told.handed[e] /\ told.from[e] + (o - told.from[e]) = o
        BY <3>1, <3>3
      <4>2. told.handed[e][o - told.from[e]] = told.from[e] + (o - told.from[e])
        BY <3>1, <4>1 DEF ConsumptionInv
      <4> QED BY <4>1, <4>2 DEF Handed
    <3> QED BY <3>2, <3>3
  <2>4. ConsumptionTypeOK'
    BY <2>1, <2>2, IndexAssumption DEF ConsumptionInv, ConsumptionTypeOK, IndexTypeOK, Found, Record
  <2>5. w.id = "cursor" /\ w.rev = rows["cursor"].rev /\ w.rec.order = order
    OBVIOUS
  <2> HIDE DEF w
  <2>6. \A v \in calls' : v.id = "cursor" /\ v.rev \in Nat /\ v.rev < MaxRev
                            /\ v.rec \in DispositionCommandCursor /\ (\A o \in 1..v.rec.order : Handed(o))
    <3> SUFFICES ASSUME NEW v \in calls'
                 PROVE  v.id = "cursor" /\ v.rev \in Nat /\ v.rev < MaxRev
                        /\ v.rec \in DispositionCommandCursor /\ (\A o \in 1..v.rec.order : Handed(o))
      OBVIOUS
    <3>1. CASE v \in calls
      BY <3>1 DEF ConsumptionInv
    <3>2. CASE v = w
      BY <2>1, <2>2, <2>3, <2>5, <3>2
    <3> QED BY <2>1, <3>1, <3>2
  <2>7. /\ told' \in ConsumptionTold /\ told'.handed = told.handed /\ told'.from = told.from
        /\ told'.at = told.at /\ rows' = rows /\ DOMAIN rows' = DOMAIN rows
    BY <2>1 DEF ConsumptionInv
  <2> QED BY <2>4, <2>6, <2>7, NothingHanded
<1>6. ASSUME NEW w \in calls, Commit(w) PROVE ConsumptionInv'
  <2>1. /\ w.id = "cursor" /\ rows["cursor"].rev = w.rev /\ w.rec \in DispositionCommandCursor
        /\ w.rev \in Nat /\ w.rev < MaxRev /\ DOMAIN rows = {"cursor"}
        /\ rows' = [rows EXCEPT !["cursor"] = [rev |-> w.rev + 1, rec |-> w.rec]]
        /\ calls' = calls \ {w} /\ now' = now
    BY <1>6 DEF Commit, Land, Current, ConsumptionInv
  <2>2. /\ rows'["cursor"] = [rev |-> w.rev + 1, rec |-> w.rec] /\ DOMAIN rows' = {"cursor"}
        /\ w.rev + 1 \in 0..MaxRev /\ w.rev + 1 # 0
    BY <2>1, IndexAssumption
  <2>3. /\ told' \in ConsumptionTold /\ told'.handed = told.handed /\ told'.from = told.from
        /\ told'.at = told.at /\ told'.stream = told.stream
    <3>1. w.rec.mark \in 0..MaxMark /\ w.rec.order \in Order
      <4>1. w.rec.mark \in Mark /\ w.rec.order \in Order \ {0}
        BY <2>1 DEF DispositionCommandCursor
      <4>2. Mark \subseteq 0..MaxMark
        BY FencedAssumption DEF Mark
      <4> QED BY <4>1, <4>2
    <3>2. Highest(told.mark, w.rec.mark) \in 0..MaxMark /\ Highest(told.order, w.rec.order) \in Order
      BY <3>1 DEF Highest, ConsumptionInv, ConsumptionTold
    <3> QED BY <1>6, <3>2 DEF Commit, Tell, ConsumptionInv, ConsumptionTold
  <2>4. \A v \in calls' : v.id \in DOMAIN rows' /\ v.rev <= rows'[v.id].rev
    BY <2>1, <2>2 DEF ConsumptionInv, ConsumptionTypeOK, IndexTypeOK
  <2>5. IndexTypeOK'
    BY <2>1, <2>2, <2>4 DEF ConsumptionInv, ConsumptionTypeOK, IndexTypeOK, Found
  <2>6. Record("cursor")' = w.rec
    BY <2>2 DEF Record
  <2>7. ConsumptionTypeOK'
    BY <2>1, <2>3, <2>5, <2>6 DEF ConsumptionInv, ConsumptionTypeOK, ConsumptionTold
  <2> QED BY <2>1, <2>2, <2>3, <2>6, <2>7, NothingHanded DEF ConsumptionInv
<1>7. ASSUME NEW w \in calls, Lose(w) PROVE ConsumptionInv'
  <2>1. ConsumptionTypeOK'
    BY <1>7 DEF Lose, ConsumptionInv, ConsumptionTypeOK, IndexTypeOK, Found, Record
  <2> QED BY <1>7, <2>1, NothingHanded DEF Lose, ConsumptionInv
<1> QED BY <1>1, <1>3, <1>4, <1>5, <1>6, <1>7, StartKeepsConsumptionInv, PageKeepsConsumptionInv
        DEF ConsumptionNext

\* Consumption begins with nothing accepted and nobody started.
LEMMA ConsumptionStart == ASSUME ConsumptionInit PROVE ConsumptionPart /\ ConsumptionInv
<1>1. DOMAIN rows = {"cursor"} /\ rows["cursor"] = Absent /\ ~Found("cursor") /\ calls = {}
  BY DEF ConsumptionInit, Found, Absent
<1>2. IndexTypeOK
  BY <1>1, IndexAssumption DEF ConsumptionInit, IndexTypeOK, Absent
<1>3. told \in ConsumptionTold
  <2>1. 0 \in 0..MaxMark /\ 0 \in Order /\ << >> \in Seq(BOOLEAN) /\ << >> \in Seq(Order)
    BY FencedAssumption DEF Order
  <2> QED BY <2>1 DEF ConsumptionInit, ConsumptionTold
<1>4. ConsumptionTypeOK
  <2>1. Len(told.stream) <= MaxOrder
    BY FencedAssumption DEF ConsumptionInit
  <2> QED BY <1>1, <1>2, <1>3, <2>1 DEF ConsumptionTypeOK, ConsumptionTold
<1>5. \A e \in Mark : told.at[e] = None /\ told.handed[e] = << >>
  BY DEF ConsumptionInit
<1> QED BY <1>1, <1>3, <1>4, <1>5 DEF ConsumptionInv, ConsumptionPart, ConsumptionInit

-----------------------------------------------------------------------------
(* The reconciliation claim.                                               *)

\* Whoever counts on the claim ahead of every clock has it, for as long as it
\* counts on it, and so it will when its own current writes land; a current
\* write of another replica was decided on a claim that had lapsed.
ClaimInv ==
    /\ ClaimTypeOK
    /\ DOMAIN rows = {"claim"}
    /\ \A h \in Holder : AheadOfEveryClock(told[h]) =>
          Found("claim") /\ Record("claim").holder = h /\ told[h] <= Record("claim").expires
    /\ \A w \in calls : Current(w) =>
          /\ AheadOfEveryClock(told[w.rec.holder]) => told[w.rec.holder] <= w.rec.expires
          /\ Found("claim") /\ Record("claim").holder # w.rec.holder => ~AheadOfEveryClock(Record("claim").expires)
    /\ \A w \in calls : w.rev \in Nat /\ w.rev < MaxRev

\* An offered claim, with the caller counting on no more than it asks for.
LEMMA OfferKeepsClaimInv ==
    ASSUME ClaimInv, NEW h \in Holder, NEW x \in Nat, NEW y \in Nat,
           Offer("claim", [holder |-> h, expires |-> x]),
           told' = [told EXCEPT ![h] = y],
           y = 0 \/ (y <= told[h] /\ y <= x),
           Found("claim") /\ Record("claim").holder # h => ~AheadOfEveryClock(Record("claim").expires)
    PROVE  ClaimInv'
<1> DEFINE rec == [holder |-> h, expires |-> x]
           w == [id |-> "claim", rev |-> rows["claim"].rev, rec |-> rec]
<1>1. calls' = calls \cup {w} /\ rows' = rows /\ now' = now
  BY DEF Offer, OfferAt
<1>2. /\ told \in [Holder -> Nat] /\ told' \in [Holder -> Nat] /\ told'[h] = y
      /\ \A g \in Holder \ {h} : told'[g] = told[g]
  BY DEF ClaimInv, ClaimTypeOK
<1>3. now \in Nat /\ Skew \in Nat
  BY IndexAssumption DEF ClaimInv, ClaimTypeOK, IndexTypeOK
<1>4. Found("claim") => Record("claim").expires \in Nat /\ Record("claim").holder \in Holder
  BY DEF ClaimInv, ClaimTypeOK, ReconciliationClaimRecord
<1>5. \A g \in Holder : AheadOfEveryClock(told'[g]) => AheadOfEveryClock(told[g]) /\ told'[g] <= told[g]
  BY <1>2, <1>3 DEF AheadOfEveryClock
<1>6. rows["claim"].rev \in Nat /\ rows["claim"].rev < MaxRev
  BY IndexAssumption DEF Offer, OfferAt, ClaimInv, ClaimTypeOK, IndexTypeOK
<1>7. ClaimTypeOK'
  <2>1. rec \in ReconciliationClaimRecord
    BY DEF ReconciliationClaimRecord
  <2>2. IndexTypeOK'
    BY <1>1, <1>6 DEF ClaimInv, ClaimTypeOK, IndexTypeOK, Found
  <2> QED BY <1>1, <1>2, <2>1, <2>2 DEF ClaimInv, ClaimTypeOK, Found, Record
<1>8. \A g \in Holder : AheadOfEveryClock(told'[g]) =>
          Found("claim") /\ Record("claim").holder = g /\ told'[g] <= Record("claim").expires
  <2> SUFFICES ASSUME NEW g \in Holder, AheadOfEveryClock(told'[g])
               PROVE  Found("claim") /\ Record("claim").holder = g /\ told'[g] <= Record("claim").expires
    OBVIOUS
  <2>1. Found("claim") /\ Record("claim").holder = g /\ told[g] <= Record("claim").expires
    BY <1>5 DEF ClaimInv
  <2>2. told'[g] <= told[g] /\ told'[g] \in Nat /\ told[g] \in Nat
    BY <1>2, <1>5
  <2> QED BY <2>1, <2>2, <1>4
<1>9. ASSUME NEW v \in calls', Current(v)
      PROVE  /\ AheadOfEveryClock(told'[v.rec.holder]) => told'[v.rec.holder] <= v.rec.expires
             /\ Found("claim") /\ Record("claim").holder # v.rec.holder => ~AheadOfEveryClock(Record("claim").expires)
  <2>1. CASE v = w
    BY <2>1, <1>2, <1>3 DEF AheadOfEveryClock
  <2>2. CASE v \in calls
    <3>1. v.rec.holder \in Holder /\ v.rec.expires \in Nat
      BY <2>2 DEF ClaimInv, ClaimTypeOK, ReconciliationClaimRecord
    <3>2. AheadOfEveryClock(told[v.rec.holder]) => told[v.rec.holder] <= v.rec.expires
      BY <1>9, <2>2 DEF ClaimInv
    <3>3. told'[v.rec.holder] \in Nat /\ told[v.rec.holder] \in Nat
      BY <1>2, <3>1
    <3>4. AheadOfEveryClock(told'[v.rec.holder]) => told'[v.rec.holder] <= v.rec.expires
      BY <1>5, <3>1, <3>2, <3>3
    <3> QED BY <3>4, <1>9, <2>2 DEF ClaimInv
  <2> QED BY <1>1, <2>1, <2>2
<1>10. \A v \in calls' : v.rev \in Nat /\ v.rev < MaxRev
  BY <1>1, <1>6 DEF ClaimInv
<1> QED BY <1>1, <1>7, <1>8, <1>9, <1>10 DEF ClaimInv, Current, Found, Record, AheadOfEveryClock

\* A claim that lands replaces one that nobody else counts on any more.
LEMMA CommitKeepsClaimInv ==
    ASSUME ClaimInv, NEW w \in calls, ClaimCommit(w)
    PROVE  ClaimInv'
<1> DEFINE h == w.rec.holder
           x == w.rec.expires
<1>1. /\ w.id = "claim" /\ rows["claim"].rev = w.rev /\ w.rev \in Nat /\ w.rev < MaxRev /\ Current(w)
      /\ w.rec \in ReconciliationClaimRecord /\ h \in Holder /\ x \in Nat
  BY DEF ClaimInv, ClaimTypeOK, IndexTypeOK, ClaimCommit, Land, Current, ReconciliationClaimRecord
<1>2. /\ rows' = [rows EXCEPT !["claim"] = [rev |-> w.rev + 1, rec |-> w.rec]]
      /\ calls' = calls \ {w} /\ now' = now
  BY <1>1 DEF ClaimCommit, Land
<1>3. DOMAIN rows' = {"claim"} /\ rows'["claim"] = [rev |-> w.rev + 1, rec |-> w.rec]
  BY <1>2 DEF ClaimInv
<1>4. Found("claim")' /\ Record("claim")' = w.rec
  BY <1>1, <1>3 DEF Found, Record
<1>5. /\ told \in [Holder -> Nat] /\ told' \in [Holder -> Nat]
      /\ told'[h] \in {told[h], x}
      /\ \A g \in Holder \ {h} : told'[g] = told[g]
  BY <1>1 DEF ClaimInv, ClaimTypeOK, ClaimCommit
<1>6. now \in Nat /\ Skew \in Nat
  BY IndexAssumption DEF ClaimInv, ClaimTypeOK, IndexTypeOK
<1>7. AheadOfEveryClock(told'[h]) => told'[h] <= x
  BY <1>1, <1>5, <1>6 DEF ClaimInv, AheadOfEveryClock
<1>8. ASSUME NEW g \in Holder \ {h}
      PROVE  ~AheadOfEveryClock(told[g])
  <2> SUFFICES ASSUME AheadOfEveryClock(told[g]) PROVE FALSE
    OBVIOUS
  <2>1. Found("claim") /\ Record("claim").holder = g /\ told[g] <= Record("claim").expires
    BY DEF ClaimInv
  <2>2. ~AheadOfEveryClock(Record("claim").expires)
    BY <1>1, <2>1 DEF ClaimInv
  <2>3. told[g] \in Nat /\ Record("claim").expires \in Nat
    BY <1>5, <2>1 DEF ClaimInv, ClaimTypeOK, ReconciliationClaimRecord
  <2> QED BY <2>1, <2>2, <2>3, <1>6 DEF AheadOfEveryClock
<1>9. \A v \in calls' : v.id = "claim" /\ v.rev \in Nat /\ v.rev < MaxRev /\ v.rev <= w.rev
  BY <1>1, <1>2 DEF ClaimInv, ClaimTypeOK, IndexTypeOK
<1>10. \A v \in calls' : ~Current(v)'
  BY <1>1, <1>3, <1>9 DEF Current
<1>11. ClaimTypeOK'
  <2>1. IndexTypeOK'
    BY <1>1, <1>2, <1>3, <1>4, <1>9, IndexAssumption DEF ClaimInv, ClaimTypeOK, IndexTypeOK, Found
  <2> QED BY <1>1, <1>2, <1>4, <1>5, <2>1 DEF ClaimInv, ClaimTypeOK
<1>12. \A g \in Holder : AheadOfEveryClock(told'[g]) => g = h /\ told'[g] <= x
  BY <1>5, <1>7, <1>8
<1> QED BY <1>2, <1>3, <1>4, <1>9, <1>10, <1>11, <1>12 DEF ClaimInv, AheadOfEveryClock

\* Every step of a claim keeps its invariant, the clocks' included.
LEMMA ClaimStep ==
    ASSUME ClaimInv, [ClaimNext]_vars
    PROVE  ClaimInv'
<1>1. CASE UNCHANGED vars
  BY <1>1 DEF ClaimInv, ClaimTypeOK, IndexTypeOK, vars, Current, Found, Record, AheadOfEveryClock
<1>2. /\ now \in Nat /\ Skew \in Nat /\ MaxClaimTTL \in Nat /\ told \in [Holder -> Nat]
      /\ Found("claim") => Record("claim").expires \in Nat /\ Record("claim").holder \in Holder
  BY IndexAssumption, ClaimAssumption DEF ClaimInv, ClaimTypeOK, IndexTypeOK, ReconciliationClaimRecord
<1>3. CASE Tick
  <2>1. now' = now + 1 /\ now' \in 0..MaxTime /\ UNCHANGED <<rows, calls, told>>
    BY <1>3, <1>2, IndexAssumption DEF Tick
  <2>2. \A y \in Nat : AheadOfEveryClock(y)' => AheadOfEveryClock(y)
    BY <2>1, <1>2 DEF AheadOfEveryClock
  <2>3. ClaimTypeOK'
    BY <2>1 DEF ClaimInv, ClaimTypeOK, IndexTypeOK, Found, Record
  <2>4. \A h \in Holder : now' + Skew < told[h] => now + Skew < told[h]
    BY <2>1, <1>2
  <2>5. Found("claim") /\ ~(now + Skew < Record("claim").expires) => ~(now' + Skew < Record("claim").expires)
    BY <2>1, <1>2
  <2>6. \A w \in calls : w.rec.holder \in Holder
    BY DEF ClaimInv, ClaimTypeOK, ReconciliationClaimRecord
  <2> QED BY <2>1, <2>3, <2>4, <2>5, <2>6 DEF ClaimInv, Current, Found, Record, AheadOfEveryClock
<1>4. ASSUME NEW h \in Holder, NEW t \in Reading, NEW x \in 1..(t + MaxClaimTTL),
             AcquireReconciliationClaim(h, t, x)
      PROVE  ClaimInv'
  <2>1. t \in Nat /\ t <= now + Skew /\ x \in Nat
    BY <1>2 DEF Reading
  <2> DEFINE y == IF x < told[h] THEN x ELSE told[h]
  <2>2. y \in Nat /\ y <= told[h] /\ y <= x
    BY <1>2, <2>1
  <2>3. Offer("claim", [holder |-> h, expires |-> x]) /\ told' = [told EXCEPT ![h] = y]
    BY <1>4 DEF AcquireReconciliationClaim
  <2>4. Found("claim") /\ Record("claim").holder # h => ~AheadOfEveryClock(Record("claim").expires)
    BY <1>2, <1>4, <2>1 DEF AcquireReconciliationClaim, Own, HeldAt, AheadOfEveryClock
  <2> HIDE DEF y
  <2> QED BY <2>1, <2>2, <2>3, <2>4, OfferKeepsClaimInv
<1>5. ASSUME NEW h \in Holder, NEW t \in Reading, ReleaseReconciliationClaim(h, t)
      PROVE  ClaimInv'
  <2>1. t \in Nat
    BY <1>2 DEF Reading
  <2>2. CASE HeldAt(t)
    <3>1. Offer("claim", [holder |-> h, expires |-> t]) /\ told' = [told EXCEPT ![h] = 0]
            /\ Record("claim").holder = h
      BY <1>5, <2>2 DEF ReleaseReconciliationClaim, Own
    <3> QED BY <2>1, <3>1, OfferKeepsClaimInv
  <2>3. CASE ~HeldAt(t)
    <3>1. UNCHANGED <<rows, calls, now>> /\ told' = [told EXCEPT ![h] = 0]
      BY <1>5, <2>3 DEF ReleaseReconciliationClaim
    <3>2. told' \in [Holder -> Nat] /\ told'[h] = 0 /\ \A g \in Holder \ {h} : told'[g] = told[g]
      BY <1>2, <3>1
    <3>3. \A g \in Holder : now + Skew < told'[g] => g # h
      BY <1>2, <3>2
    <3>4. \A w \in calls : w.rec.holder \in Holder
      BY DEF ClaimInv, ClaimTypeOK, ReconciliationClaimRecord
    <3>5. ClaimTypeOK'
      BY <3>1, <3>2 DEF ClaimInv, ClaimTypeOK, IndexTypeOK, Found, Record
    <3> QED BY <3>1, <3>2, <3>3, <3>4, <3>5 DEF ClaimInv, Current, Found, Record, AheadOfEveryClock
  <2> QED BY <2>2, <2>3
<1>6. ASSUME NEW h \in Holder, NEW t \in Reading, GetReconciliationClaim(h, t)
      PROVE  ClaimInv'
  <2>1. /\ UNCHANGED <<rows, calls, now>> /\ told' = [told EXCEPT ![h] = Record("claim").expires]
        /\ Found("claim") /\ Record("claim").holder = h /\ \A w \in calls : w.rec.holder # h
    BY <1>6 DEF GetReconciliationClaim, Own, HeldAt
  <2>2. told' \in [Holder -> Nat] /\ told'[h] = Record("claim").expires
          /\ \A g \in Holder \ {h} : told'[g] = told[g]
    BY <1>2, <2>1
  <2>3. \A w \in calls : w.rec.holder \in Holder \ {h}
    BY <2>1 DEF ClaimInv, ClaimTypeOK, ReconciliationClaimRecord
  <2>4. ClaimTypeOK'
    BY <2>1, <2>2 DEF ClaimInv, ClaimTypeOK, IndexTypeOK, Found, Record
  <2>5. Record("claim").expires <= Record("claim").expires
    BY <1>2, <2>1
  <2> QED BY <2>1, <2>2, <2>3, <2>4, <2>5 DEF ClaimInv, Current, Found, Record, AheadOfEveryClock
<1>7. ASSUME NEW w \in calls, Lose(w)
      PROVE  ClaimInv'
  BY <1>7 DEF ClaimInv, ClaimTypeOK, IndexTypeOK, Lose, Current, Found, Record, AheadOfEveryClock
<1> QED BY <1>1, <1>3, <1>4, <1>5, <1>6, <1>7, CommitKeepsClaimInv DEF ClaimNext

\* A claim begins with its invariant.
LEMMA ClaimStart == ASSUME ClaimInit PROVE ClaimPart /\ ClaimInv
<1>1. DOMAIN rows = {"claim"} /\ rows["claim"] = Absent /\ ~Found("claim") /\ calls = {}
  BY DEF ClaimInit, Found, Absent
<1>2. IndexTypeOK
  BY <1>1, IndexAssumption DEF ClaimInit, IndexTypeOK, Absent
<1>3. told \in [Holder -> Nat] /\ \A h \in Holder : told[h] = 0
  BY DEF ClaimInit
<1>4. \A h \in Holder : ~AheadOfEveryClock(told[h])
  BY <1>3, IndexAssumption DEF ClaimInit, AheadOfEveryClock
<1> QED BY <1>1, <1>2, <1>3, <1>4 DEF ClaimInv, ClaimTypeOK, ClaimPart

-----------------------------------------------------------------------------
(* The catalog row and how its generations ended.                          *)

\* What a write of the catalog row may make of the row it replaces: a Host's
\* leaves the desired half, a Factory's the other and takes the next generation.
Succeeds(c, d) ==
    /\ c.epoch <= d.epoch /\ c.seq <= d.seq
    /\ c.gen <= d.gen /\ (c.gen = d.gen => c.key = d.key)

\* Current writes follow their rows; a request that was installed was so at the
\* revision it expects, which the row has left behind; a write that carries a
\* request's key installs it or keeps what it installed.
PlacementInv ==
    /\ PlacementTypeOK
    /\ DOMAIN rows = {"catalog", "termination"} /\ DOMAIN told = {"asked", "installed", "ended"}
    /\ \A w \in calls :
          /\ w.rev \in Nat /\ w.rev < MaxRev
          /\ w.id = "catalog" => w.rec \in CatalogRecord
          /\ w.id = "termination" => w.rec \in PlacementTermination
    /\ \A w \in calls : w.id = "catalog" /\ Current(w) =>
          /\ Found("catalog") => Succeeds(Record("catalog"), w.rec)
          /\ w.rec.key \in Request =>
                \/ <<w.rec.key, w.rec.gen>> \in told.installed
                \/ w.rev # 0 /\ w.rev = told.asked[w.rec.key]
    /\ Found("catalog") /\ Record("catalog").key \in Request =>
          <<Record("catalog").key, Record("catalog").gen>> \in told.installed
    /\ \A p \in told.installed : told.asked[p[1]] # 0 /\ told.asked[p[1]] < rows["catalog"].rev
    /\ \A p, q \in told.installed : p[1] = q[1] => p = q
    /\ \A w \in calls : w.id = "termination" /\ Current(w) /\ Found("termination") =>
          Record("termination").gen < w.rec.gen
    /\ \A r \in told.ended :
          Found("termination") /\ (Record("termination") = r \/ r.gen < Record("termination").gen)

\* An offered write, with what a Factory's request expects remembered.
LEMMA OfferKeepsPlacementInv ==
    ASSUME PlacementInv, NEW id \in {"catalog", "termination"}, NEW rev \in Nat, NEW rec,
           OfferAt(id, rev, rec), rev <= rows[id].rev,
           id = "catalog" => rec \in CatalogRecord,
           id = "termination" => rec \in PlacementTermination,
           id = "catalog" /\ rev = rows["catalog"].rev =>
               /\ Found("catalog") => Succeeds(Record("catalog"), rec)
               /\ rec.key \in Request =>
                     \/ <<rec.key, rec.gen>> \in told.installed
                     \/ rev # 0 /\ rev = told'.asked[rec.key],
           id = "termination" /\ Found("termination") => Record("termination").gen < rec.gen,
           DOMAIN told' = DOMAIN told, told'.installed = told.installed, told'.ended = told.ended,
           told'.asked \in [Request -> 0..MaxRev],
           \A k \in Request : told.asked[k] # 0 => told'.asked[k] = told.asked[k]
    PROVE  PlacementInv'
<1> DEFINE w == [id |-> id, rev |-> rev, rec |-> rec]
<1>1. calls' = calls \cup {w} /\ rows' = rows /\ now' = now /\ rev < MaxRev
  BY DEF OfferAt
<1>2. PlacementTypeOK'
  <2>1. IndexTypeOK'
    BY <1>1 DEF PlacementInv, PlacementTypeOK, IndexTypeOK, Found
  <2> QED BY <1>1, <2>1 DEF PlacementInv, PlacementTypeOK, Found, Record
<1>3. \A v \in calls' :
          /\ v.rev \in Nat /\ v.rev < MaxRev
          /\ v.id = "catalog" => v.rec \in CatalogRecord
          /\ v.id = "termination" => v.rec \in PlacementTermination
  BY <1>1 DEF PlacementInv
<1>4. ASSUME NEW v \in calls', v.id = "catalog", Current(v)
      PROVE  /\ Found("catalog") => Succeeds(Record("catalog"), v.rec)
             /\ v.rec.key \in Request =>
                   \/ <<v.rec.key, v.rec.gen>> \in told'.installed
                   \/ v.rev # 0 /\ v.rev = told'.asked[v.rec.key]
  <2>1. CASE v = w
    BY <1>4, <2>1 DEF Current
  <2>2. CASE v \in calls
    BY <1>4, <2>2 DEF PlacementInv
  <2> QED BY <1>1, <2>1, <2>2
<1>5. \A v \in calls' : v.id = "termination" /\ Current(v) /\ Found("termination") =>
          Record("termination").gen < v.rec.gen
  BY <1>1 DEF PlacementInv
<1>6. \A p \in told'.installed : told'.asked[p[1]] # 0 /\ told'.asked[p[1]] < rows["catalog"].rev
  <2> SUFFICES ASSUME NEW p \in told.installed
               PROVE  told'.asked[p[1]] # 0 /\ told'.asked[p[1]] < rows["catalog"].rev
    OBVIOUS
  <2>1. p[1] \in Request
    BY DEF PlacementInv, PlacementTypeOK
  <2>2. told.asked[p[1]] # 0 /\ told.asked[p[1]] < rows["catalog"].rev
    BY DEF PlacementInv
  <2> QED BY <2>1, <2>2
<1> QED BY <1>1, <1>2, <1>3, <1>4, <1>5, <1>6 DEF PlacementInv, Current, Found, Record

\* A step that only tells of an outcome that is recorded.
LEMMA EndedKeepsPlacementInv ==
    ASSUME PlacementInv, NEW r \in PlacementTermination, Found("termination"), Record("termination") = r,
           told' = [told EXCEPT !.ended = @ \cup {r}], UNCHANGED <<rows, calls, now>>
    PROVE  PlacementInv'
<1>1. /\ DOMAIN told' = DOMAIN told /\ told'.ended = told.ended \cup {r}
      /\ told'.installed = told.installed /\ told'.asked = told.asked
  BY DEF PlacementInv
<1>2. PlacementTypeOK'
  BY <1>1 DEF PlacementInv, PlacementTypeOK, IndexTypeOK, Found, Record
<1> QED BY <1>1, <1>2 DEF PlacementInv, Current, Found, Record

\* A write that lands was current.
LEMMA CommitKeepsPlacementInv ==
    ASSUME PlacementInv, NEW w \in calls, PlacementCommit(w)
    PROVE  PlacementInv'
<1>1. /\ w.id \in {"catalog", "termination"} /\ rows[w.id].rev = w.rev /\ w.rev \in Nat /\ w.rev < MaxRev
      /\ Current(w)
  BY DEF PlacementInv, PlacementTypeOK, IndexTypeOK, PlacementCommit, Land, Current
<1>2. /\ rows' = [rows EXCEPT ![w.id] = [rev |-> w.rev + 1, rec |-> w.rec]]
      /\ calls' = calls \ {w} /\ now' = now
  BY <1>1 DEF PlacementCommit, Land
<1>3. /\ DOMAIN rows' = {"catalog", "termination"} /\ rows'[w.id] = [rev |-> w.rev + 1, rec |-> w.rec]
      /\ \A i \in {"catalog", "termination"} \ {w.id} : rows'[i] = rows[i]
  BY <1>1, <1>2 DEF PlacementInv
<1>4. Found(w.id)' /\ Record(w.id)' = w.rec
  BY <1>1, <1>3 DEF Found, Record
<1>5. \A v \in calls' : v \in calls /\ v.rev <= rows[v.id].rev /\ v.id \in {"catalog", "termination"}
  BY <1>2 DEF PlacementInv, PlacementTypeOK, IndexTypeOK
<1>6. \A v \in calls' : v.id = w.id => ~Current(v)'
  BY <1>1, <1>3, <1>5 DEF Current, PlacementInv
<1>7. IndexTypeOK'
  <2>1. \A i \in DOMAIN rows' : rows'[i].rev \in 0..MaxRev /\ (~Found(i)' => rows'[i] = Absent)
    BY <1>1, <1>3, <1>4, IndexAssumption DEF PlacementInv, PlacementTypeOK, IndexTypeOK, Found
  <2>2. \A v \in calls' : v.id \in DOMAIN rows' /\ v.rev <= rows'[v.id].rev
    BY <1>1, <1>3, <1>5 DEF PlacementInv
  <2> QED BY <1>2, <2>1, <2>2 DEF PlacementInv, PlacementTypeOK, IndexTypeOK, Absent
<1>8. CASE w.id = "catalog"
  <2> DEFINE k == w.rec.key
             p == <<w.rec.key, w.rec.gen>>
  <2>1. w.rec \in CatalogRecord /\ w.rec.gen \in Nat
    BY <1>8 DEF PlacementInv, CatalogRecord, Generation
  <2>2. /\ DOMAIN told' = DOMAIN told /\ told'.ended = told.ended /\ told'.asked = told.asked
        /\ told'.installed = IF k \in Request THEN told.installed \cup {p} ELSE told.installed
    BY <1>8 DEF PlacementInv, PlacementCommit
  <2>3. /\ Found("termination")' = Found("termination") /\ Record("termination")' = Record("termination")
        /\ rows'["catalog"].rev = rows["catalog"].rev + 1 /\ rows["catalog"].rev \in Nat
    BY <1>1, <1>3, <1>8 DEF Found, Record
  <2>4. PlacementTypeOK'
    BY <1>4, <1>7, <1>8, <2>1, <2>2, <2>3 DEF PlacementInv, PlacementTypeOK
  <2>5. ASSUME k \in Request
        PROVE  p \in told.installed \/ (w.rev # 0 /\ w.rev = told.asked[k])
    <3>1. Current(w) /\ w.id = "catalog"
      BY <1>1, <1>8
    <3> QED BY <2>5, <3>1 DEF PlacementInv
  <2>6. k \in Request /\ p \notin told.installed =>
            /\ told.asked[k] # 0 /\ told.asked[k] = rows["catalog"].rev
            /\ \A q \in told.installed : q[1] # k
    <3> SUFFICES ASSUME k \in Request, p \notin told.installed
                 PROVE  /\ told.asked[k] # 0 /\ told.asked[k] = rows["catalog"].rev
                        /\ \A q \in told.installed : q[1] # k
      OBVIOUS
    <3>1. told.asked[k] # 0 /\ told.asked[k] = rows["catalog"].rev
      BY <1>1, <1>8, <2>5
    <3>2. \A q \in told.installed : told.asked[q[1]] < rows["catalog"].rev
      BY DEF PlacementInv
    <3> QED BY <3>1, <3>2, <2>3
  <2>7. \A q \in told'.installed : told'.asked[q[1]] # 0 /\ told'.asked[q[1]] < rows'["catalog"].rev
    <3> SUFFICES ASSUME NEW q \in told'.installed
                 PROVE  told.asked[q[1]] # 0 /\ told.asked[q[1]] < rows["catalog"].rev + 1
      BY <2>2, <2>3
    <3>1. CASE q \in told.installed
      <4>1. q[1] \in Request /\ told.asked[q[1]] \in Nat
        BY <3>1 DEF PlacementInv, PlacementTypeOK
      <4>2. told.asked[q[1]] # 0 /\ told.asked[q[1]] < rows["catalog"].rev
        BY <3>1 DEF PlacementInv
      <4> QED BY <4>1, <4>2, <2>3
    <3>2. CASE q \notin told.installed
      BY <3>2, <2>2, <2>3, <2>6
    <3> QED BY <3>1, <3>2
  <2>8. \A q, r \in told'.installed : q[1] = r[1] => q = r
    <3>1. \A q, r \in told.installed : q[1] = r[1] => q = r
      BY DEF PlacementInv
    <3>2. p[1] = k
      OBVIOUS
    <3> HIDE DEF p
    <3> QED BY <2>2, <2>6, <3>1, <3>2
  <2>9. \A v \in calls' : v.id = "termination" /\ Current(v)' => v \in calls /\ Current(v)
    BY <1>3, <1>5, <1>8 DEF Current
  <2>10. \A v \in calls' : v.id = "termination" /\ Current(v)' /\ Found("termination")' =>
             Record("termination")'.gen < v.rec.gen
    BY <2>3, <2>9 DEF PlacementInv
  <2>11. \A v \in calls' :
            /\ v.rev \in Nat /\ v.rev < MaxRev
            /\ v.id = "catalog" => v.rec \in CatalogRecord
            /\ v.id = "termination" => v.rec \in PlacementTermination
    BY <1>5 DEF PlacementInv
  <2>12. \A r \in told'.ended :
            Found("termination")' /\ (Record("termination")' = r \/ r.gen < Record("termination")'.gen)
    BY <2>2, <2>3 DEF PlacementInv
  <2>13. Found("catalog")' /\ Record("catalog")'.key \in Request =>
             <<Record("catalog")'.key, Record("catalog")'.gen>> \in told'.installed
    BY <1>4, <1>8, <2>2
  <2> QED BY <1>3, <1>6, <1>8, <2>2, <2>4, <2>7, <2>8, <2>10, <2>11, <2>12, <2>13 DEF PlacementInv
<1>9. CASE w.id = "termination"
  <2>1. w.rec \in PlacementTermination /\ w.rec.gen \in Nat
    BY <1>9 DEF PlacementInv, PlacementTermination, Generation
  <2>2. /\ DOMAIN told' = DOMAIN told /\ told'.asked = told.asked /\ told'.installed = told.installed
        /\ told'.ended \in {told.ended, told.ended \cup {w.rec}}
    BY <1>9 DEF PlacementInv, PlacementCommit
  <2>3. rows'["catalog"] = rows["catalog"] /\ Found("catalog")' = Found("catalog")
          /\ Record("catalog")' = Record("catalog")
    BY <1>3, <1>9 DEF Found, Record
  <2>4. PlacementTypeOK'
    BY <1>4, <1>7, <1>9, <2>1, <2>2, <2>3 DEF PlacementInv, PlacementTypeOK
  <2>5. \A v \in calls' : v.id = "catalog" /\ Current(v)' => v \in calls /\ Current(v)
    BY <1>5, <2>3 DEF Current
  <2>6. \A v \in calls' : v.id = "catalog" /\ Current(v)' =>
            /\ Found("catalog")' => Succeeds(Record("catalog")', v.rec)
            /\ v.rec.key \in Request =>
                  \/ <<v.rec.key, v.rec.gen>> \in told'.installed
                  \/ v.rev # 0 /\ v.rev = told'.asked[v.rec.key]
    BY <2>2, <2>3, <2>5 DEF PlacementInv
  <2>7. \A v \in calls' :
            /\ v.rev \in Nat /\ v.rev < MaxRev
            /\ v.id = "catalog" => v.rec \in CatalogRecord
            /\ v.id = "termination" => v.rec \in PlacementTermination
    BY <1>5 DEF PlacementInv
  <2>8. \A r \in told'.ended :
            Found("termination")' /\ (Record("termination")' = r \/ r.gen < Record("termination")'.gen)
    <3> SUFFICES ASSUME NEW r \in told'.ended
                 PROVE  w.rec = r \/ r.gen < w.rec.gen
      BY <1>4, <1>9
    <3>1. CASE r \in told.ended
      <4>1. r.gen \in Nat
        BY <3>1 DEF PlacementInv, PlacementTypeOK, PlacementTermination, Generation
      <4>2. Found("termination") /\ (Record("termination") = r \/ r.gen < Record("termination").gen)
        BY <3>1 DEF PlacementInv
      <4>3. Record("termination").gen < w.rec.gen /\ Record("termination").gen \in Nat
        BY <1>1, <1>9, <4>2 DEF PlacementInv, PlacementTypeOK, PlacementTermination, Generation
      <4> QED BY <2>1, <4>1, <4>2, <4>3
    <3>2. CASE r \notin told.ended
      BY <2>2, <3>2
    <3> QED BY <3>1, <3>2
  <2> QED BY <1>3, <1>6, <1>9, <2>2, <2>3, <2>4, <2>6, <2>7, <2>8 DEF PlacementInv
<1> QED BY <1>1, <1>8, <1>9

\* The catalog row begins with its invariant, at whatever generation.
LEMMA PlacementStart == ASSUME PlacementInit PROVE PlacementPart /\ PlacementInv
<1>1. DOMAIN rows = {"catalog", "termination"} /\ rows["termination"] = Absent /\ calls = {} /\ now = 0
  BY DEF PlacementInit
<1>2. \/ rows["catalog"] = Absent
      \/ \E g \in Generation \cap (1..MaxRev), k \in Creation :
             rows["catalog"] = [rev |-> g, rec |-> [epoch |-> 0, seq |-> 0, key |-> k, gen |-> g]]
  BY DEF PlacementInit
<1>3. /\ told.asked \in [Request -> 0..MaxRev] /\ told.installed = {} /\ told.ended = {}
      /\ DOMAIN told = {"asked", "installed", "ended"}
  BY IndexAssumption DEF PlacementInit
<1>4. /\ rows["catalog"].rev \in 0..MaxRev
      /\ Found("catalog") => Record("catalog") \in CatalogRecord /\ Record("catalog").key \notin Request
      /\ ~Found("catalog") => rows["catalog"] = Absent
  <2>1. CASE rows["catalog"] = Absent
    BY <2>1, IndexAssumption DEF Absent, Found
  <2>2. ASSUME NEW g \in Generation \cap (1..MaxRev), NEW k \in Creation,
               rows["catalog"] = [rev |-> g, rec |-> [epoch |-> 0, seq |-> 0, key |-> k, gen |-> g]]
        PROVE  /\ rows["catalog"].rev \in 0..MaxRev /\ rows["catalog"].rev # 0
               /\ Record("catalog") \in CatalogRecord /\ Record("catalog").key \notin Request
    <3>1. [epoch |-> 0, seq |-> 0, key |-> k, gen |-> g] \in CatalogRecord
      BY PlacementAssumption DEF CatalogRecord
    <3> QED BY <2>2, <3>1, IndexAssumption, PlacementAssumption DEF Record
  <2> QED BY <1>2, <2>1, <2>2 DEF Found
<1>5. ~Found("termination")
  BY <1>1 DEF Found, Absent
<1>6. IndexTypeOK
  BY <1>1, <1>4, <1>5, IndexAssumption DEF IndexTypeOK, Absent
<1> QED BY <1>1, <1>3, <1>4, <1>5, <1>6 DEF PlacementInv, PlacementTypeOK, PlacementPart

\* The count does not wrap: at its limit it has no next.
LEMMA NextIsOneMore ==
    ASSUME NEW gen \in Generation, HasNext(gen)
    PROVE  NextDesiredGeneration(gen) = gen + 1 /\ gen + 1 \in Generation
<1>1. gen \in Nat /\ MaxGeneration \in Nat /\ gen + 1 <= MaxGeneration /\ 1 <= gen
  BY PlacementAssumption DEF Generation, HasNext
<1>2. \A a, b \in Nat : a < b => a % b = a
  OBVIOUS
<1>3. (gen + 1) % (MaxGeneration + 1) = gen + 1
  BY <1>1, <1>2
<1> QED BY <1>1, <1>3 DEF NextDesiredGeneration, Generation

\* Every step of the catalog row and its termination keeps their invariant.
LEMMA PlacementStep ==
    ASSUME PlacementInv, [PlacementNext]_vars
    PROVE  PlacementInv'
<1>1. CASE UNCHANGED vars
  BY <1>1 DEF PlacementInv, PlacementTypeOK, IndexTypeOK, vars, Current, Found, Record
<1>2. /\ rows["catalog"].rev \in Nat /\ rows["termination"].rev \in Nat
      /\ told.asked \in [Request -> 0..MaxRev]
      /\ Found("catalog") => /\ Record("catalog") \in CatalogRecord
                             /\ Record("catalog").gen \in Generation /\ Record("catalog").gen \in Nat
      /\ Found("termination") => /\ Record("termination") \in PlacementTermination
                                 /\ Record("termination").gen \in Nat
  BY DEF PlacementInv, PlacementTypeOK, IndexTypeOK, CatalogRecord, PlacementTermination, Generation
<1>3. ASSUME NEW k \in Creation, CreateCatalogEntry(k)
      PROVE  PlacementInv'
  <2> DEFINE rec == [epoch |-> 0, seq |-> 0, key |-> k, gen |-> 1]
  <2>1. OfferAt("catalog", 0, rec) /\ told' = told
    BY <1>3 DEF CreateCatalogEntry
  <2>2. rec \in CatalogRecord /\ rec.key \notin Request
    BY PlacementAssumption DEF CatalogRecord, Generation
  <2>3. 0 <= rows["catalog"].rev /\ (0 = rows["catalog"].rev => ~Found("catalog"))
    BY <1>2 DEF Found
  <2>4. told'.installed = told.installed /\ told'.ended = told.ended /\ told'.asked = told.asked
    BY <2>1
  <2> HIDE DEF rec
  <2> QED BY <1>2, <2>1, <2>2, <2>3, <2>4, OfferKeepsPlacementInv
<1>4. ASSUME NEW e \in 1..MaxEpoch, NEW s \in 0..MaxSeq, UpdateCatalogHostState(e, s)
      PROVE  PlacementInv'
  <2> DEFINE rec == [Record("catalog") EXCEPT !.epoch = e, !.seq = s]
  <2>1. /\ OfferAt("catalog", rows["catalog"].rev, rec) /\ told' = told /\ Found("catalog")
        /\ Record("catalog").epoch <= e /\ Record("catalog").seq <= s
    BY <1>4 DEF UpdateCatalogHostState, Offer, HostFence
  <2>2. /\ rec \in CatalogRecord /\ rec.epoch = e /\ rec.seq = s
        /\ rec.key = Record("catalog").key /\ rec.gen = Record("catalog").gen
    <3>1. /\ Record("catalog") \in [epoch : 0..MaxEpoch, seq : 0..MaxSeq, key : Creation \cup Request, gen : Generation]
          /\ e \in 0..MaxEpoch
      BY <1>2, <2>1, PlacementAssumption DEF CatalogRecord
    <3>2. /\ rec \in [epoch : 0..MaxEpoch, seq : 0..MaxSeq, key : Creation \cup Request, gen : Generation]
      BY <3>1
    <3>3. rec.epoch = e /\ rec.seq = s /\ rec.key = Record("catalog").key /\ rec.gen = Record("catalog").gen
      BY <3>1
    <3> QED BY <3>2, <3>3 DEF CatalogRecord
  <2>3. Succeeds(Record("catalog"), rec)
    BY <1>2, <2>1, <2>2 DEF Succeeds
  <2>4. rec.key \in Request => <<rec.key, rec.gen>> \in told.installed
    BY <2>1, <2>2 DEF PlacementInv
  <2> HIDE DEF rec
  <2>5. rows["catalog"].rev <= rows["catalog"].rev
    BY <1>2
  <2> QED BY <1>2, <2>1, <2>2, <2>3, <2>4, <2>5, OfferKeepsPlacementInv
<1>5. ASSUME NEW k \in Request, NEW exp \in 1..MaxRev, UpdateCatalogDesiredState(k, exp)
      PROVE  PlacementInv'
  <2> DEFINE rec == [Record("catalog") EXCEPT !.key = k, !.gen = NextDesiredGeneration(@)]
  <2>1. /\ OfferAt("catalog", rows["catalog"].rev, rec) /\ Found("catalog")
        /\ told' = [told EXCEPT !.asked[k] = exp] /\ told.asked[k] \in {0, exp}
        /\ exp = rows["catalog"].rev /\ HasNext(Record("catalog").gen)
    BY <1>5 DEF UpdateCatalogDesiredState, Offer, Expects
  <2>2. /\ rec \in CatalogRecord /\ rec.key = k /\ rec.gen = Record("catalog").gen + 1
        /\ rec.epoch = Record("catalog").epoch /\ rec.seq = Record("catalog").seq
    BY <1>2, <2>1, NextIsOneMore DEF CatalogRecord
  <2>3. Succeeds(Record("catalog"), rec)
    <3>1. Record("catalog").epoch \in Nat /\ Record("catalog").seq \in Nat
      BY <1>2, <2>1, PlacementAssumption DEF CatalogRecord
    <3> QED BY <1>2, <2>1, <2>2, <3>1 DEF Succeeds
  <2>4. /\ DOMAIN told' = DOMAIN told /\ told'.installed = told.installed /\ told'.ended = told.ended
        /\ told'.asked = [told.asked EXCEPT ![k] = exp]
    BY <2>1 DEF PlacementInv
  <2>5. /\ told'.asked \in [Request -> 0..MaxRev] /\ told'.asked[k] = exp
        /\ \A j \in Request : told.asked[j] # 0 => told'.asked[j] = told.asked[j]
    BY <1>2, <2>1, <2>4, IndexAssumption
  <2>6. rows["catalog"].rev <= rows["catalog"].rev /\ rows["catalog"].rev # 0
    BY <1>2, <2>1
  <2> HIDE DEF rec
  <2> QED BY <1>2, <2>1, <2>2, <2>3, <2>4, <2>5, <2>6, OfferKeepsPlacementInv
<1>6. ASSUME NEW r \in PlacementTermination, RecordPlacementTermination(r)
      PROVE  PlacementInv'
  <2>1. CASE Found("termination") /\ Record("termination").gen >= r.gen
    <3>1. Record("termination") = r /\ told' = [told EXCEPT !.ended = @ \cup {r}] /\ UNCHANGED <<rows, calls, now>>
      BY <1>6, <2>1 DEF RecordPlacementTermination, Repeats
    <3> QED BY <2>1, <3>1, EndedKeepsPlacementInv
  <2>2. CASE ~(Found("termination") /\ Record("termination").gen >= r.gen)
    <3>1. OfferAt("termination", rows["termination"].rev, r) /\ told' = told
      BY <1>6, <2>2 DEF RecordPlacementTermination, Offer
    <3>2. Found("termination") => Record("termination").gen < r.gen
      BY <1>2, <2>2 DEF PlacementTermination, Generation
    <3>3. rows["termination"].rev <= rows["termination"].rev
      BY <1>2
    <3> QED BY <1>2, <3>1, <3>2, <3>3, OfferKeepsPlacementInv
  <2> QED BY <2>1, <2>2
<1>7. ASSUME NEW g \in Generation, GetPlacementTermination(g)
      PROVE  PlacementInv'
  <2>1. /\ Found("termination") /\ told' = [told EXCEPT !.ended = @ \cup {Record("termination")}]
        /\ UNCHANGED <<rows, calls, now>>
    BY <1>7 DEF GetPlacementTermination
  <2> QED BY <1>2, <2>1, EndedKeepsPlacementInv
<1>8. ASSUME NEW w \in calls, Lose(w)
      PROVE  PlacementInv'
  BY <1>8 DEF PlacementInv, PlacementTypeOK, IndexTypeOK, Lose, Current, Found, Record
<1> QED BY <1>1, <1>3, <1>4, <1>5, <1>6, <1>7, <1>8, CommitKeepsPlacementInv DEF PlacementNext

\* A step of the catalog row follows it.
LEMMA CatalogFollows ==
    ASSUME PlacementInv, [PlacementNext]_vars, Found("catalog")
    PROVE  rows'["catalog"] = rows["catalog"] \/ Succeeds(Record("catalog"), Record("catalog")')
<1>1. CASE rows' = rows
  BY <1>1
<1>2. ASSUME NEW w \in calls, PlacementCommit(w)
      PROVE  rows'["catalog"] = rows["catalog"] \/ Succeeds(Record("catalog"), Record("catalog")')
  <2>1. Current(w) /\ rows' = [rows EXCEPT ![w.id] = [rev |-> rows[w.id].rev + 1, rec |-> w.rec]]
    BY <1>2 DEF PlacementCommit, Land
  <2>2. CASE w.id = "catalog"
    <3>1. Record("catalog")' = w.rec
      BY <2>1, <2>2 DEF PlacementInv, Record
    <3> QED BY <2>1, <2>2, <3>1 DEF PlacementInv
  <2>3. CASE w.id # "catalog"
    BY <2>1, <2>3 DEF PlacementInv
  <2> QED BY <2>2, <2>3
<1> QED BY <1>1, <1>2 DEF PlacementNext, CreateCatalogEntry, UpdateCatalogHostState, UpdateCatalogDesiredState,
        RecordPlacementTermination, GetPlacementTermination, Offer, OfferAt, Lose, vars

-----------------------------------------------------------------------------
(* A public creation.                                                      *)

\* A creation of the catalog row or of the command by a public caller carries
\* the reservation, and the command's stands on a catalog row of the same launch.
Rests(w) ==
    /\ w.id = "reservation" => w.rec \in PublicCreateReservation
    /\ w.id = "catalog" => w.rec \in PlainRecord \/ (Found("reservation") /\ w.rec = Record("reservation"))
    /\ w.id = "inbox" =>
          /\ Found("catalog") /\ Record("catalog").launch = w.rec.launch
          /\ \/ w.rec \in PlainRecord
             \/ Found("reservation") /\ w.rec = Record("reservation") /\ Record("catalog") = w.rec

\* Rows are created and never replaced; what is in flight rests on them, and what
\* was told is in them.
CreateInv ==
    /\ CreateTypeOK
    /\ DOMAIN rows = {"reservation", "catalog", "inbox"}
    /\ \A w \in calls : w.rev = 0 /\ w.rev < MaxRev /\ Rests(w)
    /\ Found("inbox") => Found("catalog") /\ Record("inbox").launch = Record("catalog").launch
    /\ \A r \in told.prepared : Found("reservation") /\ Record("reservation") = r /\ Prepared(r)
    /\ \A r \in told.admitted : Prepared(r) /\ Found("inbox") /\ Record("inbox") = r

\* What a row holds it keeps.
LEMMA CreatedRowsStay ==
    ASSUME CreateInv, NEW w \in calls, Land(w)
    PROVE  /\ DOMAIN rows' = DOMAIN rows /\ w.id \in DOMAIN rows /\ ~Found(w.id) /\ 0 < MaxRev
           /\ rows'[w.id] = [rev |-> 1, rec |-> w.rec]
           /\ \A i \in DOMAIN rows : Found(i) => Found(i)' /\ Record(i)' = Record(i)
           /\ \A i \in DOMAIN rows \ {w.id} : rows'[i] = rows[i]
<1>1. w.id \in DOMAIN rows /\ w.rev = 0 /\ w.rev < MaxRev /\ rows[w.id].rev = 0
  BY DEF CreateInv, CreateTypeOK, IndexTypeOK, Land, Current
<1>2. rows' = [rows EXCEPT ![w.id] = [rev |-> 1, rec |-> w.rec]]
  BY <1>1 DEF Land
<1>3. DOMAIN rows' = DOMAIN rows /\ rows'[w.id] = [rev |-> 1, rec |-> w.rec]
        /\ \A i \in DOMAIN rows \ {w.id} : rows'[i] = rows[i]
  BY <1>1, <1>2
<1>4. \A i \in DOMAIN rows : Found(i) => Found(i)' /\ Record(i)' = Record(i)
  BY <1>1, <1>3 DEF Found, Record
<1> QED BY <1>1, <1>3, <1>4 DEF Found

\* A creation that lands fills a row that was empty.
LEMMA CommitKeepsCreateInv ==
    ASSUME CreateInv, NEW w \in calls, CreateCommit(w)
    PROVE  CreateInv'
<1>1. /\ DOMAIN rows' = {"reservation", "catalog", "inbox"} /\ ~Found(w.id) /\ 0 < MaxRev
      /\ w.id \in {"reservation", "catalog", "inbox"}
      /\ rows'[w.id] = [rev |-> 1, rec |-> w.rec]
      /\ \A i \in {"reservation", "catalog", "inbox"} : Found(i) => Found(i)' /\ Record(i)' = Record(i)
      /\ \A i \in {"reservation", "catalog", "inbox"} \ {w.id} : rows'[i] = rows[i]
      /\ calls' = calls \ {w} /\ now' = now
  BY CreatedRowsStay DEF CreateInv, CreateCommit, Land
<1>2. Found(w.id)' /\ Record(w.id)' = w.rec
  BY <1>1 DEF Found, Record
<1>3. Rests(w)
  BY DEF CreateInv
<1>4. \A r \in PublicCreateReservation : r.launch # Plain
  BY CreateAssumption DEF PublicCreateReservation
<1>5. \A r \in PlainRecord : r.launch = Plain
  BY DEF PlainRecord
<1>6. Found("reservation") => Record("reservation") \in PublicCreateReservation
  BY DEF CreateInv, CreateTypeOK
<1>7. /\ told'.prepared \in {told.prepared, told.prepared \cup {w.rec}}
      /\ told'.admitted \in {told.admitted, told.admitted \cup {w.rec}}
      /\ told'.prepared # told.prepared => w.id = "catalog" /\ w.rec.launch # Plain
      /\ told'.admitted # told.admitted => w.id = "inbox" /\ w.rec.launch # Plain
      /\ told' = [prepared |-> told'.prepared, admitted |-> told'.admitted]
  <2>1. told = [prepared |-> told.prepared, admitted |-> told.admitted]
    BY DEF CreateInv, CreateTypeOK
  <2>2. \/ told' = told
        \/ w.id = "catalog" /\ w.rec.launch # Plain /\ told' = [told EXCEPT !.prepared = @ \cup {w.rec}]
        \/ w.id = "inbox" /\ w.rec.launch # Plain /\ told' = [told EXCEPT !.admitted = @ \cup {w.rec}]
    BY <1>1 DEF CreateCommit
  <2> QED BY <2>1, <2>2
<1>8. w.id \in {"catalog", "inbox"} /\ w.rec.launch # Plain =>
          /\ Found("reservation") /\ w.rec = Record("reservation") /\ w.rec \in PublicCreateReservation
          /\ w.id = "inbox" => Found("catalog") /\ Record("catalog") = w.rec
  BY <1>3, <1>5, <1>6 DEF Rests
<1>9. CreateTypeOK'
  <2>1. IndexTypeOK'
    <3>1. \A i \in DOMAIN rows' : rows'[i].rev \in 0..MaxRev /\ (~Found(i)' => rows'[i] = Absent)
      BY <1>1, <1>2, IndexAssumption DEF CreateInv, CreateTypeOK, IndexTypeOK, Found
    <3>2. \A v \in calls' : v.id \in DOMAIN rows' /\ v.rev <= rows'[v.id].rev
      BY <1>1, <3>1 DEF CreateInv, CreateTypeOK, IndexTypeOK
    <3> QED BY <1>1, <3>1, <3>2 DEF CreateInv, CreateTypeOK, IndexTypeOK, Absent
  <2>2. /\ Found("reservation")' => Record("reservation")' \in PublicCreateReservation
        /\ \A i \in {"catalog", "inbox"} : Found(i)' => Record(i)' \in PublicCreateReservation \cup PlainRecord
    BY <1>1, <1>2, <1>3, <1>6 DEF CreateInv, CreateTypeOK, Rests, Found, Record
  <2>3. told' \in [prepared : SUBSET PublicCreateReservation, admitted : SUBSET PublicCreateReservation]
    BY <1>7, <1>8 DEF CreateInv, CreateTypeOK
  <2> QED BY <2>1, <2>2, <2>3 DEF CreateTypeOK
<1>10. \A v \in calls' : v.rev = 0 /\ v.rev < MaxRev /\ Rests(v)'
  <2> SUFFICES ASSUME NEW v \in calls PROVE Rests(v)'
    BY <1>1 DEF CreateInv
  <2> QED BY <1>1 DEF CreateInv, Rests
<1>11. Found("inbox")' => Found("catalog")' /\ Record("inbox")'.launch = Record("catalog")'.launch
  <2>1. CASE w.id = "inbox"
    BY <1>1, <1>2, <1>3, <2>1 DEF Rests
  <2>2. CASE w.id # "inbox"
    <3>1. Found("inbox")' = Found("inbox") /\ Record("inbox")' = Record("inbox")
      BY <1>1, <2>2 DEF Found, Record
    <3> QED BY <1>1, <3>1 DEF CreateInv
  <2> QED BY <2>1, <2>2
<1>12. \A r \in told'.prepared : Found("reservation")' /\ Record("reservation")' = r /\ Prepared(r)'
  <2> SUFFICES ASSUME NEW r \in told'.prepared
               PROVE  Found("reservation")' /\ Record("reservation")' = r /\ Found("catalog")' /\ Record("catalog")' = r
    BY DEF Prepared
  <2>1. CASE r \in told.prepared
    BY <1>1, <2>1 DEF CreateInv, Prepared
  <2>2. CASE r \notin told.prepared
    BY <1>1, <1>2, <1>7, <1>8, <2>2
  <2> QED BY <2>1, <2>2
<1>13. \A r \in told'.admitted : Prepared(r)' /\ Found("inbox")' /\ Record("inbox")' = r
  <2> SUFFICES ASSUME NEW r \in told'.admitted
               PROVE  Found("catalog")' /\ Record("catalog")' = r /\ Found("inbox")' /\ Record("inbox")' = r
    BY DEF Prepared
  <2>1. CASE r \in told.admitted
    BY <1>1, <2>1 DEF CreateInv, Prepared
  <2>2. CASE r \notin told.admitted
    BY <1>1, <1>2, <1>7, <1>8, <2>2
  <2> QED BY <2>1, <2>2
<1> QED BY <1>1, <1>9, <1>10, <1>11, <1>12, <1>13 DEF CreateInv

\* An offered creation.
LEMMA OfferKeepsCreateInv ==
    ASSUME CreateInv, NEW i \in {"reservation", "catalog", "inbox"}, NEW rec, OfferAt(i, 0, rec), told' = told,
           Rests([id |-> i, rev |-> 0, rec |-> rec])
    PROVE  CreateInv'
<1> DEFINE w == [id |-> i, rev |-> 0, rec |-> rec]
<1>1. calls' = calls \cup {w} /\ rows' = rows /\ now' = now /\ 0 < MaxRev
  BY DEF OfferAt
<1>2. CreateTypeOK'
  <2>1. 0 <= rows[i].rev
    BY IndexAssumption DEF CreateInv, CreateTypeOK, IndexTypeOK
  <2>2. IndexTypeOK'
    BY <1>1, <2>1 DEF CreateInv, CreateTypeOK, IndexTypeOK, Found
  <2> QED BY <1>1, <2>2 DEF CreateInv, CreateTypeOK, Found, Record
<1>3. \A v \in calls' : v.rev = 0 /\ v.rev < MaxRev /\ Rests(v)
  BY <1>1 DEF CreateInv
<1> QED BY <1>1, <1>2, <1>3 DEF CreateInv, Rests, Found, Record, Prepared

\* Every step of a creation, or of the callers beside it, keeps its invariant.
LEMMA CreateStep ==
    ASSUME CreateInv, [CreateNext]_vars
    PROVE  CreateInv'
<1>1. CASE UNCHANGED vars
  BY <1>1 DEF CreateInv, CreateTypeOK, IndexTypeOK, Rests, vars, Found, Record, Prepared
<1>2. told = [prepared |-> told.prepared, admitted |-> told.admitted]
  BY DEF CreateInv, CreateTypeOK
<1>3. Found("reservation") => Record("reservation") \in PublicCreateReservation
  BY DEF CreateInv, CreateTypeOK
<1>4. ASSUME NEW launch \in Launch, NEW proposal \in Proposal, Reserve(launch, proposal)
      PROVE  CreateInv'
  <2> DEFINE rec == [launch |-> launch, proposal |-> proposal]
  <2>1. OfferAt("reservation", 0, rec) /\ told' = told
    BY <1>4 DEF Reserve
  <2>2. Rests([id |-> "reservation", rev |-> 0, rec |-> rec])
    BY DEF PublicCreateReservation, Rests
  <2> HIDE DEF rec
  <2> QED BY <2>1, <2>2, OfferKeepsCreateInv
<1>5. ASSUME NEW launch \in Launch, NEW proposal \in Proposal, PreparePublicCreate(launch, proposal)
      PROVE  CreateInv'
  <2> DEFINE r == Record("reservation")
  <2>1. Found("reservation") /\ r \in PublicCreateReservation
    BY <1>3, <1>5 DEF PreparePublicCreate, Reserved
  <2>2. CASE Found("catalog")
    <3>1. /\ Prepared(r) /\ UNCHANGED <<rows, calls, now>>
          /\ told' = [told EXCEPT !.prepared = @ \cup {r}]
      BY <1>5, <2>2 DEF PreparePublicCreate, Winner
    <3>2. told' = [prepared |-> told.prepared \cup {r}, admitted |-> told.admitted]
      BY <1>2, <3>1
    <3>3. CreateTypeOK'
      BY <2>1, <3>1, <3>2 DEF CreateInv, CreateTypeOK, IndexTypeOK, Found, Record
    <3> QED BY <2>1, <3>1, <3>2, <3>3 DEF CreateInv, Rests, Found, Record, Prepared
  <2>3. CASE ~Found("catalog")
    <3>1. OfferAt("catalog", 0, r) /\ told' = told
      BY <1>5, <2>3 DEF PreparePublicCreate, Winner
    <3>2. Rests([id |-> "catalog", rev |-> 0, rec |-> r])
      BY <2>1 DEF Rests
    <3> QED BY <3>1, <3>2, OfferKeepsCreateInv
  <2> QED BY <2>2, <2>3
<1>6. ASSUME NEW launch \in Launch, AdmitPublicCreate(launch)
      PROVE  CreateInv'
  <2> DEFINE r == Record("reservation")
  <2>1. Found("reservation") /\ r \in PublicCreateReservation /\ Found("catalog") /\ Record("catalog") = r
    BY <1>3, <1>6 DEF AdmitPublicCreate, Reserved, Prepared
  <2>2. CASE Found("inbox")
    <3>1. /\ Record("inbox") = r /\ UNCHANGED <<rows, calls, now>>
          /\ told' = [told EXCEPT !.admitted = @ \cup {r}]
      BY <1>6, <2>2 DEF AdmitPublicCreate
    <3>2. told' = [prepared |-> told.prepared, admitted |-> told.admitted \cup {r}]
      BY <1>2, <3>1
    <3>3. CreateTypeOK'
      BY <2>1, <3>1, <3>2 DEF CreateInv, CreateTypeOK, IndexTypeOK, Found, Record
    <3> QED BY <2>1, <2>2, <3>1, <3>2, <3>3 DEF CreateInv, Rests, Found, Record, Prepared
  <2>3. CASE ~Found("inbox")
    <3>1. OfferAt("inbox", 0, r) /\ told' = told
      BY <1>6, <2>3 DEF AdmitPublicCreate
    <3>2. Rests([id |-> "inbox", rev |-> 0, rec |-> r])
      BY <2>1 DEF Rests
    <3> QED BY <3>1, <3>2, OfferKeepsCreateInv
  <2> QED BY <2>2, <2>3
<1>7. ASSUME NEW proposal \in Proposal, CreatePlainCatalogEntry(proposal)
      PROVE  CreateInv'
  <2> DEFINE rec == [launch |-> Plain, proposal |-> proposal]
  <2>1. OfferAt("catalog", 0, rec) /\ told' = told
    BY <1>7 DEF CreatePlainCatalogEntry
  <2>2. Rests([id |-> "catalog", rev |-> 0, rec |-> rec])
    BY DEF PlainRecord, Rests
  <2> HIDE DEF rec
  <2> QED BY <2>1, <2>2, OfferKeepsCreateInv
<1>8. ASSUME NEW proposal \in Proposal, AdmitPlain(proposal)
      PROVE  CreateInv'
  <2> DEFINE rec == [launch |-> Plain, proposal |-> proposal]
  <2>1. OfferAt("inbox", 0, rec) /\ told' = told /\ Found("catalog") /\ Record("catalog").launch = rec.launch
    BY <1>8 DEF AdmitPlain, PlainAdmissible
  <2>2. Rests([id |-> "inbox", rev |-> 0, rec |-> rec])
    BY <2>1 DEF PlainRecord, Rests
  <2> HIDE DEF rec
  <2> QED BY <2>1, <2>2, OfferKeepsCreateInv
<1>9. ASSUME NEW w \in calls, Lose(w)
      PROVE  CreateInv'
  BY <1>9 DEF CreateInv, CreateTypeOK, IndexTypeOK, Rests, Lose, Found, Record, Prepared
<1> QED BY <1>1, <1>4, <1>5, <1>6, <1>7, <1>8, <1>9, CommitKeepsCreateInv DEF CreateNext

\* A creation begins with its invariant.
LEMMA CreateStart == ASSUME CreateInit PROVE CreatePart /\ CreateInv
<1>1. /\ DOMAIN rows = {"reservation", "catalog", "inbox"} /\ \A i \in DOMAIN rows : rows[i] = Absent
      /\ calls = {} /\ now = 0 /\ told = [prepared |-> {}, admitted |-> {}]
  BY DEF CreateInit
<1>2. \A i \in DOMAIN rows : ~Found(i) /\ rows[i].rev = 0
  BY <1>1 DEF Found, Absent
<1>3. IndexTypeOK
  BY <1>1, <1>2, IndexAssumption DEF IndexTypeOK
<1>4. CreateTypeOK
  BY <1>1, <1>2, <1>3 DEF CreateTypeOK
<1> QED BY <1>1, <1>2, <1>4 DEF CreateInv, CreatePart

-----------------------------------------------------------------------------
\* Init chooses the rows of one part.
LEMMA InitParts ==
    ASSUME Init
    PROVE  /\ FencedPart => FencedInit
           /\ ConsumptionPart => ConsumptionInit
           /\ ClaimPart => ClaimInit
           /\ PlacementPart => PlacementInit
           /\ CreatePart => CreateInit
<1>1. FencedInit => FencedPart
  BY FencedStart
<1>2. ConsumptionInit => ConsumptionPart
  BY DEF ConsumptionInit, ConsumptionPart
<1>3. ClaimInit => ClaimPart
  BY DEF ClaimInit, ClaimPart
<1>4. PlacementInit => PlacementPart
  BY DEF PlacementInit, PlacementPart
<1>5. CreateInit => CreatePart
  BY DEF CreateInit, CreatePart
<1> QED BY <1>1, <1>2, <1>3, <1>4, <1>5, OnePart DEF Init

\* What callers of a fenced row were told stands, whatever calls of superseded
\* Hosts are in flight, for any number of epochs and sequences.
THEOREM ToldForGood == Spec => []ToldStands
<1> DEFINE Inv == FencedPart => FencedInv
<1>1. Init => Inv
  BY InitParts, FencedStart
<1>2. Inv /\ [Next]_vars => Inv'
  BY PartSteps, FencedStep
<1>3. Inv => ToldStands
  BY DEF FencedInv, ToldStands
<1> QED BY <1>1, <1>2, <1>3, PTL DEF Spec

\* No two replicas count on one claim at once, for any number of replicas and
\* any skew of their clocks.
THEOREM OneReplica == Spec => []OneReplicaReconciles
<1> DEFINE Inv == ClaimPart => ClaimInv
<1>1. Init => Inv
  BY InitParts, ClaimStart
<1>2. Inv /\ [Next]_vars => Inv'
  BY PartSteps, ClaimStep
<1>3. Inv => OneReplicaReconciles
  BY DEF ClaimInv, OneReplicaReconciles
<1> QED BY <1>1, <1>2, <1>3, PTL DEF Spec

\* No writer of the catalog row undoes another's half, and a generation names
\* one desired state, for any number of generations, epochs and calls.
THEOREM HalvesStand == Spec => NeitherHalfUndone
<1> DEFINE Inv == PlacementPart => PlacementInv
           Step == PlacementPart /\ Found("catalog") =>
               LET c == Record("catalog")
                   d == Record("catalog")'
               IN  /\ c.epoch <= d.epoch /\ c.seq <= d.seq
                   /\ c.gen <= d.gen /\ (c.gen = d.gen => c.key = d.key)
<1>1. Init => Inv
  BY InitParts, PlacementStart
<1>2. Inv /\ [Next]_vars => Inv'
  BY PartSteps, PlacementStep
<1>3. Inv /\ [Next]_vars => [Step]_vars
  <2> SUFFICES ASSUME PlacementPart, PlacementInv, [PlacementNext]_vars, Found("catalog")
               PROVE  /\ Record("catalog").epoch <= Record("catalog")'.epoch
                      /\ Record("catalog").seq <= Record("catalog")'.seq
                      /\ Record("catalog").gen <= Record("catalog")'.gen
                      /\ Record("catalog").gen = Record("catalog")'.gen => Record("catalog").key = Record("catalog")'.key
    BY PartSteps
  <2>1. Record("catalog") \in CatalogRecord
    BY DEF PlacementInv, PlacementTypeOK
  <2>2. rows'["catalog"] = rows["catalog"] \/ Succeeds(Record("catalog"), Record("catalog")')
    BY CatalogFollows
  <2>3. Record("catalog").epoch \in Nat /\ Record("catalog").seq \in Nat /\ Record("catalog").gen \in Nat
    BY <2>1, PlacementAssumption DEF CatalogRecord, Generation
  <2>4. CASE rows'["catalog"] = rows["catalog"]
    BY <2>3, <2>4 DEF Record
  <2>5. CASE Succeeds(Record("catalog"), Record("catalog")')
    BY <2>5 DEF Succeeds
  <2> QED BY <2>2, <2>4, <2>5
<1>4. NeitherHalfUndone <=> [][Step]_vars
  BY DEF NeitherHalfUndone
<1> QED BY <1>1, <1>2, <1>3, <1>4, PTL DEF Spec

\* A desired write becomes one generation however often it is retried.
THEOREM AppliedOnce == Spec => []RequestAppliedOnce
<1> DEFINE Inv == PlacementPart => PlacementInv
<1>1. Init => Inv
  BY InitParts, PlacementStart
<1>2. Inv /\ [Next]_vars => Inv'
  BY PartSteps, PlacementStep
<1>3. Inv => RequestAppliedOnce
  BY DEF PlacementInv, RequestAppliedOnce
<1> QED BY <1>1, <1>2, <1>3, PTL DEF Spec

\* What was told of a generation's end stays recorded until a later one ends.
THEOREM OutcomesStand == Spec => []ToldOutcomesStand
<1> DEFINE Inv == PlacementPart => PlacementInv
<1>1. Init => Inv
  BY InitParts, PlacementStart
<1>2. Inv /\ [Next]_vars => Inv'
  BY PartSteps, PlacementStep
<1>3. Inv => ToldOutcomesStand
  BY DEF PlacementInv, ToldOutcomesStand
<1> QED BY <1>1, <1>2, <1>3, PTL DEF Spec

\* All who are told of a creation are told the same, which the rows hold, for
\* any number of callers, launches and proposals.
THEOREM CreationsConverge == Spec => []CreateConverges
<1> DEFINE Inv == CreatePart => CreateInv
<1>1. Init => Inv
  BY InitParts, CreateStart
<1>2. Inv /\ [Next]_vars => Inv'
  BY PartSteps, CreateStep
<1>3. Inv => CreateConverges
  BY DEF CreateInv, CreateConverges
<1> QED BY <1>1, <1>2, <1>3, PTL DEF Spec

\* Hosts of any number of epochs are handed every command in order and once
\* from where they started, and the cursor passes over none, however many
\* commands there are, whatever rows are destroyed and whatever is answered.
THEOREM NothingPassedOver == Spec => []NoCommandPassedOver
<1> DEFINE Inv == ConsumptionPart => ConsumptionInv
<1>1. Init => Inv
  BY InitParts, ConsumptionStart
<1>2. Inv /\ [Next]_vars => Inv'
  BY PartSteps, ConsumptionStep
<1>3. Inv => NoCommandPassedOver
  <2> SUFFICES ASSUME ConsumptionPart, ConsumptionInv
               PROVE  /\ \A e \in Mark : \A i \in DOMAIN told.handed[e] : told.handed[e][i] = told.from[e] + i
                      /\ Found("cursor") => \A o \in 1..Record("cursor").order : Handed(o)
    BY DEF NoCommandPassedOver, Handed
  <2>1. ASSUME NEW e \in Mark, told.at[e] = None PROVE DOMAIN told.handed[e] = {}
    BY <2>1 DEF ConsumptionInv
  <2> QED BY <2>1 DEF ConsumptionInv
<1> QED BY <1>1, <1>2, <1>3, PTL DEF Spec

\* Every row, every write on its way and everything told stays what the code
\* can store and say.
THEOREM TypeCorrect == Spec => []TypeOK
<1> DEFINE Inv == \/ FencedPart /\ FencedInv
                  \/ ConsumptionPart /\ ConsumptionInv
                  \/ ClaimPart /\ ClaimInv
                  \/ PlacementPart /\ PlacementInv
                  \/ CreatePart /\ CreateInv
<1>1. Init => Inv
  BY FencedStart, ConsumptionStart, ClaimStart, PlacementStart, CreateStart DEF Init
<1>2. Inv /\ [Next]_vars => Inv'
  BY PartSteps, FencedStep, ConsumptionStep, ClaimStep, PlacementStep, CreateStep
<1>3. Inv => TypeOK
  BY DEF TypeOK, FencedInv, ConsumptionInv, ClaimInv, PlacementInv, CreateInv
<1> QED BY <1>1, <1>2, <1>3, PTL DEF Spec
-----------------------------------------------------------------------------
(* Fenced rows as registers.                                               *)

\* What a write may make of the row it replaces: neither number falls, and a
\* tombstone keeps the order, and is not put over one that says as much.
FencedEdge(r, next) ==
    /\ r.mark <= next.mark /\ r.order <= next.order
    /\ ~next.live => next.order = r.order /\ (r.live \/ r.mark < next.mark)
SucceedsRow(i, rec) == IF Found(i) THEN FencedEdge(Record(i), rec) ELSE rec.live

\* A write that is current succeeds the row it replaces.
SuccessorInv == \A w \in calls : Current(w) => SucceedsRow(w.id, w.rec)

RowsOnlySucceed ==
    FencedPart => \A i \in DOMAIN rows : rows'[i] = rows[i] \/ SucceedsRow(i, Record(i)')

\* Every operation on a fenced row tells, or writes what succeeds the row it read.
LEMMA FencedDecides ==
    ASSUME FencedInv, FencedNext
    PROVE  \/ \E i \in DOMAIN rows : \E rec : Write(i, rec) /\ SucceedsRow(i, rec)
           \/ UNCHANGED <<rows, calls>>
           \/ \E w \in calls : Commit(w) \/ Lose(w)
<1>1. ASSUME NEW mark \in Mark, PutHostRegistration(mark)
      PROVE  \E i \in DOMAIN rows : \E rec : Write(i, rec) /\ SucceedsRow(i, rec)
  <2> DEFINE i == "registration"
             rec == [mark |-> mark, order |-> 0, live |-> TRUE]
  <2>1. i \in DOMAIN rows /\ Write(i, rec) /\ (Found(i) => Record(i).mark <= mark)
    BY <1>1 DEF PutHostRegistration, Has, EpochFence
  <2>2. Found(i) => Record(i).order = 0
    BY <2>1 DEF FencedInv, FencedTypeOK, FencedRecord, HostRegistration
  <2>3. SucceedsRow(i, rec)
    BY <2>1, <2>2 DEF SucceedsRow, FencedEdge
  <2> QED BY <2>1, <2>3
<1>2. ASSUME NEW mark \in Mark, NEW i, Clear(i, mark)
      PROVE  \/ \E j \in DOMAIN rows : \E rec : Write(j, rec) /\ SucceedsRow(j, rec)
             \/ UNCHANGED <<rows, calls>>
  <2> DEFINE rec == [mark |-> mark, order |-> Record(i).order, live |-> FALSE]
  <2>1. CASE AlreadyCleared(i, mark)
    BY <1>2, <2>1 DEF Clear
  <2>2. CASE ~AlreadyCleared(i, mark)
    <3>1. /\ i \in DOMAIN rows /\ Found(i) /\ Record(i).mark <= mark /\ Write(i, rec)
          /\ Record(i).live \/ Record(i).mark # mark
      BY <1>2, <2>2 DEF Clear, Has, EpochFence, AlreadyCleared
    <3>2. Record(i).mark \in Nat /\ Record(i).order \in Nat /\ mark \in Nat
      BY <3>1, FencedRecordType, FencedAssumption DEF FencedInv, FencedTypeOK, Mark
    <3>3. rec.mark = mark /\ rec.order = Record(i).order /\ ~rec.live
      OBVIOUS
    <3> HIDE DEF rec
    <3>4. SucceedsRow(i, rec)
      BY <3>1, <3>2, <3>3 DEF SucceedsRow, FencedEdge
    <3> QED BY <3>1, <3>4
  <2> QED BY <2>1, <2>2
<1>3. ASSUME NEW mark \in Mark, NEW order \in Order, SetSessionPointer(mark, order)
      PROVE  \E i \in DOMAIN rows : \E rec : Write(i, rec) /\ SucceedsRow(i, rec)
  <2> DEFINE rec == [mark |-> mark, order |-> order, live |-> TRUE]
  <2>1. "pointer" \in DOMAIN rows /\ Write("pointer", rec) /\ SucceedsRow("pointer", rec)
    BY <1>3 DEF SetSessionPointer, Has, EpochFence, SequenceFence, SucceedsRow, FencedEdge
  <2> QED BY <2>1
<1>4. ASSUME NEW mark \in Mark, NEW order \in Order, SaveDispositionCommandCursor(mark, order)
      PROVE  \E i \in DOMAIN rows : \E rec : Write(i, rec) /\ SucceedsRow(i, rec)
  <2> DEFINE rec == [mark |-> mark, order |-> order, live |-> TRUE]
  <2>1. "cursor" \in DOMAIN rows /\ Write("cursor", rec) /\ SucceedsRow("cursor", rec)
    BY <1>4 DEF SaveDispositionCommandCursor, Has, EpochFence, OrderFence, SucceedsRow, FencedEdge
  <2> QED BY <2>1
<1>5. ASSUME NEW i, Show(i) PROVE UNCHANGED <<rows, calls>>
  BY <1>5 DEF Show
<1> QED
  BY <1>1, <1>2, <1>3, <1>4, <1>5 DEF FencedNext, ClearHostRegistration, ClearSessionPointer, GetHostRegistration,
     GetSessionPointer, LoadDispositionCommandCursor

\* What lands was current; what was prepared for the row it replaces no longer is.
LEMMA LandingSucceeds ==
    ASSUME FencedInv, SuccessorInv, NEW w \in calls, Land(w)
    PROVE  SuccessorInv' /\ RowsOnlySucceed
<1>1. /\ w.id \in DOMAIN rows /\ SucceedsRow(w.id, w.rec) /\ rows[w.id].rev = w.rev /\ w.rev \in Nat
      /\ rows' = [rows EXCEPT ![w.id] = [rev |-> rows[w.id].rev + 1, rec |-> w.rec]]
      /\ calls' = calls \ {w}
  BY DEF Land, Current, SuccessorInv, FencedInv, FencedTypeOK, IndexTypeOK
<1>2. /\ DOMAIN rows = {w.id} /\ rows'[w.id].rev = w.rev + 1 /\ Record(w.id)' = w.rec
  BY <1>1 DEF FencedInv, Record
<1>3. \A v \in calls' : ~Current(v)'
  <2> SUFFICES ASSUME NEW v \in calls' PROVE ~Current(v)'
    OBVIOUS
  <2>1. v \in calls /\ v.id = w.id /\ v.rev \in Nat /\ v.rev <= w.rev
    BY <1>1, <1>2 DEF FencedInv, FencedTypeOK, IndexTypeOK
  <2> QED BY <1>1, <1>2, <2>1 DEF Current
<1>4. RowsOnlySucceed
  BY <1>1, <1>2 DEF RowsOnlySucceed
<1> QED BY <1>3, <1>4 DEF SuccessorInv

LEMMA SuccessorStep ==
    ASSUME FencedInv, SuccessorInv, [FencedNext]_vars
    PROVE  SuccessorInv' /\ RowsOnlySucceed
<1>1. ASSUME rows' = rows, calls' \subseteq calls PROVE SuccessorInv' /\ RowsOnlySucceed
  BY <1>1 DEF SuccessorInv, Current, SucceedsRow, Found, Record, RowsOnlySucceed
<1>2. CASE UNCHANGED vars
  BY <1>1, <1>2 DEF vars
<1>3. ASSUME NEW i \in DOMAIN rows, NEW rec, Write(i, rec), SucceedsRow(i, rec)
      PROVE  SuccessorInv' /\ RowsOnlySucceed
  <2> DEFINE w == [id |-> i, rev |-> rows[i].rev, rec |-> rec]
  <2>1. calls' = calls \cup {w} /\ rows' = rows /\ w.id = i /\ w.rec = rec
    BY <1>3 DEF Write, Offer, OfferAt
  <2> HIDE DEF w
  <2>2. \A v \in calls' : Current(v) => SucceedsRow(v.id, v.rec)
    BY <1>3, <2>1 DEF SuccessorInv
  <2>3. SuccessorInv'
    BY <2>1, <2>2 DEF SuccessorInv, Current, SucceedsRow, Found, Record
  <2> QED BY <2>1, <2>3 DEF RowsOnlySucceed
<1>4. ASSUME NEW w \in calls, Commit(w) \/ Lose(w) PROVE SuccessorInv' /\ RowsOnlySucceed
  BY <1>1, <1>4, LandingSucceeds DEF Commit, Lose
<1>5. CASE FencedNext
  <2>1. CASE UNCHANGED <<rows, calls>>
    BY <1>1, <2>1
  <2> QED BY <1>3, <1>4, <1>5, <2>1, FencedDecides
<1> QED BY <1>2, <1>5

\* A fenced row takes each landing write as if its operation were run then,
\* all of it at once: the row it replaces passes the operation's fences, and a
\* tombstone carries the order of the very row it clears, however many others
\* wrote since it was decided.  (epochFence, pointerSequenceFence,
\* dispositionCursorOrderFence and both clears, each at the revision read.)
THEOREM FencedRowsOnlySucceed == Spec => [][RowsOnlySucceed]_vars
<1> DEFINE Inv == FencedPart => FencedInv /\ SuccessorInv
<1>1. Init => Inv
  BY InitParts, FencedStart DEF FencedInit, SuccessorInv
<1>2. Inv /\ [Next]_vars => Inv' /\ [RowsOnlySucceed]_vars
  BY PartSteps, FencedStep, SuccessorStep DEF RowsOnlySucceed
<1> QED BY <1>1, <1>2, PTL DEF Spec
=============================================================================
