------------------------ MODULE DeadlineSweepsProofs ------------------------
(***************************************************************************)
(* Theorems about the rows that sweeps find by their due time, for every   *)
(* number of Hosts, gates and calls, every clock skew and every age of a   *)
(* remnant that is longer than an OpenGate can last.                       *)
(*                                                                         *)
(* A gate and its deadline are two rows, so what an operation may still do *)
(* depends on how far it is: CallOK says, of each call at each stage, what *)
(* it may rely on.  A gate about to be projected has an intent, and one    *)
(* that is no longer due is so old that the call has run out of time; the  *)
(* sweep that would retire an intent knows it as old as that and, if the   *)
(* row is still the one it listed, its gate as closed.                     *)
(***************************************************************************)
EXTENDS DeadlineSweeps, FiniteSetTheorems, WellFoundedInduction, TLAPS

-----------------------------------------------------------------------------
(* Gates.                                                                  *)

DueNow(g) == Found(g) /\ Record(g).filing = "due"
\* The intent is so old that whoever wrote it can no longer open its gate.
Aged(g) == Record(g).at + MinRemnantAge <= now + Skew

RowsOK ==
    /\ DOMAIN rows = {"catalog"} \cup Gate
    /\ \A i \in {"catalog"} \cup Gate : rows[i].rev \in Nat
    /\ rows["catalog"].rev # 0 /\ Catalog \in CatalogRecord
    /\ \A g \in Gate : Found(g) => Record(g) \in GateIntent

\* The catalog a call read is behind, or it may write it.
MayWriteCatalog(c) ==
    /\ c.catalog <= rows["catalog"].rev
    /\ c.catalog = rows["catalog"].rev => Catalog.mark <= c.by

Opening(c) ==
    /\ c.stage \in {"begun", "intent", "restamp", "project", "fence"}
    /\ c.then \in {"done", "fence", "project"}
    /\ c.began <= c.at
    /\ c.stage = "restamp" => Found(c.gate)
    /\ c.stage = "project" =>
          Found(c.gate) /\ c.at <= Record(c.gate).at /\ (Overlap \/ DueNow(c.gate) \/ Aged(c.gate))
    /\ Disposition /\ c.then = "done" /\ c.stage \in {"intent", "restamp"} => c.by <= Catalog.mark

Resolving(c) ==
    /\ c.stage \in {"begun", "fence", "clear", "retire", "delete"}
    /\ c.stage \in {"fence", "retire", "delete"} => Overlap \/ ~Open(c.gate)
    /\ c.stage = "delete" => Found(c.gate)
    /\ Disposition /\ c.stage \in {"retire", "delete"} => c.by <= Catalog.mark

Retiring(c) ==
    /\ c.stage \in {"begun", "aged", "closed"}
    /\ Found(c.gate) /\ c.intent <= rows[c.gate].rev
    /\ c.stage \in {"aged", "closed"} /\ c.intent = rows[c.gate].rev => DueNow(c.gate) /\ Aged(c.gate)
    /\ c.stage = "closed" /\ c.intent = rows[c.gate].rev => ~Open(c.gate)

CallOK(c) ==
    /\ MayWriteCatalog(c)
    /\ c.kind = "open" => Opening(c)
    /\ c.kind = "resolve" => Resolving(c)
    /\ c.kind = "retire" => Retiring(c)

\* Where nothing overlaps, a gate is not resolved while it is being opened, nor
\* resolved twice.
Alone ==
    Overlap \/ \A c, d \in calls : c.gate = d.gate /\ c.kind # "retire" /\ d.kind # "retire" /\ c # d =>
        c.kind = "open" /\ d.kind = "open"

Deadlines == Overlap \/ \A g \in Gate : Open(g) => DueNow(g)
Marks == Disposition => told.mark <= Catalog.mark

GatesInv ==
    /\ RowsOK
    /\ now \in Nat /\ told \in [part : {"gates"}, mark : 0..MaxEpoch]
    /\ calls \subseteq GateCall
    /\ \A c \in calls : CallOK(c)
    /\ Alone /\ Deadlines /\ Marks


\* The bounds, and that a gate is not the catalog's row.
LEMMA GateFacts ==
    /\ MinRemnantAge \in Nat /\ MaxOpenSpan \in Nat /\ Skew \in Nat /\ MaxEpoch \in Nat
    /\ MaxOpenSpan + Skew < MinRemnantAge /\ "catalog" \notin Gate
    /\ \A e \in Epoch : e \in 0..MaxEpoch
BY GateAssumption, IndexAssumption DEF Epoch

\* A call that is not the one that acts keeps what it relies on: when no row is
\* written,
LEMMA KeptBySameRows ==
    ASSUME GatesInv, NEW d, CallOK(d), rows' = rows, now' = now
    PROVE  CallOK(d)'
BY DEF CallOK, MayWriteCatalog, Opening, Resolving, Retiring, DueNow, Aged, Found, Record, Open, Catalog,
   Disposition

\* when time passes,
LEMMA KeptByTime ==
    ASSUME GatesInv, NEW d \in calls, rows' = rows, now' = now + 1
    PROVE  CallOK(d)'
<1>1. CallOK(d) /\ d \in GateCall /\ now \in Nat
  BY DEF GatesInv
<1>2. ASSUME NEW g \in Gate, Found(g), Aged(g) PROVE Aged(g)'
  <2>1. Record(g).at \in Nat
    BY <1>2 DEF GatesInv, RowsOK, GateIntent
  <2> QED BY <1>1, <1>2, <2>1, GateFacts DEF Aged, Record
<1>3. d.gate \in Gate
  BY <1>1 DEF GateCall
<1> QED BY <1>1, <1>2, <1>3
        DEF CallOK, MayWriteCatalog, Opening, Resolving, Retiring, DueNow, Found, Record, Open, Catalog, Disposition

CatalogBecomes(r) == rows' = [rows EXCEPT !["catalog"] = [rev |-> rows["catalog"].rev + 1, rec |-> r]]
IntentBecomes(g, r) == rows' = [rows EXCEPT ![g] = [rev |-> rows[g].rev + 1, rec |-> r]]

\* when the catalog is written by another, without opening what it has to find
\* closed,
LEMMA KeptByCatalog ==
    ASSUME GatesInv, NEW d \in calls, now' = now, NEW r \in CatalogRecord, CatalogBecomes(r),
           r.mode = Catalog.mode, Catalog.mark <= r.mark,
           d.gate \in r.open =>
              /\ Overlap \/ Open(d.gate) \/ ~(d.kind = "resolve" /\ d.stage \in {"fence", "retire", "delete"})
              /\ Open(d.gate) \/ ~(d.kind = "retire" /\ d.stage = "closed" /\ d.intent = rows[d.gate].rev)
    PROVE  CallOK(d)'
<1>1. CallOK(d) /\ d \in GateCall /\ RowsOK
  BY DEF GatesInv
<1>2. /\ d.gate \in Gate /\ d.gate # "catalog" /\ d.catalog \in Nat /\ d.by \in 0..MaxEpoch /\ d.intent \in Nat
      /\ rows["catalog"].rev \in Nat /\ r.mark \in 0..MaxEpoch /\ Catalog.mark \in 0..MaxEpoch /\ MaxEpoch \in Nat
  BY <1>1, GateFacts DEF GateCall, RowsOK, CatalogRecord
<1>3. /\ rows'["catalog"].rev = rows["catalog"].rev + 1 /\ Catalog' = r
      /\ rows'[d.gate] = rows[d.gate]
  BY <1>1, <1>2 DEF CatalogBecomes, RowsOK, Catalog, Record
<1>4. /\ (Disposition' <=> Disposition) /\ (Open(d.gate)' <=> d.gate \in r.open) /\ Catalog'.mark = r.mark
      /\ (Found(d.gate)' <=> Found(d.gate)) /\ Record(d.gate)' = Record(d.gate)
      /\ (DueNow(d.gate)' <=> DueNow(d.gate)) /\ (Aged(d.gate)' <=> Aged(d.gate))
  BY <1>3 DEF Disposition, Open, Found, Record, DueNow, Aged
<1>5. MayWriteCatalog(d)'
  BY <1>1, <1>2, <1>3 DEF CallOK, MayWriteCatalog
<1>6. d.kind = "open" => Opening(d)'
  BY <1>1, <1>2, <1>4 DEF CallOK, Opening
<1>7. d.kind = "resolve" => Resolving(d)'
  BY <1>1, <1>2, <1>4 DEF CallOK, Resolving
<1>8. d.kind = "retire" => Retiring(d)'
  BY <1>1, <1>2, <1>3, <1>4 DEF CallOK, Retiring
<1> QED BY <1>5, <1>6, <1>7, <1>8 DEF CallOK

\* and when the intent is written by another, to be due or of an age that ends
\* its opening.
LEMMA KeptByIntent ==
    ASSUME GatesInv, NEW d \in calls, NEW g \in Gate, now' = now, NEW r \in GateIntent, IntentBecomes(g, r),
           Found(g) => Record(g).at <= r.at,
           d.gate = g /\ d.kind = "open" /\ d.stage = "project" =>
              Overlap \/ r.filing = "due" \/ r.at + MinRemnantAge <= now + Skew
    PROVE  CallOK(d)'
<1>1. CallOK(d) /\ d \in GateCall /\ RowsOK /\ g # "catalog" /\ d.gate # "catalog" /\ d.gate \in Gate
  BY GateFacts DEF GatesInv, GateCall
<1>2. rows'["catalog"] = rows["catalog"] /\ Catalog' = Catalog /\ (Disposition' <=> Disposition)
      /\ (Open(d.gate)' <=> Open(d.gate))
  BY <1>1 DEF IntentBecomes, RowsOK, Catalog, Record, Disposition, Open
<1>3. CASE d.gate # g
  <2>1. rows'[d.gate] = rows[d.gate]
    BY <1>1, <1>3 DEF IntentBecomes, RowsOK
  <2> QED BY <1>1, <1>2, <2>1
          DEF CallOK, MayWriteCatalog, Opening, Resolving, Retiring, DueNow, Aged, Found, Record, Open
<1>4. CASE d.gate = g
  <2>1. rows'[g].rev = rows[g].rev + 1 /\ rows'[g].rec = r /\ rows[g].rev \in Nat /\ rows'[g].rev # 0
    <3>1. rows'[g] = [rev |-> rows[g].rev + 1, rec |-> r] /\ rows[g].rev \in Nat
      BY <1>1 DEF IntentBecomes, RowsOK
    <3> QED BY <3>1
  <2>2. Found(g)' /\ Record(g)' = r /\ (DueNow(g)' <=> r.filing = "due")
        /\ (Aged(g)' <=> r.at + MinRemnantAge <= now + Skew)
    BY <2>1 DEF Found, Record, DueNow, Aged
  <2>3. MayWriteCatalog(d)'
    BY <1>1, <1>2 DEF CallOK, MayWriteCatalog
  <2>4. d.kind = "open" => Opening(d)'
    <3>1. d.at \in Nat /\ r.at \in Nat /\ (Found(g) => Record(g).at \in Nat)
      BY <1>1 DEF GateCall, GateIntent, RowsOK
    <3> QED BY <1>1, <1>2, <1>4, <2>2, <3>1 DEF CallOK, Opening
  <2>5. d.kind = "resolve" => Resolving(d)'
    BY <1>1, <1>2, <1>4, <2>2 DEF CallOK, Resolving
  <2>6. d.kind = "retire" => Retiring(d)'
    <3>1. d.intent \in Nat
      BY <1>1 DEF GateCall
    <3> QED BY <1>1, <1>2, <1>4, <2>1, <2>2, <3>1 DEF CallOK, Retiring
  <2> QED BY <2>3, <2>4, <2>5, <2>6 DEF CallOK
<1> QED BY <1>3, <1>4

\* Of what a catalog write leaves the rows and the mark.
LEMMA CatalogWritten ==
    ASSUME GatesInv, NEW r \in CatalogRecord, CatalogBecomes(r), r.mode = Catalog.mode, Catalog.mark <= r.mark
    PROVE  /\ RowsOK' /\ Catalog' = r /\ (Disposition' <=> Disposition)
           /\ rows'["catalog"].rev = rows["catalog"].rev + 1
           /\ \A g \in Gate : rows'[g] = rows[g] /\ (DueNow(g)' <=> DueNow(g)) /\ (Found(g)' <=> Found(g))
                              /\ Record(g)' = Record(g)
<1>1. /\ rows'["catalog"] = [rev |-> rows["catalog"].rev + 1, rec |-> r]
      /\ DOMAIN rows' = DOMAIN rows /\ rows["catalog"].rev \in Nat
      /\ \A g \in Gate : rows'[g] = rows[g]
  BY GateFacts DEF GatesInv, RowsOK, CatalogBecomes
<1>2. Catalog' = r /\ (Disposition' <=> Disposition)
  BY <1>1 DEF Catalog, Record, Disposition
<1>3. \A g \in Gate : (DueNow(g)' <=> DueNow(g)) /\ (Found(g)' <=> Found(g)) /\ Record(g)' = Record(g)
  BY <1>1 DEF DueNow, Found, Record
<1>4. RowsOK'
  BY <1>1, <1>2, <1>3 DEF GatesInv, RowsOK
<1> QED BY <1>1, <1>2, <1>3, <1>4

\* And of what an intent write leaves.
LEMMA IntentWritten ==
    ASSUME GatesInv, NEW g \in Gate, NEW r \in GateIntent, IntentBecomes(g, r)
    PROVE  /\ RowsOK' /\ Catalog' = Catalog /\ (Disposition' <=> Disposition)
           /\ Found(g)' /\ Record(g)' = r /\ rows'["catalog"] = rows["catalog"]
           /\ \A h \in Gate : Open(h)' <=> Open(h)
           /\ \A h \in Gate \ {g} : DueNow(h)' <=> DueNow(h)
<1>1. /\ rows'[g] = [rev |-> rows[g].rev + 1, rec |-> r]
      /\ DOMAIN rows' = DOMAIN rows /\ rows[g].rev \in Nat
      /\ rows'["catalog"] = rows["catalog"]
      /\ \A h \in Gate \ {g} : rows'[h] = rows[h]
  BY GateFacts DEF GatesInv, RowsOK, IntentBecomes
<1>2. Catalog' = Catalog
  BY <1>1 DEF Catalog, Record
<1>3. Found(g)' /\ Record(g)' = r
  BY <1>1 DEF Found, Record
<1>4. \A h \in Gate \ {g} : (DueNow(h)' <=> DueNow(h)) /\ (Found(h)' <=> Found(h)) /\ Record(h)' = Record(h)
  BY <1>1 DEF DueNow, Found, Record
<1>5. RowsOK'
  <2>1. \A h \in Gate : Found(h)' => Record(h)' \in GateIntent
    BY <1>3, <1>4 DEF GatesInv, RowsOK
  <2>2. \A i \in {"catalog"} \cup Gate : rows'[i].rev \in Nat
    BY <1>1 DEF GatesInv, RowsOK
  <2> QED BY <1>1, <1>2, <2>1, <2>2 DEF GatesInv, RowsOK
<1> QED BY <1>1, <1>2, <1>3, <1>4, <1>5 DEF Disposition, Open

\* A call goes on, or is done.
LEMMA Goes ==
    ASSUME GatesInv, NEW c \in calls, NEW d \in GateCall, Proceed(c, d), d.kind = c.kind, d.gate = c.gate,
           RowsOK', now' = now, Deadlines', \A x \in calls \ {c} : CallOK(x)',
           d.stage = "done" \/ CallOK(d)',
           Disposition' => Disposition /\ Catalog.mark <= Catalog'.mark,
           Disposition' /\ d.stage = "done" => c.by <= Catalog'.mark
    PROVE  GatesInv'
<1>1. calls' \subseteq (calls \ {c}) \cup {d} /\ (d.stage = "done" => calls' = calls \ {c})
  BY DEF Proceed
<1>2. c \in GateCall /\ told.mark \in 0..MaxEpoch /\ c.by \in 0..MaxEpoch /\ MaxEpoch \in Nat
  BY GateFacts DEF GatesInv, GateCall
<1>3. told' = told \/ (d.stage = "done" /\ told' = [told EXCEPT !.mark = c.by])
  BY DEF Proceed, GatesInv
<1>4. told' \in [part : {"gates"}, mark : 0..MaxEpoch]
      /\ (told'.mark = told.mark \/ (d.stage = "done" /\ told'.mark = c.by))
  BY <1>2, <1>3 DEF GatesInv
<1>5. Marks'
  <2>1. Catalog.mark \in Nat /\ Catalog'.mark \in Nat
    BY GateFacts DEF GatesInv, RowsOK, CatalogRecord
  <2>2. Disposition => told.mark <= Catalog.mark
    BY DEF GatesInv, Marks
  <2> QED BY <1>2, <1>4, <2>1, <2>2 DEF Marks
<1>6. Alone'
  BY <1>1 DEF Alone, GatesInv
<1>7. calls' \subseteq GateCall
  BY <1>1 DEF GatesInv
<1>8. \A x \in calls' : CallOK(x)'
  BY <1>1
<1> QED BY <1>4, <1>5, <1>6, <1>7, <1>8 DEF GatesInv

\* It does so without a write,
LEMMA GoesOn ==
    ASSUME GatesInv, NEW c \in calls, NEW d \in GateCall, Proceed(c, d), d.kind = c.kind, d.gate = c.gate,
           rows' = rows, now' = now, d.stage = "done" \/ CallOK(d),
           Disposition /\ d.stage = "done" => c.by <= Catalog.mark
    PROVE  GatesInv'
<1>1. \A x : CallOK(x) => CallOK(x)'
  BY KeptBySameRows
<1>2. RowsOK' /\ Deadlines' /\ Catalog' = Catalog /\ (Disposition' <=> Disposition)
  BY DEF GatesInv, RowsOK, Deadlines, DueNow, Open, Found, Record, Catalog, Disposition
<1>3. Catalog.mark \in Nat
  BY GateFacts DEF GatesInv, RowsOK, CatalogRecord
<1>4. \A x \in calls \ {c} : CallOK(x)'
  BY <1>1 DEF GatesInv
<1> QED BY <1>1, <1>2, <1>3, <1>4, Goes

\* it begins,
LEMMA Begins ==
    ASSUME GatesInv, NEW d \in GateCall, calls' = calls \cup {d}, UNCHANGED <<rows, now, told>>, CallOK(d),
           Overlap \/ d.kind = "retire" \/ \A c \in calls : c.gate = d.gate /\ c.kind # "retire" =>
                                                        c.kind = "open" /\ d.kind = "open"
    PROVE  GatesInv'
<1>1. \A x : CallOK(x) => CallOK(x)'
  BY KeptBySameRows
<1>2. RowsOK' /\ Deadlines' /\ Marks'
  BY DEF GatesInv, RowsOK, Deadlines, Marks, DueNow, Open, Found, Record, Catalog, Disposition
<1>3. Alone'
  BY DEF GatesInv, Alone
<1> QED BY <1>1, <1>2, <1>3 DEF GatesInv

\* or it ends, without a success to tell of.
LEMMA Leaves ==
    ASSUME GatesInv, NEW c \in calls, Finish(c), now' = now, rows' = rows
    PROVE  GatesInv'
<1>1. \A x : CallOK(x) => CallOK(x)'
  BY KeptBySameRows
<1>2. RowsOK' /\ Deadlines' /\ Marks'
  BY DEF Finish, GatesInv, RowsOK, Deadlines, Marks, DueNow, Open, Found, Record, Catalog, Disposition
<1>3. Alone'
  BY DEF GatesInv, Alone, Finish
<1> QED BY <1>1, <1>2, <1>3 DEF GatesInv, Finish

-----------------------------------------------------------------------------
(* The operations on gates.                                                *)

\* OpenGate reads the catalog that its projection will swap.
LEMMA Opens ==
    ASSUME GatesInv, NEW c \in calls, OpenGate(c)
    PROVE  GatesInv'
<1> DEFINE d == [c EXCEPT !.stage = "intent", !.catalog = rows["catalog"].rev,
                          !.then = IF Open(c.gate) THEN AfterNoChange(c, "done") ELSE "project"]
<1>1. c \in GateCall /\ CallOK(c) /\ c.kind = "open" /\ c.stage = "begun" /\ Catalog.mark <= c.by
      /\ Proceed(c, d) /\ rows' = rows /\ now' = now /\ rows["catalog"].rev \in Nat
      /\ Catalog.mark \in Nat /\ c.by \in Nat
  BY GateFacts DEF OpenGate, GateEpochFence, GatesInv, RowsOK, CatalogRecord, GateCall
<1>2. PICK then : then = IF Open(c.gate) THEN AfterNoChange(c, "done") ELSE "project"
  OBVIOUS
<1>3. then \in {"done", "fence", "project"} /\ (Disposition /\ then = "done" => c.by <= Catalog.mark)
  BY <1>1, <1>2 DEF AfterNoChange
<1>4. d = [c EXCEPT !.stage = "intent", !.catalog = rows["catalog"].rev, !.then = then]
  BY <1>2
<1>5. d \in GateCall /\ d.kind = c.kind /\ d.gate = c.gate /\ d.stage = "intent" /\ d.then = then
      /\ d.catalog = rows["catalog"].rev /\ d.began = c.began /\ d.at = c.at /\ d.by = c.by
  BY <1>1, <1>3, <1>4 DEF GateCall, Stage
<1> HIDE DEF d
<1>6. CallOK(d)
  BY <1>1, <1>3, <1>5 DEF CallOK, MayWriteCatalog, Opening
<1> QED BY <1>1, <1>5, <1>6, GoesOn

\* Once its intent is committed a call goes where it was to go.
LEMMA AfterIntent ==
    ASSUME GatesInv, NEW c \in calls, NEW r \in GateIntent, c.kind = "open", c.stage \in {"intent", "restamp"},
           IntentBecomes(c.gate, r), now' = now, r.filing = "due", c.at <= r.at,
           Found(c.gate) => Record(c.gate).at <= r.at,
           Proceed(c, [c EXCEPT !.stage = c.then])
    PROVE  GatesInv'
<1> DEFINE d == [c EXCEPT !.stage = c.then]
<1>1. c \in GateCall /\ CallOK(c) /\ Opening(c) /\ c.gate \in Gate /\ c.then \in {"done", "fence", "project"}
  BY DEF GatesInv, CallOK, Opening, GateCall
<1>2. d \in GateCall /\ d.stage = c.then /\ d.kind = c.kind /\ d.gate = c.gate /\ d.by = c.by
      /\ d.then = c.then /\ d.at = c.at /\ d.began = c.began /\ d.catalog = c.catalog
  BY <1>1 DEF GateCall, Stage
<1> HIDE DEF d
<1>3. /\ RowsOK' /\ Catalog' = Catalog /\ (Disposition' <=> Disposition)
      /\ Found(c.gate)' /\ Record(c.gate)' = r /\ rows'["catalog"] = rows["catalog"]
      /\ \A h \in Gate : Open(h)' <=> Open(h)
      /\ \A h \in Gate \ {c.gate} : DueNow(h)' <=> DueNow(h)
  BY <1>1, IntentWritten
<1>4. \A x \in calls \ {c} : CallOK(x)'
  BY <1>1, KeptByIntent
<1>5. DueNow(c.gate)'
  BY <1>3 DEF DueNow
<1>6. Deadlines'
  BY <1>1, <1>3, <1>5 DEF Deadlines, GatesInv
<1>7. d.stage = "done" \/ CallOK(d)'
  <2>1. MayWriteCatalog(d)'
    BY <1>1, <1>2, <1>3 DEF CallOK, MayWriteCatalog
  <2>2. Opening(d)' \/ d.stage = "done"
    BY <1>1, <1>2, <1>3, <1>5 DEF Opening
  <2> QED BY <1>2, <2>1, <2>2 DEF CallOK
<1>8. Catalog.mark \in Nat
  BY GateFacts DEF GatesInv, RowsOK, CatalogRecord
<1>9. Proceed(c, d)
  BY DEF d
<1>10. Disposition' /\ d.stage = "done" => c.by <= Catalog'.mark
  BY <1>1, <1>2, <1>3 DEF Opening
<1>11. Disposition' => Disposition /\ Catalog.mark <= Catalog'.mark
  BY <1>3, <1>8
<1> QED BY <1>2, <1>3, <1>4, <1>6, <1>7, <1>9, <1>10, <1>11, Goes

\* The intent is in its bucket before the gate can be projected.
LEMMA CommitsIntent ==
    ASSUME GatesInv, NEW c \in calls, CommitGateIntent(c)
    PROVE  GatesInv'
<1>1. c \in GateCall /\ CallOK(c) /\ c.gate \in Gate /\ c.stage = "intent" /\ now' = now /\ RowsOK
  BY DEF CommitGateIntent, GatesInv, GateCall
<1>2. c.kind = "open"
  <2>1. c.kind \in {"open", "resolve", "retire"}
    BY <1>1 DEF GateCall
  <2> QED BY <1>1, <2>1 DEF CallOK, Resolving, Retiring
<1>3. Opening(c) /\ c.at \in Nat /\ c.then \in Stage
  BY <1>1, <1>2 DEF CallOK, GateCall
<1>4. CASE ~Found(c.gate) /\ Swap(c.gate, 0, [at |-> c.at, filing |-> "due"])
           /\ Proceed(c, [c EXCEPT !.stage = c.then])
  <2> DEFINE r == [at |-> c.at, filing |-> "due"]
  <2>1. r \in GateIntent /\ r.filing = "due" /\ r.at = c.at /\ c.at <= r.at
    BY <1>3 DEF GateIntent, Filing
  <2>2. IntentBecomes(c.gate, r)
    BY <1>4 DEF Swap, IntentBecomes
  <2> HIDE DEF r
  <2> QED BY <1>1, <1>2, <1>4, <2>1, <2>2, AfterIntent
<1>5. CASE Found(c.gate) /\ Record(c.gate).filing # "dead" /\ rows' = rows
           /\ IF Restamps(c)
              THEN Proceed(c, [c EXCEPT !.stage = "restamp", !.intent = rows[c.gate].rev])
              ELSE Proceed(c, [c EXCEPT !.stage = c.then])
  <2>1. Record(c.gate) \in GateIntent /\ rows[c.gate].rev \in Nat
    BY <1>1, <1>5 DEF RowsOK
  <2>2. CASE Restamps(c)
    <3> DEFINE d == [c EXCEPT !.stage = "restamp", !.intent = rows[c.gate].rev]
    <3>1. d \in GateCall /\ d.stage = "restamp" /\ d.kind = c.kind /\ d.gate = c.gate /\ d.by = c.by
          /\ d.then = c.then /\ d.at = c.at /\ d.began = c.began /\ d.catalog = c.catalog
      BY <1>1, <2>1 DEF GateCall, Stage
    <3>2. Proceed(c, d)
      BY <1>5, <2>2
    <3> HIDE DEF d
    <3>3. CallOK(d)
      BY <1>1, <1>2, <1>3, <1>5, <3>1 DEF CallOK, MayWriteCatalog, Opening
    <3> QED BY <1>1, <1>5, <3>1, <3>2, <3>3, GoesOn
  <2>3. CASE ~Restamps(c)
    <3> DEFINE d == [c EXCEPT !.stage = c.then]
    <3>1. d \in GateCall /\ d.stage = c.then /\ d.kind = c.kind /\ d.gate = c.gate /\ d.by = c.by
          /\ d.then = c.then /\ d.at = c.at /\ d.began = c.began /\ d.catalog = c.catalog
      BY <1>1, <1>3, <2>1 DEF GateCall
    <3>2. Proceed(c, d)
      BY <1>5, <2>3
    <3> HIDE DEF d
    <3>3. DueNow(c.gate) /\ c.at <= Record(c.gate).at
      BY <1>3, <1>5, <2>1, <2>3 DEF Restamps, DueNow, GateIntent, Filing
    <3>4. d.stage = "done" \/ CallOK(d)
      BY <1>1, <1>2, <1>3, <1>5, <3>1, <3>3 DEF CallOK, MayWriteCatalog, Opening
    <3>5. Disposition /\ d.stage = "done" => c.by <= Catalog.mark
      BY <1>1, <1>3, <3>1 DEF Opening
    <3> QED BY <1>1, <1>5, <3>1, <3>2, <3>4, <3>5, GoesOn
  <2> QED BY <2>2, <2>3
<1> QED BY <1>4, <1>5 DEF CommitGateIntent

\* A restamp replaces the row it read, and only by a due one.
LEMMA RestampsIntent ==
    ASSUME GatesInv, NEW c \in calls, RestampGateIntent(c)
    PROVE  GatesInv'
<1>1. c \in GateCall /\ CallOK(c) /\ c.gate \in Gate /\ c.stage = "restamp" /\ now' = now /\ RowsOK
      /\ c.at \in Nat /\ c.intent \in Nat /\ Proceed(c, [c EXCEPT !.stage = c.then])
  BY DEF RestampGateIntent, GatesInv, GateCall
<1>2. c.kind = "open"
  <2>1. c.kind \in {"open", "resolve", "retire"}
    BY <1>1 DEF GateCall
  <2> QED BY <1>1, <2>1 DEF CallOK, Resolving, Retiring
<1>3. PICK at : at = IF c.at < Record(c.gate).at THEN Record(c.gate).at ELSE c.at
  OBVIOUS
<1> DEFINE r == [at |-> at, filing |-> "due"]
<1>4. IntentBecomes(c.gate, r)
  BY <1>3 DEF RestampGateIntent, Swap, IntentBecomes
<1>5. Found(c.gate)
  BY <1>1, <1>2 DEF CallOK, Opening
<1>6. Record(c.gate).at \in Nat
  BY <1>1, <1>5 DEF RowsOK, GateIntent
<1>7. at \in Nat /\ c.at <= at /\ Record(c.gate).at <= at
  BY <1>1, <1>3, <1>6
<1>8. r \in GateIntent /\ r.filing = "due" /\ r.at = at
  BY <1>7 DEF GateIntent, Filing
<1> HIDE DEF r
<1> QED BY <1>1, <1>2, <1>4, <1>7, <1>8, AfterIntent


\* A write of the catalog opens only what is due and what no other call has to
\* find closed; an opening is then done, a resolution has its intent to retire.
LEMMA SwapsCatalog ==
    ASSUME GatesInv, NEW c \in calls, NEW open \in SUBSET Gate, SwapCatalog(c, open), now' = now,
           NEW s \in Stage, Proceed(c, [c EXCEPT !.stage = s]),
           Overlap \/ (\A g \in open : DueNow(g)),
           \A x \in calls \ {c} : x.gate \in open =>
              /\ Overlap \/ Open(x.gate) \/ ~(x.kind = "resolve" /\ x.stage \in {"fence", "retire", "delete"})
              /\ Open(x.gate) \/ ~(x.kind = "retire" /\ x.stage = "closed" /\ x.intent = rows[x.gate].rev),
           (c.kind = "open" /\ s = "done") \/ (c.kind = "resolve" /\ s = "retire" /\ (Overlap \/ c.gate \notin open))
    PROVE  GatesInv'
<1> DEFINE d == [c EXCEPT !.stage = s]
           r == [Catalog EXCEPT !.mark = c.by, !.open = open]
<1>1. c \in GateCall /\ CallOK(c) /\ RowsOK /\ c.by \in 0..MaxEpoch /\ MaxEpoch \in Nat /\ c.gate \in Gate
  BY GateFacts DEF GatesInv, GateCall
<1>2. Catalog \in CatalogRecord /\ Catalog.mark \in Nat
  BY <1>1 DEF RowsOK, CatalogRecord
<1>3. r \in CatalogRecord /\ r.mode = Catalog.mode /\ r.mark = c.by /\ r.open = open
  BY <1>1, <1>2 DEF CatalogRecord
<1>4. c.catalog = rows["catalog"].rev /\ CatalogBecomes(r)
  BY DEF SwapCatalog, Swap, CatalogBecomes
<1>5. Catalog.mark <= r.mark
  BY <1>1, <1>3, <1>4 DEF CallOK, MayWriteCatalog
<1>6. d \in GateCall /\ d.stage = s /\ d.kind = c.kind /\ d.gate = c.gate /\ d.by = c.by /\ d.catalog = c.catalog
  BY <1>1 DEF GateCall
<1>7. Proceed(c, d)
  OBVIOUS
<1> HIDE DEF d, r
<1>8. /\ RowsOK' /\ Catalog' = r /\ (Disposition' <=> Disposition)
      /\ rows'["catalog"].rev = rows["catalog"].rev + 1
      /\ \A g \in Gate : rows'[g] = rows[g] /\ (DueNow(g)' <=> DueNow(g)) /\ (Found(g)' <=> Found(g))
                         /\ Record(g)' = Record(g)
  BY <1>3, <1>4, <1>5, CatalogWritten
<1>9. \A g \in Gate : Open(g)' <=> g \in open
  BY <1>3, <1>8 DEF Open
<1>10. Deadlines'
  BY <1>8, <1>9 DEF Deadlines
<1>11. \A x \in calls \ {c} : CallOK(x)'
  BY <1>3, <1>4, <1>5, KeptByCatalog
<1>12. d.stage = "done" \/ CallOK(d)'
  <2>1. CASE c.kind = "resolve" /\ s = "retire" /\ (Overlap \/ c.gate \notin open)
    <3>1. Overlap \/ ~Open(d.gate)'
      BY <1>1, <1>6, <1>9, <2>1
    <3>2. d.by <= Catalog'.mark
      BY <1>1, <1>3, <1>6, <1>8
    <3>3. MayWriteCatalog(d)'
      <4>1. rows["catalog"].rev \in Nat
        BY <1>1 DEF RowsOK
      <4> QED BY <1>4, <1>6, <1>8, <4>1 DEF MayWriteCatalog
    <3> QED BY <1>6, <2>1, <3>1, <3>2, <3>3 DEF CallOK, Resolving
  <2> QED BY <1>6, <2>1
<1>13. c.by <= Catalog'.mark /\ Catalog.mark <= Catalog'.mark
  BY <1>1, <1>2, <1>3, <1>5, <1>8
<1> QED BY <1>6, <1>7, <1>8, <1>10, <1>11, <1>12, <1>13, Goes

\* What is due has no age that a call could have written in time to go on.
LEMMA Projects ==
    ASSUME GatesInv, NEW c \in calls, Project(c)
    PROVE  GatesInv'
<1>1. c \in GateCall /\ CallOK(c) /\ c.gate \in Gate /\ c.stage = "project" /\ now' = now /\ now \in Nat
      /\ c.at \in Nat /\ c.began \in Nat /\ now <= c.began + MaxOpenSpan
      /\ SwapCatalog(c, Catalog.open \cup {c.gate}) /\ Proceed(c, [c EXCEPT !.stage = "done"]) /\ RowsOK
  BY DEF Project, GatesInv, GateCall
<1>2. c.kind = "open" /\ Opening(c)
  <2>1. c.kind \in {"open", "resolve", "retire"}
    BY <1>1 DEF GateCall
  <2> QED BY <1>1, <2>1 DEF CallOK, Resolving, Retiring
<1>3. Found(c.gate) /\ c.began <= c.at /\ c.at <= Record(c.gate).at
      /\ (Overlap \/ DueNow(c.gate) \/ Aged(c.gate))
  BY <1>1, <1>2 DEF Opening
<1>4. ~Aged(c.gate)
  <2>1. Record(c.gate).at \in Nat
    BY <1>1, <1>3 DEF RowsOK, GateIntent
  <2> QED BY <1>1, <1>3, <2>1, GateFacts DEF Aged
<1>5. Overlap \/ (\A g \in Catalog.open \cup {c.gate} : DueNow(g))
  BY <1>1, <1>3, <1>4 DEF GatesInv, Deadlines, Open, RowsOK, CatalogRecord
<1>6. ASSUME NEW x \in calls \ {c}, x.gate \in Catalog.open \cup {c.gate}, ~Open(x.gate)
      PROVE  /\ Overlap \/ ~(x.kind = "resolve" /\ x.stage \in {"fence", "retire", "delete"})
             /\ ~(x.kind = "retire" /\ x.stage = "closed" /\ x.intent = rows[x.gate].rev)
  <2>1. x.gate = c.gate
    BY <1>6 DEF Open
  <2>2. Overlap \/ x.kind # "resolve"
    BY <1>2, <1>6, <2>1 DEF GatesInv, Alone
  <2>3. x.kind = "retire" /\ x.stage = "closed" /\ x.intent = rows[x.gate].rev => Aged(x.gate)
    BY <1>6 DEF GatesInv, CallOK, Retiring
  <2> QED BY <1>4, <2>1, <2>2, <2>3
<1>7. "done" \in Stage /\ Catalog.open \cup {c.gate} \in SUBSET Gate
  BY <1>1 DEF Stage, RowsOK, CatalogRecord
<1> QED BY <1>1, <1>2, <1>5, <1>6, <1>7, SwapsCatalog

\* An epoch fence changes no gate, and raises the mark to the caller.
LEMMA Fences ==
    ASSUME GatesInv, NEW c \in calls, FenceWithoutChange(c)
    PROVE  GatesInv'
<1>1. c \in GateCall /\ CallOK(c) /\ c.stage = "fence" /\ now' = now /\ SwapCatalog(c, Catalog.open) /\ RowsOK
      /\ Proceed(c, [c EXCEPT !.stage = IF c.kind = "open" THEN "done" ELSE "retire"])
  BY DEF FenceWithoutChange, GatesInv
<1>2. c.kind = "open" \/ (c.kind = "resolve" /\ (Overlap \/ c.gate \notin Catalog.open))
  <2>1. c.kind \in {"open", "resolve", "retire"}
    BY <1>1 DEF GateCall
  <2>2. c.kind # "retire"
    BY <1>1 DEF CallOK, Retiring
  <2>3. c.kind = "resolve" => Overlap \/ ~Open(c.gate)
    BY <1>1 DEF CallOK, Resolving
  <2>4. ~Open(c.gate) => c.gate \notin Catalog.open
    BY DEF Open
  <2> QED BY <2>1, <2>2, <2>3, <2>4
<1>3. Catalog.open \in SUBSET Gate /\ {"done", "retire"} \subseteq Stage
      /\ \A x : x \in Catalog.open => Open(x)
  BY <1>1 DEF RowsOK, CatalogRecord, Stage, Open
<1>4. Overlap \/ (\A g \in Catalog.open : DueNow(g))
  BY <1>3 DEF GatesInv, Deadlines
<1>5. CASE c.kind = "open"
  <2>1. Proceed(c, [c EXCEPT !.stage = "done"])
    BY <1>1, <1>5
  <2> QED BY <1>1, <1>3, <1>4, <1>5, <2>1, SwapsCatalog
<1>6. CASE c.kind = "resolve" /\ (Overlap \/ c.gate \notin Catalog.open)
  <2>1. Proceed(c, [c EXCEPT !.stage = "retire"])
    BY <1>1, <1>6
  <2> QED BY <1>1, <1>3, <1>4, <1>6, <2>1, SwapsCatalog
<1> QED BY <1>2, <1>5, <1>6

\* A resolution clears its own gate; its intent is dead from then on.
LEMMA Clears ==
    ASSUME GatesInv, NEW c \in calls, ClearProjection(c)
    PROVE  GatesInv'
<1>1. c \in GateCall /\ CallOK(c) /\ c.stage = "clear" /\ now' = now /\ SwapCatalog(c, Catalog.open \ {c.gate})
      /\ Proceed(c, [c EXCEPT !.stage = "retire"]) /\ RowsOK
  BY DEF ClearProjection, GatesInv
<1>2. c.kind = "resolve"
  <2>1. c.kind \in {"open", "resolve", "retire"}
    BY <1>1 DEF GateCall
  <2> QED BY <1>1, <2>1 DEF CallOK, Opening, Retiring
<1>3. Catalog.open \ {c.gate} \in SUBSET Gate /\ "retire" \in Stage
      /\ \A x : x \in Catalog.open => Open(x)
  BY <1>1 DEF RowsOK, CatalogRecord, Stage, Open
<1>4. Overlap \/ (\A g \in Catalog.open \ {c.gate} : DueNow(g))
  BY <1>3 DEF GatesInv, Deadlines
<1> QED BY <1>1, <1>2, <1>3, <1>4, SwapsCatalog

\* ResolveGate finds the gate open, or leaves it to the retirement.
LEMMA Resolves ==
    ASSUME GatesInv, NEW c \in calls, ResolveGate(c)
    PROVE  GatesInv'
<1>1. c \in GateCall /\ CallOK(c) /\ c.kind = "resolve" /\ c.stage = "begun" /\ Catalog.mark <= c.by
      /\ rows' = rows /\ now' = now /\ rows["catalog"].rev \in Nat
      /\ Catalog.mark \in Nat /\ c.by \in Nat
  BY GateFacts DEF ResolveGate, GateEpochFence, GatesInv, RowsOK, CatalogRecord, GateCall
<1>2. PICK s : s = IF Open(c.gate) THEN "clear" ELSE AfterNoChange(c, "retire")
  OBVIOUS
<1>3. s \in {"clear", "fence", "retire"} /\ (s \in {"fence", "retire"} => ~Open(c.gate))
      /\ (s = "retire" /\ Disposition => c.by <= Catalog.mark)
  BY <1>1, <1>2 DEF AfterNoChange
<1> DEFINE d == [c EXCEPT !.catalog = rows["catalog"].rev, !.stage = s]
<1>4. Proceed(c, d)
  BY <1>2 DEF ResolveGate
<1>5. d \in GateCall /\ d.kind = c.kind /\ d.gate = c.gate /\ d.stage = s
      /\ d.catalog = rows["catalog"].rev /\ d.by = c.by
  BY <1>1, <1>3 DEF GateCall, Stage
<1> HIDE DEF d
<1>6. CallOK(d)
  BY <1>1, <1>3, <1>5 DEF CallOK, MayWriteCatalog, Resolving
<1>7. d.stage # "done"
  BY <1>3, <1>5
<1> QED BY <1>1, <1>4, <1>5, <1>6, <1>7, GoesOn

\* An intent is marked dead only behind a gate that is closed.
LEMMA RetiresIntent ==
    ASSUME GatesInv, NEW c \in calls, RetireGateIntent(c)
    PROVE  GatesInv'
<1>1. c \in GateCall /\ CallOK(c) /\ c.stage = "retire" /\ rows' = rows /\ now' = now /\ RowsOK /\ c.gate \in Gate
  BY DEF RetireGateIntent, GatesInv, GateCall
<1>2. c.kind = "resolve" /\ Resolving(c)
  <2>1. c.kind \in {"open", "resolve", "retire"}
    BY <1>1 DEF GateCall
  <2> QED BY <1>1, <2>1 DEF CallOK, Opening, Retiring
<1>3. CASE Found(c.gate) /\ Record(c.gate).filing # "dead"
  <2> DEFINE d == [c EXCEPT !.stage = "delete", !.intent = rows[c.gate].rev]
  <2>1. Proceed(c, d)
    BY <1>3 DEF RetireGateIntent
  <2>2. rows[c.gate].rev \in Nat
    BY <1>1 DEF RowsOK
  <2>3. d \in GateCall /\ d.kind = c.kind /\ d.gate = c.gate /\ d.stage = "delete" /\ d.by = c.by
        /\ d.catalog = c.catalog
    BY <1>1, <2>2 DEF GateCall, Stage
  <2> HIDE DEF d
  <2>4. CallOK(d) /\ d.stage # "done"
    BY <1>1, <1>2, <1>3, <2>3 DEF CallOK, MayWriteCatalog, Resolving
  <2> QED BY <1>1, <2>1, <2>3, <2>4, GoesOn
<1>4. CASE ~(Found(c.gate) /\ Record(c.gate).filing # "dead")
  <2> DEFINE d == [c EXCEPT !.stage = "done"]
  <2>1. Proceed(c, d)
    BY <1>4 DEF RetireGateIntent
  <2>2. d \in GateCall /\ d.kind = c.kind /\ d.gate = c.gate /\ d.stage = "done"
    BY <1>1 DEF GateCall, Stage
  <2>3. Disposition => c.by <= Catalog.mark
    BY <1>1, <1>2 DEF Resolving
  <2> HIDE DEF d
  <2> QED BY <1>1, <2>1, <2>2, <2>3, GoesOn
<1> QED BY <1>3, <1>4

\* A dead intent is deleted at the revision that was read.
LEMMA DeletesIntent ==
    ASSUME GatesInv, NEW c \in calls, DeleteGateIntent(c)
    PROVE  GatesInv'
<1>1. c \in GateCall /\ CallOK(c) /\ c.stage = "delete" /\ now' = now /\ RowsOK /\ c.gate \in Gate
      /\ Proceed(c, [c EXCEPT !.stage = "done"])
  BY DEF DeleteGateIntent, GatesInv, GateCall
<1>2. c.kind = "resolve" /\ Found(c.gate) /\ (Overlap \/ ~Open(c.gate)) /\ (Disposition => c.by <= Catalog.mark)
  <2>1. c.kind \in {"open", "resolve", "retire"}
    BY <1>1 DEF GateCall
  <2> QED BY <1>1, <2>1 DEF CallOK, Opening, Resolving, Retiring
<1> DEFINE r == [Record(c.gate) EXCEPT !.filing = "dead"]
           d == [c EXCEPT !.stage = "done"]
<1>3. r \in GateIntent /\ r.at = Record(c.gate).at /\ r.at \in Nat
  BY <1>1, <1>2 DEF RowsOK, GateIntent, Filing
<1>4. IntentBecomes(c.gate, r)
  BY DEF DeleteGateIntent, Swap, IntentBecomes
<1>5. d \in GateCall /\ d.kind = c.kind /\ d.gate = c.gate /\ d.stage = "done"
  BY <1>1 DEF GateCall, Stage
<1>6. Proceed(c, d)
  BY <1>1
<1> HIDE DEF d, r
<1>7. /\ RowsOK' /\ Catalog' = Catalog /\ (Disposition' <=> Disposition)
      /\ \A h \in Gate : Open(h)' <=> Open(h)
      /\ \A h \in Gate \ {c.gate} : DueNow(h)' <=> DueNow(h)
  BY <1>1, <1>3, <1>4, IntentWritten
<1>8. Deadlines'
  BY <1>2, <1>7 DEF Deadlines, GatesInv
<1>9. ASSUME NEW x \in calls \ {c} PROVE CallOK(x)'
  <2>1. Overlap \/ ~(x.gate = c.gate /\ x.kind = "open" /\ x.stage = "project")
    BY <1>2 DEF GatesInv, Alone
  <2> QED BY <1>1, <1>3, <1>4, <2>1, KeptByIntent
<1>10. Catalog.mark \in Nat
  BY GateFacts DEF GatesInv, RowsOK, CatalogRecord
<1> QED BY <1>1, <1>2, <1>5, <1>6, <1>7, <1>8, <1>9, <1>10, Goes

\* The age of a listed intent is judged before the gate is looked at.
LEMMA Judged ==
    ASSUME GatesInv, NEW c \in calls, NEW t \in Reading, JudgeAge(c, t)
    PROVE  GatesInv'
<1>1. c \in GateCall /\ CallOK(c) /\ c.kind = "retire" /\ rows' = rows /\ now' = now /\ RowsOK
      /\ c.gate \in Gate /\ now \in Nat /\ Retiring(c)
  BY DEF JudgeAge, GatesInv, GateCall, CallOK
<1>2. CASE Record(c.gate).filing = "due" /\ OldEnough(c.gate, t) /\ Proceed(c, [c EXCEPT !.stage = "aged"])
  <2> DEFINE d == [c EXCEPT !.stage = "aged"]
  <2>1. Proceed(c, d)
    BY <1>2
  <2>2. d \in GateCall /\ d.kind = c.kind /\ d.gate = c.gate /\ d.stage = "aged" /\ d.by = c.by
        /\ d.catalog = c.catalog /\ d.intent = c.intent
    BY <1>1 DEF GateCall, Stage
  <2> HIDE DEF d
  <2>3. Found(c.gate) /\ Record(c.gate).at \in Nat
    BY <1>1 DEF Retiring, RowsOK, GateIntent
  <2>4. Aged(c.gate) /\ DueNow(c.gate)
    <3>1. t <= now + Skew /\ t \in Nat
      BY <1>1, GateFacts DEF Reading
    <3>2. Record(c.gate).at + MinRemnantAge <= t
      BY <1>2, <2>3, <3>1, GateFacts DEF OldEnough
    <3> QED BY <1>1, <1>2, <2>3, <3>1, <3>2, GateFacts DEF Aged, DueNow
  <2>5. CallOK(d) /\ d.stage # "done"
    BY <1>1, <2>2, <2>4 DEF CallOK, MayWriteCatalog, Retiring
  <2> QED BY <1>1, <2>1, <2>2, <2>5, GoesOn
<1>3. CASE Finish(c)
  BY <1>1, <1>3, Leaves
<1> QED BY <1>2, <1>3 DEF JudgeAge

\* A sweep that finds the gate open leaves its intent alone.
LEMMA Refuses ==
    ASSUME GatesInv, NEW c \in calls, RefuseIfGateIsStillOpen(c)
    PROVE  GatesInv'
<1>1. c \in GateCall /\ CallOK(c) /\ c.stage = "aged" /\ rows' = rows /\ now' = now
  BY DEF RefuseIfGateIsStillOpen, GatesInv
<1>2. CASE Open(c.gate)
  BY <1>1, <1>2, Leaves DEF RefuseIfGateIsStillOpen
<1>3. CASE ~Open(c.gate)
  <2> DEFINE d == [c EXCEPT !.stage = "closed"]
  <2>1. Proceed(c, d)
    BY <1>3 DEF RefuseIfGateIsStillOpen
  <2>2. d \in GateCall /\ d.kind = c.kind /\ d.gate = c.gate /\ d.stage = "closed" /\ d.by = c.by
        /\ d.catalog = c.catalog /\ d.intent = c.intent
    BY <1>1 DEF GateCall, Stage
  <2> HIDE DEF d
  <2>3. c.kind = "retire"
    <3>1. c.kind \in {"open", "resolve", "retire"}
      BY <1>1 DEF GateCall
    <3> QED BY <1>1, <3>1 DEF CallOK, Opening, Resolving
  <2>4. CallOK(d) /\ d.stage # "done"
    BY <1>1, <1>3, <2>2, <2>3 DEF CallOK, MayWriteCatalog, Retiring
  <2> QED BY <1>1, <2>1, <2>2, <2>4, GoesOn
<1> QED BY <1>2, <1>3

\* The sweep's write takes a row it knows as aged and, if it is the one it
\* listed, as a closed gate's.
LEMMA SweepRetires ==
    ASSUME GatesInv, NEW c \in calls, RetireGateDeadlineIntent(c)
    PROVE  GatesInv'
<1>1. c \in GateCall /\ CallOK(c) /\ c.stage = "closed" /\ now' = now /\ RowsOK /\ c.gate \in Gate
      /\ Finish(c)
  BY DEF RetireGateDeadlineIntent, GatesInv, GateCall
<1>2. Retiring(c)
  <2>1. c.kind \in {"open", "resolve", "retire"}
    BY <1>1 DEF GateCall
  <2> QED BY <1>1, <2>1 DEF CallOK, Opening, Resolving
<1>3. CASE rows' = rows
  BY <1>1, <1>3, Leaves
<1>4. CASE rows[c.gate].rev = c.intent /\ Swap(c.gate, c.intent, [Record(c.gate) EXCEPT !.filing = Retired])
  <2> DEFINE r == [Record(c.gate) EXCEPT !.filing = Retired]
  <2>1. Retired \in Filing /\ Found(c.gate) /\ Aged(c.gate) /\ ~Open(c.gate)
    BY <1>1, <1>2, <1>4 DEF Retired, Filing, Retiring
  <2>2. r \in GateIntent /\ r.at = Record(c.gate).at /\ r.at \in Nat
    BY <1>1, <2>1 DEF RowsOK, GateIntent
  <2>3. IntentBecomes(c.gate, r)
    BY <1>4 DEF Swap, IntentBecomes
  <2> HIDE DEF r
  <2>4. r.at + MinRemnantAge <= now + Skew
    BY <2>1, <2>2 DEF Aged
  <2>5. /\ RowsOK' /\ Catalog' = Catalog /\ (Disposition' <=> Disposition)
        /\ \A h \in Gate : Open(h)' <=> Open(h)
        /\ \A h \in Gate \ {c.gate} : DueNow(h)' <=> DueNow(h)
    BY <1>1, <2>2, <2>3, IntentWritten
  <2>6. \A x \in calls : CallOK(x)'
    BY <1>1, <2>2, <2>3, <2>4, KeptByIntent
  <2>7. Deadlines'
    BY <2>1, <2>5 DEF Deadlines, GatesInv
  <2>8. Alone' /\ Marks' /\ calls' \subseteq calls /\ told' = told
    BY <1>1, <2>5 DEF Alone, Marks, GatesInv, Finish
  <2>9. \A x \in calls' : CallOK(x)'
    BY <2>6, <2>8
  <2>10. calls' \subseteq GateCall /\ now' \in Nat /\ told' \in [part : {"gates"}, mark : 0..MaxEpoch]
    BY <1>1, <2>8 DEF GatesInv
  <2>11. RowsOK'
    BY <2>5
  <2> QED BY <2>7, <2>8, <2>9, <2>10, <2>11 DEF GatesInv
<1> QED BY <1>3, <1>4 DEF RetireGateDeadlineIntent

\* What a legacy Host projects anew it only narrows.
LEMMA LegacyProjects ==
    ASSUME GatesInv, NEW e \in Epoch, NEW open \in SUBSET Gate, UpdateCatalogHostState(e, open)
    PROVE  GatesInv'
<1> DEFINE r == [Catalog EXCEPT !.mark = e, !.open = open]
<1>1. /\ ~Disposition /\ Catalog.mark <= e /\ open \subseteq Catalog.open /\ calls' = calls /\ now' = now /\ told' = told
      /\ CatalogBecomes(r) /\ RowsOK /\ e \in 0..MaxEpoch
  BY GateFacts DEF UpdateCatalogHostState, GateEpochFence, Swap, CatalogBecomes, GatesInv
<1>2. r \in CatalogRecord /\ r.mode = Catalog.mode /\ r.mark = e /\ r.open = open
  BY <1>1 DEF RowsOK, CatalogRecord
<1> HIDE DEF r
<1>3. /\ RowsOK' /\ Catalog' = r /\ (Disposition' <=> Disposition)
      /\ \A g \in Gate : DueNow(g)' <=> DueNow(g)
  BY <1>1, <1>2, CatalogWritten
<1>4. \A x : x \in open => Open(x)
  BY <1>1 DEF Open
<1>5. \A x \in calls : CallOK(x)'
  BY <1>1, <1>2, <1>4, KeptByCatalog
<1>6. Deadlines'
  BY <1>2, <1>3, <1>4 DEF Deadlines, GatesInv, Open
<1>7. Marks' /\ Alone'
  BY <1>1, <1>3 DEF Marks, Alone, GatesInv
<1> QED BY <1>1, <1>3, <1>5, <1>6, <1>7 DEF GatesInv

\* What is due or old stays so as time passes.
LEMMA GatesTick ==
    ASSUME GatesInv, Tick
    PROVE  GatesInv'
<1>1. rows' = rows /\ calls' = calls /\ told' = told /\ now' = now + 1 /\ now + 1 \in Nat
  BY DEF Tick, GatesInv
<1>2. \A x \in calls : CallOK(x)'
  BY <1>1, KeptByTime
<1>3. RowsOK' /\ Deadlines' /\ Marks' /\ Alone'
  BY <1>1 DEF GatesInv, RowsOK, Deadlines, Marks, Alone, DueNow, Open, Found, Record, Catalog, Disposition
<1> QED BY <1>1, <1>2, <1>3 DEF GatesInv

\* A call that begins relies on nothing yet.  Nobody resolves a gate that is
\* being opened, or opens one that is being resolved.
LEMMA GatesBegin ==
    ASSUME GatesInv, NEW g \in Gate, NEW e \in Epoch
    PROVE  /\ BeginResolveGate(g, e) => GatesInv'
           /\ \A t \in now..(now + Skew) : BeginOpenGate(g, e, t) => GatesInv'
<1>1. RowsOK /\ rows["catalog"].rev \in Nat \ {0} /\ e \in 0..MaxEpoch /\ now \in Nat
  BY GateFacts DEF GatesInv, RowsOK
<1>2. ASSUME BeginResolveGate(g, e) PROVE GatesInv'
  <2> DEFINE d == NewCall("resolve", g, e)
  <2>1. d \in GateCall /\ d.kind = "resolve" /\ d.stage = "begun" /\ d.gate = g /\ d.catalog = 0
    BY <1>1 DEF NewCall, GateCall, Stage
  <2>2. calls' = calls \cup {d} /\ UNCHANGED <<rows, now, told>> /\ MayBegin("resolve", g, e)
    BY <1>2 DEF BeginResolveGate
  <2> HIDE DEF d
  <2>3. CallOK(d)
    BY <1>1, <2>1 DEF CallOK, MayWriteCatalog, Resolving
  <2>4. Overlap \/ \A c \in calls : c.gate = d.gate /\ c.kind # "retire" => c.kind = "open" /\ d.kind = "open"
    BY <2>1, <2>2 DEF MayBegin
  <2> QED BY <2>1, <2>2, <2>3, <2>4, Begins
<1>3. ASSUME NEW t \in now..(now + Skew), BeginOpenGate(g, e, t) PROVE GatesInv'
  <2> DEFINE d == [NewCall("open", g, e) EXCEPT !.at = t, !.began = now]
  <2>1. t \in Nat /\ now <= t
    BY <1>1, GateFacts
  <2>2. d \in GateCall /\ d.kind = "open" /\ d.stage = "begun" /\ d.gate = g /\ d.catalog = 0 /\ d.then = "done"
        /\ d.at = t /\ d.began = now
    BY <1>1, <2>1 DEF NewCall, GateCall, Stage
  <2>3. calls' = calls \cup {d} /\ UNCHANGED <<rows, now, told>> /\ MayBegin("open", g, e)
    BY <1>3 DEF BeginOpenGate
  <2> HIDE DEF d
  <2>4. CallOK(d)
    BY <1>1, <2>1, <2>2 DEF CallOK, MayWriteCatalog, Opening
  <2>5. Overlap \/ \A c \in calls : c.gate = d.gate /\ c.kind # "retire" => c.kind = "open" /\ d.kind = "open"
    BY <2>2, <2>3 DEF MayBegin
  <2> QED BY <2>2, <2>3, <2>4, <2>5, Begins
<1> QED BY <1>2, <1>3

\* A listed intent is remembered at the revision that was listed.
LEMMA GatesListed ==
    ASSUME GatesInv, NEW g \in Gate, ListDueGates(g)
    PROVE  GatesInv'
<1> DEFINE d == [NewCall("retire", g, 0) EXCEPT !.intent = rows[g].rev]
<1>1. rows["catalog"].rev \in Nat \ {0} /\ rows[g].rev \in Nat /\ 0 \in 0..MaxEpoch /\ Found(g)
  BY GateFacts DEF GatesInv, RowsOK, ListDueGates, Remnant
<1>2. d \in GateCall /\ d.kind = "retire" /\ d.stage = "begun" /\ d.gate = g /\ d.catalog = 0
      /\ d.intent = rows[g].rev
  BY <1>1 DEF NewCall, GateCall, Stage
<1>3. calls' = calls \cup {d} /\ UNCHANGED <<rows, now, told>>
  BY DEF ListDueGates
<1> HIDE DEF d
<1>4. CallOK(d)
  BY <1>1, <1>2 DEF CallOK, MayWriteCatalog, Retiring
<1> QED BY <1>2, <1>3, <1>4, Begins

\* Every step on gates and their deadlines keeps the invariant.
LEMMA GatesStep ==
    ASSUME GatesInv, GatesNext
    PROVE  GatesInv'
<1>1. ASSUME NEW c \in calls, Stop(c) PROVE GatesInv'
  BY <1>1, Leaves DEF Stop
<1>2. ASSUME NEW g \in Gate, NEW e \in Epoch,
             BeginResolveGate(g, e) \/ \E t \in now..(now + Skew) : BeginOpenGate(g, e, t)
      PROVE  GatesInv'
  BY <1>2, GatesBegin
<1>3. ASSUME NEW c \in calls, NEW t \in Reading, JudgeAge(c, t) PROVE GatesInv'
  BY <1>3, Judged
<1>4. ASSUME NEW c \in calls,
             \/ OpenGate(c) \/ CommitGateIntent(c) \/ RestampGateIntent(c) \/ Project(c) \/ FenceWithoutChange(c)
             \/ ResolveGate(c) \/ ClearProjection(c) \/ RetireGateIntent(c) \/ DeleteGateIntent(c)
             \/ RefuseIfGateIsStillOpen(c) \/ RetireGateDeadlineIntent(c)
      PROVE  GatesInv'
  <2>1. CASE OpenGate(c) \/ CommitGateIntent(c) \/ RestampGateIntent(c) \/ Project(c) \/ FenceWithoutChange(c)
    BY <2>1, Opens, CommitsIntent, RestampsIntent, Projects, Fences
  <2>2. CASE ResolveGate(c) \/ ClearProjection(c) \/ RetireGateIntent(c) \/ DeleteGateIntent(c)
    BY <2>2, Resolves, Clears, RetiresIntent, DeletesIntent
  <2>3. CASE RefuseIfGateIsStillOpen(c)
    BY <2>3, Refuses
  <2>4. CASE RetireGateDeadlineIntent(c)
    BY <2>4, SweepRetires
  <2> QED BY <1>4, <2>1, <2>2, <2>3, <2>4
<1>5. ASSUME NEW g \in Gate, ListDueGates(g) PROVE GatesInv'
  BY <1>5, GatesListed
<1>6. ASSUME NEW e \in Epoch, NEW open \in SUBSET Gate, UpdateCatalogHostState(e, open) PROVE GatesInv'
  BY <1>6, LegacyProjects
<1>7. CASE Tick
  BY <1>7, GatesTick
<1> QED BY <1>1, <1>2, <1>3, <1>4, <1>5, <1>6, <1>7 DEF GatesNext

\* With no gate and no call there is nothing to show.
LEMMA GatesStart == ASSUME GatesInit PROVE GatesInv
<1>1. PICK m \in {"legacy", "disposition"} :
        rows = [i \in {"catalog"} \cup Gate |->
                  IF i = "catalog" THEN [rev |-> 1, rec |-> [mode |-> m, mark |-> 0, open |-> {}]]
                  ELSE Absent]
  BY DEF GatesInit
<1>2. rows["catalog"] = [rev |-> 1, rec |-> [mode |-> m, mark |-> 0, open |-> {}]]
      /\ DOMAIN rows = {"catalog"} \cup Gate /\ \A g \in Gate : rows[g] = Absent
  BY <1>1, GateFacts
<1>3. Catalog = [mode |-> m, mark |-> 0, open |-> {}] /\ 0 \in 0..MaxEpoch
  BY <1>2, GateFacts DEF Catalog, Record
<1>4. RowsOK
  <2>1. \A g \in Gate : ~Found(g) /\ rows[g].rev \in Nat
    BY <1>2 DEF Found, Absent
  <2> QED BY <1>2, <1>3, <2>1 DEF RowsOK, CatalogRecord
<1>5. told \in [part : {"gates"}, mark : 0..MaxEpoch] /\ told.mark = 0 /\ calls = {} /\ now = 0
  BY <1>3 DEF GatesInit
<1> QED BY <1>3, <1>4, <1>5 DEF GatesInv, Alone, Deadlines, Marks, Open

-----------------------------------------------------------------------------
(* Host targets.                                                           *)

TargetRowsOK ==
    /\ DOMAIN rows = Host
    /\ \A h \in Host : rows[h].rev \in Nat /\ (Found(h) => Record(h) \in HostTarget)

\* A write keeps the generation of the row it replaces, or raises it.
WriteOK(w) ==
    /\ w \in [id : Host, rev : Nat, rec : HostTarget]
    /\ w.rev <= rows[w.id].rev
    /\ Found(w.id) /\ Current(w) => Record(w.id).mark <= w.rec.mark

\* What was listed is behind, or the row.
ListedOK(e) ==
    /\ e \in [id : Host, rev : Nat \ {0}, rec : HostTarget]
    /\ e.rev <= rows[e.id].rev
    /\ Current(e) => Record(e.id) = e.rec

LapsedNow(w) == w.rev # 0 /\ (Current(w) => Record(w.id).expires <= now + Skew)

\* A pass is a record, whatever its fields hold.
IsSweep(s) ==
    s \in [phase : {s.phase}, bound : {s.bound}, after : {s.after}, clock : {s.clock}, pages : {s.pages},
           page : {s.page}, more : {s.more}, writing : {s.writing}]

TargetsInv ==
    /\ TargetRowsOK /\ IsSweep(sweep)
    /\ now \in Nat /\ told = [part |-> "targets"]
    /\ \A w \in calls : WriteOK(w)
    /\ \A e \in sweep.page : ListedOK(e)
    /\ sweep.clock \in 0..(now + Skew)
    /\ sweep.writing \subseteq calls
    /\ \A w \in sweep.writing : LapsedNow(w)

\* The bounds of clocks and of what Hosts choose.
LEMMA TargetFacts == MaxTTL \in Nat /\ Skew \in Nat /\ MaxGeneration \in Nat
BY HostTargetAssumption, IndexAssumption

\* What a write, a listed row and a withdrawal are worth outlasts a step that
\* writes no row,
LEMMA TargetsKept ==
    ASSUME rows' = rows, now \in Nat, now' \in Nat, now <= now', TargetRowsOK
    PROVE  /\ TargetRowsOK'
           /\ \A w : WriteOK(w) => WriteOK(w)'
           /\ \A e : ListedOK(e) => ListedOK(e)'
           /\ \A w : WriteOK(w) /\ LapsedNow(w) => LapsedNow(w)'
<1>1. TargetRowsOK'
  BY DEF TargetRowsOK, Found, Record
<1>2. \A w : (WriteOK(w) => WriteOK(w)') /\ (ListedOK(w) => ListedOK(w)')
  BY DEF WriteOK, ListedOK, Found, Current, Record
<1>3. ASSUME NEW w, WriteOK(w), LapsedNow(w), Current(w)' PROVE Record(w.id)'.expires <= now' + Skew
  <2>1. Current(w) /\ w.id \in Host /\ Found(w.id) /\ Record(w.id)' = Record(w.id)
    BY <1>3 DEF Current, WriteOK, Found, Record, LapsedNow
  <2>2. Record(w.id).expires \in Nat /\ Record(w.id).expires <= now + Skew
    BY <1>3, <2>1 DEF TargetRowsOK, HostTarget, LapsedNow
  <2> QED BY <2>1, <2>2, TargetFacts
<1> QED BY <1>1, <1>2, <1>3 DEF LapsedNow

\* and one that does leaves every other write and listing of its row behind.
LEMMA TargetsLand ==
    ASSUME TargetsInv, NEW w \in calls, Land(w)
    PROVE  /\ TargetRowsOK'
           /\ \A v \in calls : v # w => WriteOK(v)' /\ (LapsedNow(v) => LapsedNow(v)')
           /\ \A e : ListedOK(e) => ListedOK(e)'
           /\ \A h \in Host \ {w.id} : rows'[h] = rows[h]
           /\ rows'[w.id].rec = w.rec /\ (Found(w.id) => rows[w.id].rec.mark <= w.rec.mark)
<1>1. /\ WriteOK(w) /\ w.id \in Host /\ w.rev \in Nat /\ w.rec \in HostTarget /\ Current(w)
      /\ rows[w.id].rev = w.rev /\ TargetRowsOK
      /\ rows' = [rows EXCEPT ![w.id] = [rev |-> rows[w.id].rev + 1, rec |-> w.rec]] /\ now' = now
  BY DEF TargetsInv, Land, WriteOK, Current
<1>2. /\ rows'[w.id] = [rev |-> w.rev + 1, rec |-> w.rec] /\ DOMAIN rows' = Host
      /\ \A h \in Host \ {w.id} : rows'[h] = rows[h]
  BY <1>1 DEF TargetRowsOK
<1>3. TargetRowsOK'
  BY <1>1, <1>2 DEF TargetRowsOK, Found, Record
<1>4. \A v : (v.id \in Host /\ v.id # w.id) =>
         (WriteOK(v) => WriteOK(v)') /\ (ListedOK(v) => ListedOK(v)') /\ (LapsedNow(v) => LapsedNow(v)')
  BY <1>1, <1>2 DEF WriteOK, ListedOK, LapsedNow, Found, Current, Record
<1>5. \A v : (v.id = w.id /\ v.rev \in Nat /\ v.rev <= w.rev) =>
         (WriteOK(v) => WriteOK(v)') /\ (ListedOK(v) => ListedOK(v)') /\ (LapsedNow(v) => LapsedNow(v)')
  BY <1>1, <1>2 DEF WriteOK, ListedOK, LapsedNow, Found, Current, Record
<1>6. ASSUME NEW v, WriteOK(v) \/ ListedOK(v)
      PROVE  v.id \in Host /\ v.rev \in Nat /\ (v.id = w.id => v.rev <= w.rev)
  BY <1>1, <1>6 DEF WriteOK, ListedOK
<1>7. \A v \in calls : WriteOK(v)
  BY DEF TargetsInv
<1> QED BY <1>1, <1>2, <1>3, <1>4, <1>5, <1>6, <1>7 DEF WriteOK, Record

\* A step that writes no row, and of which calls and pass keep what they were
\* worth.
LEMMA TargetsGo ==
    ASSUME TargetsInv, rows' = rows, now' = now, told' = told, IsSweep(sweep'),
           \A w \in calls' : WriteOK(w),
           \A e \in sweep'.page : ListedOK(e),
           sweep'.clock \in 0..(now + Skew),
           sweep'.writing \subseteq calls', \A w \in sweep'.writing : LapsedNow(w)
    PROVE  TargetsInv'
<1>1. /\ TargetRowsOK' /\ now \in Nat /\ \A w : WriteOK(w) => WriteOK(w)'
      /\ \A e : ListedOK(e) => ListedOK(e)'
      /\ \A w : WriteOK(w) /\ LapsedNow(w) => LapsedNow(w)'
  BY TargetsKept DEF TargetsInv
<1> QED BY <1>1 DEF TargetsInv

\* A Host writes no generation older than the one it read.
LEMMA HostsOffer ==
    ASSUME TargetsInv, NEW h \in Host, NEW rec \in HostTarget, HostOffer(h, rec), UNCHANGED <<told, sweep>>,
           Found(h) => Record(h).mark <= rec.mark
    PROVE  TargetsInv'
<1> DEFINE w == [id |-> h, rev |-> rows[h].rev, rec |-> rec]
<1>1. calls' = calls \cup {w} /\ rows' = rows /\ now' = now /\ told' = told /\ sweep' = sweep
  BY DEF HostOffer, Offer, OfferAt
<1>2. WriteOK(w)
  BY DEF WriteOK, TargetsInv, TargetRowsOK
<1> HIDE DEF w
<1> QED BY <1>1, <1>2, TargetsGo DEF TargetsInv

\* Publishing and draining are such writes.
LEMMA HostsStep ==
    ASSUME TargetsInv, NEW h \in Host, NEW g \in Generation,
           \/ \E t \in Reading : \E x \in 1..(t + MaxTTL) : PublishHostTarget(h, g, t, x)
           \/ DrainHostTarget(h, g)
    PROVE  TargetsInv'
<1>1. ASSUME NEW t \in Reading, NEW x \in 1..(t + MaxTTL), PublishHostTarget(h, g, t, x) PROVE TargetsInv'
  <2>1. x \in Nat
    BY TargetFacts DEF Reading, TargetsInv
  <2>2. [mark |-> g, live |-> TRUE, expires |-> x] \in HostTarget
    BY <2>1 DEF HostTarget
  <2>3. Found(h) => Record(h).mark <= g
    BY <1>1 DEF PublishHostTarget, HostGenerationFence
  <2> QED BY <1>1, <2>2, <2>3, HostsOffer DEF PublishHostTarget
<1>2. CASE DrainHostTarget(h, g)
  <2>1. [mark |-> g, live |-> FALSE, expires |-> 0] \in HostTarget
    BY DEF HostTarget
  <2>2. Found(h) => Record(h).mark <= g
    BY <1>2 DEF DrainHostTarget, HostGenerationFence
  <2> QED BY <1>2, <2>1, <2>2, HostsOffer DEF DrainHostTarget
<1> QED BY <1>1, <1>2

\* A write lands; the pass waits for it no longer.
LEMMA TargetsCommit ==
    ASSUME TargetsInv, NEW w \in calls, HostCommit(w) \/ Withdraws(w)
    PROVE  TargetsInv'
<1>1. Land(w) /\ told' = told /\ calls' = calls \ {w} /\ now' = now /\ now \in Nat /\ IsSweep(sweep)
  BY DEF HostCommit, Withdraws, Land, TargetsInv
<1>2. /\ TargetRowsOK'
      /\ \A v \in calls : v # w => WriteOK(v)' /\ (LapsedNow(v) => LapsedNow(v)')
      /\ \A e : ListedOK(e) => ListedOK(e)'
  BY <1>1, TargetsLand
<1>3. IsSweep(sweep') /\ sweep'.clock = sweep.clock /\ sweep'.page = sweep.page
      /\ sweep'.writing \subseteq sweep.writing \ {w}
  <2>1. CASE HostCommit(w)
    BY <1>1, <2>1 DEF HostCommit
  <2>2. CASE Withdraws(w)
    BY <1>1, <2>2 DEF Withdraws, Written, IsSweep
  <2> QED BY <2>1, <2>2
<1> QED BY <1>1, <1>2, <1>3 DEF TargetsInv

\* A write is lost, or the sweep stops waiting for it.
LEMMA TargetsLose ==
    ASSUME TargetsInv, NEW w \in calls, HostLose(w) \/ Contended(w) \/ Unverified(w)
    PROVE  TargetsInv'
<1>1. Lose(w) /\ told' = told /\ calls' = calls \ {w} /\ now' = now /\ rows' = rows /\ IsSweep(sweep)
  BY DEF HostLose, Contended, Unverified, Lose, TargetsInv
<1>2. IsSweep(sweep') /\ sweep'.clock = sweep.clock /\ sweep'.page = sweep.page
      /\ sweep'.writing \subseteq sweep.writing \ {w}
  <2>1. CASE HostLose(w)
    BY <1>1, <2>1 DEF HostLose
  <2>2. CASE Contended(w) \/ Unverified(w)
    BY <1>1, <2>2 DEF Contended, Unverified, Written, IsSweep
  <2> QED BY <2>1, <2>2
<1> QED BY <1>1, <1>2, TargetsGo DEF TargetsInv

\* A row that was listed is judged, and withdrawn as it was listed.
LEMMA RowsJudged ==
    ASSUME TargetsInv, NEW e \in sweep.page, ReconcileHostTargetRow(e)
    PROVE  TargetsInv'
<1> DEFINE withdrawal == [e.rec EXCEPT !.live = FALSE, !.expires = 0]
           w == [id |-> e.id, rev |-> e.rev, rec |-> withdrawal]
<1>1. ListedOK(e) /\ e.id \in Host /\ e.rev \in Nat \ {0} /\ e.rec \in HostTarget /\ e.rev <= rows[e.id].rev
      /\ (Current(e) => Record(e.id) = e.rec) /\ IsSweep(sweep) /\ now \in Nat
      /\ sweep.clock \in 0..(now + Skew)
  BY DEF TargetsInv, ListedOK
<1>2. CASE Lapsed(e.rec, sweep.clock)
  <2>1. calls' = calls \cup {w} /\ rows' = rows /\ now' = now /\ told' = told
        /\ sweep' = [sweep EXCEPT !.phase = "write", !.page = sweep.page \ {e}, !.writing = {w}]
    BY <1>2 DEF ReconcileHostTargetRow, OfferAt
  <2>2. withdrawal \in HostTarget /\ withdrawal.mark = e.rec.mark
    BY <1>1 DEF HostTarget
  <2> HIDE DEF withdrawal
  <2>3. w.id = e.id /\ w.rev = e.rev /\ w.rec = withdrawal /\ w \in [id : Host, rev : Nat, rec : HostTarget]
    BY <1>1, <2>2
  <2> HIDE DEF w
  <2>4. WriteOK(w)
    BY <1>1, <2>2, <2>3 DEF WriteOK, Current, HostTarget, Generation
  <2>5. LapsedNow(w)
    <3>1. e.rec.expires <= now + Skew
      BY <1>1, <1>2, TargetFacts DEF Lapsed, HostTarget
    <3> QED BY <1>1, <2>3, <3>1 DEF LapsedNow, Current
  <2>6. IsSweep(sweep') /\ sweep'.clock = sweep.clock /\ sweep'.page = sweep.page \ {e} /\ sweep'.writing = {w}
    BY <1>1, <2>1 DEF IsSweep
  <2> QED BY <1>1, <2>1, <2>4, <2>5, <2>6, TargetsGo DEF TargetsInv
<1>3. CASE ~Lapsed(e.rec, sweep.clock)
  <2>1. calls' = calls /\ rows' = rows /\ now' = now /\ told' = told /\ sweep' = [sweep EXCEPT !.page = sweep.page \ {e}]
    BY <1>3 DEF ReconcileHostTargetRow, vars
  <2>2. IsSweep(sweep') /\ sweep'.clock = sweep.clock /\ sweep'.page = sweep.page \ {e}
        /\ sweep'.writing = sweep.writing
    BY <1>1, <2>1 DEF IsSweep
  <2> QED BY <2>1, <2>2, TargetsGo DEF TargetsInv
<1> QED BY <1>2, <1>3

\* A page is of rows as they are.
LEMMA RowsListed ==
    ASSUME TargetsInv, ListDue
    PROVE  TargetsInv'
<1> DEFINE due == DueAfter(sweep.bound, sweep.after)
           page == FirstOf(due)
           listed == {[id |-> h, rev |-> rows[h].rev, rec |-> Record(h)] : h \in page}
           after == IF due # page THEN LastOf(page) ELSE sweep.after
           more == due # page
<1>1. sweep' = [sweep EXCEPT !.phase = "rows", !.page = listed, !.more = more, !.after = after]
      /\ rows' = rows /\ calls' = calls /\ now' = now /\ told' = told
  BY DEF ListDue, vars
<1>2. page \subseteq {h \in Host : Found(h)}
  BY DEF FirstOf, DueAfter
<1> HIDE DEF due, page, after, more
<1>3. ASSUME NEW h \in page PROVE ListedOK([id |-> h, rev |-> rows[h].rev, rec |-> Record(h)])
  <2>1. h \in Host /\ Found(h) /\ rows[h].rev \in Nat \ {0} /\ Record(h) \in HostTarget
    BY <1>2 DEF TargetsInv, TargetRowsOK, Found
  <2> QED BY <2>1 DEF ListedOK
<1>4. \A e \in listed : ListedOK(e)
  BY <1>3
<1> HIDE DEF listed
<1>5. IsSweep(sweep') /\ sweep'.clock = sweep.clock /\ sweep'.page = listed /\ sweep'.writing = sweep.writing
  BY <1>1 DEF TargetsInv, IsSweep
<1> QED BY <1>1, <1>4, <1>5, TargetsGo DEF TargetsInv

\* A pass begins, gives up, ends, or turns its page.
LEMMA PassGoes ==
    ASSUME TargetsInv,
           (\E t \in SweepClock : ReconcileHostTargets(t)) \/ ListDueFails \/ WithdrawalFails \/ EndOfPage
    PROVE  TargetsInv'
<1>1. rows' = rows /\ calls' = calls /\ now' = now /\ told' = told /\ IsSweep(sweep) /\ 0 \in 0..(now + Skew)
      /\ now \in Nat
  <2>1. now \in Nat /\ IsSweep(sweep) /\ 0 \in 0..(now + Skew)
    BY TargetFacts DEF TargetsInv
  <2>2. UNCHANGED vars
    BY DEF ReconcileHostTargets, ListDueFails, WithdrawalFails, EndOfPage
  <2> QED BY <2>1, <2>2 DEF vars
<1>2. ASSUME NEW bound, NEW after, sweep' = SweepIdle(bound, after, sweep.writing) PROVE TargetsInv'
  <2>1. IsSweep(sweep') /\ sweep'.clock = 0 /\ sweep'.page = {} /\ sweep'.writing = sweep.writing
    BY <1>1, <1>2 DEF IsSweep, SweepIdle
  <2> QED BY <1>1, <2>1, TargetsGo DEF TargetsInv
<1>3. ASSUME NEW t \in SweepClock, ReconcileHostTargets(t) PROVE TargetsInv'
  <2>1. PICK bound : bound = IF sweep.after = Beginning THEN t ELSE sweep.bound
    OBVIOUS
  <2>2. sweep' = [sweep EXCEPT !.phase = "list", !.clock = t, !.bound = bound]
    BY <1>3, <2>1 DEF ReconcileHostTargets
  <2>3. IsSweep(sweep') /\ sweep'.clock = t /\ sweep'.page = sweep.page /\ sweep'.writing = sweep.writing
    BY <1>1, <2>2 DEF IsSweep
  <2>4. t \in 0..(now + Skew)
    BY DEF SweepClock, Reading
  <2> QED BY <1>1, <2>3, <2>4, TargetsGo DEF TargetsInv
<1>4. CASE ListDueFails
  BY <1>2, <1>4 DEF ListDueFails, NoCursor
<1>5. CASE WithdrawalFails
  BY <1>2, <1>5 DEF WithdrawalFails, NoCursor
<1>6. CASE EndOfPage
  <2>1. CASE sweep' = [sweep EXCEPT !.phase = "list", !.pages = sweep.pages + 1]
    <3>1. IsSweep(sweep') /\ sweep'.clock = sweep.clock /\ sweep'.page = sweep.page
          /\ sweep'.writing = sweep.writing
      BY <1>1, <2>1 DEF IsSweep
    <3> QED BY <1>1, <3>1, TargetsGo DEF TargetsInv
  <2> QED BY <1>2, <1>6, <2>1 DEF EndOfPage, NoCursor
<1> QED BY <1>3, <1>4, <1>5, <1>6

\* Every step of the Hosts and the sweep keeps the invariant.
LEMMA TargetsStep ==
    ASSUME TargetsInv, TargetsNext
    PROVE  TargetsInv'
<1>1. CASE Tick /\ UNCHANGED sweep
  <2>1. rows' = rows /\ calls' = calls /\ told' = told /\ sweep' = sweep /\ now' = now + 1 /\ now \in Nat
        /\ now' \in Nat /\ now <= now' /\ TargetRowsOK
    BY <1>1 DEF Tick, TargetsInv
  <2>2. sweep.clock \in 0..(now' + Skew)
    BY <2>1, TargetFacts DEF TargetsInv
  <2>3. /\ TargetRowsOK'
        /\ \A w : WriteOK(w) => WriteOK(w)'
        /\ \A e : ListedOK(e) => ListedOK(e)'
        /\ \A w : WriteOK(w) /\ LapsedNow(w) => LapsedNow(w)'
    BY <2>1, TargetsKept
  <2> QED BY <2>1, <2>2, <2>3 DEF TargetsInv
<1>2. ASSUME NEW w \in calls, HostCommit(w) \/ HostLose(w) \/ Withdraws(w) \/ Contended(w) \/ Unverified(w)
      PROVE  TargetsInv'
  BY <1>2, TargetsCommit, TargetsLose
<1>3. ASSUME NEW h \in Host, NEW g \in Generation,
             \/ \E t \in Reading : \E x \in 1..(t + MaxTTL) : PublishHostTarget(h, g, t, x)
             \/ DrainHostTarget(h, g)
      PROVE  TargetsInv'
  BY <1>3, HostsStep
<1>4. ASSUME NEW e \in sweep.page, ReconcileHostTargetRow(e) PROVE TargetsInv'
  BY <1>4, RowsJudged
<1>5. CASE (\E t \in SweepClock : ReconcileHostTargets(t)) \/ ListDueFails \/ WithdrawalFails \/ EndOfPage
  BY <1>5, PassGoes
<1>6. CASE ListDue
  BY <1>6, RowsListed
<1> QED BY <1>1, <1>2, <1>3, <1>4, <1>5, <1>6 DEF TargetsNext

\* With no target and an idle sweep there is nothing to show.
LEMMA TargetsStart == ASSUME TargetsInit PROVE TargetsInv
<1>1. \A h \in Host : rows[h] = Absent /\ ~Found(h) /\ rows[h].rev \in Nat
  BY DEF TargetsInit, Found, Absent
<1>2. IsSweep(sweep) /\ sweep.page = {} /\ sweep.writing = {} /\ sweep.clock = 0
  BY DEF TargetsInit, NoCursor, SweepIdle, IsSweep
<1>3. TargetRowsOK
  BY <1>1 DEF TargetsInit, TargetRowsOK
<1> QED BY <1>2, <1>3, TargetFacts DEF TargetsInit, TargetsInv

-----------------------------------------------------------------------------
(* Pages are no longer than their limit, and end at a place in the order.  *)

\* A set of numbers has a least one.
LEMMA NatWellOrdered ==
    ASSUME NEW T \in SUBSET Nat, T # {}
    PROVE  \E x \in T : \A y \in T : x <= y
<1> DEFINE Less == {p \in Nat \X Nat : p[1] < p[2]}
<1>1. IsWellFoundedOn(Less, Nat)
  BY NatLessThanWellFounded DEF OpToRel
<1>2. PICK x \in T : \A y \in T : ~(<<y, x>> \in Less)
  <2> HIDE DEF Less
  <2> QED BY <1>1, WFMin
<1>3. ASSUME NEW y \in T, ~(x <= y) PROVE FALSE
  <2>1. <<y, x>> \in Nat \X Nat /\ y < x
    BY <1>3
  <2> QED BY <1>2, <2>1
<1> QED BY <1>3

Before(hosts, h) == {g \in hosts : Behind(PositionOf(g), PositionOf(h))}

\* Rows of a finite set, each due at some time, are counted by those before
\* them, the later ones higher.
LEMMA PlacesCount ==
    ASSUME NEW hosts \in SUBSET Host, IsFiniteSet(hosts), \A h \in hosts : Due(Record(h)) \in Nat
    PROVE  /\ \A h \in hosts : Cardinality(Before(hosts, h)) \in Nat
           /\ \A g, h \in hosts : Behind(PositionOf(g), PositionOf(h)) =>
                 Cardinality(Before(hosts, g)) < Cardinality(Before(hosts, h))
           /\ \A g, h \in hosts : g # h =>
                 Behind(PositionOf(g), PositionOf(h)) \/ Behind(PositionOf(h), PositionOf(g))
<1>1. \A h \in hosts : h \in Nat /\ PositionOf(h) = <<Due(Record(h)), h>> /\ Due(Record(h)) \in Nat
  BY HostTargetAssumption DEF PositionOf
<1>2. ASSUME NEW h \in hosts PROVE IsFiniteSet(Before(hosts, h)) /\ Cardinality(Before(hosts, h)) \in Nat
  <2>1. Before(hosts, h) \in SUBSET hosts
    BY DEF Before
  <2> QED BY <2>1, FS_Subset, FS_CardinalityType
<1>3. ASSUME NEW g \in hosts, NEW h \in hosts, Behind(PositionOf(g), PositionOf(h))
      PROVE  Cardinality(Before(hosts, g)) < Cardinality(Before(hosts, h))
  <2>1. g \notin Before(hosts, g)
    BY <1>1 DEF Before, Behind
  <2>2. Before(hosts, g) \cup {g} \in SUBSET Before(hosts, h)
    BY <1>1, <1>3 DEF Before, Behind
  <2>3. Cardinality(Before(hosts, g) \cup {g}) = Cardinality(Before(hosts, g)) + 1
    BY <1>2, <2>1, FS_AddElement
  <2>4. Cardinality(Before(hosts, g) \cup {g}) <= Cardinality(Before(hosts, h))
    BY <1>2, <2>2, FS_Subset
  <2> QED BY <1>2, <2>3, <2>4
<1>4. \A g, h \in hosts : g # h =>
         Behind(PositionOf(g), PositionOf(h)) \/ Behind(PositionOf(h), PositionOf(g))
  BY <1>1 DEF Behind
<1> QED BY <1>2, <1>3, <1>4

\* A page has no more rows than its limit; if it leaves any out, the last of
\* its rows is a place, behind which are just the rows left out.
LEMMA PageIsBounded ==
    ASSUME NEW hosts \in SUBSET Host, IsFiniteSet(hosts), \A h \in hosts : Due(Record(h)) \in Nat
    PROVE  /\ IsFiniteSet(FirstOf(hosts)) /\ Cardinality(FirstOf(hosts)) <= Limit
           /\ FirstOf(hosts) \subseteq hosts
           /\ FirstOf(hosts) # hosts =>
                 /\ LastOf(FirstOf(hosts)) \in Position
                 /\ LastOf(FirstOf(hosts)) \in {PositionOf(h) : h \in FirstOf(hosts)}
                 /\ \A h \in hosts : Behind(LastOf(FirstOf(hosts)), PositionOf(h)) <=> h \notin FirstOf(hosts)
<1> DEFINE place == [h \in hosts |-> Cardinality(Before(hosts, h))]
           page == FirstOf(hosts)
<1>1. /\ place \in [hosts -> Nat] /\ Limit \in Nat \ {0}
      /\ \A g, h \in hosts : Behind(PositionOf(g), PositionOf(h)) => place[g] < place[h]
      /\ \A g, h \in hosts : g # h => place[g] # place[h]
  BY PlacesCount, HostTargetAssumption
<1>2. page = {h \in hosts : place[h] < Limit}
  BY DEF FirstOf, Before
<1> HIDE DEF page
<1>3. IsFiniteSet(page) /\ Cardinality(page) <= Limit
  <2> DEFINE f == [h \in page |-> place[h]]
  <2>1. f \in Injection(page, 0..(Limit - 1))
    BY <1>1, <1>2 DEF Injection, IsInjective
  <2>2. IsFiniteSet(0..(Limit - 1)) /\ Cardinality(0..(Limit - 1)) = Limit
    BY <1>1, FS_Interval
  <2> HIDE DEF f
  <2> QED BY <2>1, <2>2, FS_Injection
<1>4. ASSUME page # hosts
      PROVE  /\ LastOf(page) \in Position
             /\ LastOf(page) \in {PositionOf(h) : h \in page}
             /\ \A h \in hosts : Behind(LastOf(page), PositionOf(h)) <=> h \notin page
  <2>1. page \subseteq hosts /\ hosts # {}
    BY <1>2, <1>4
  <2>2. page # {}
    <3>1. PICK h \in hosts : \A g \in hosts : place[h] <= place[g]
      <4>1. {place[h] : h \in hosts} \in SUBSET Nat /\ {place[h] : h \in hosts} # {}
        BY <1>1, <2>1
      <4>2. PICK n \in {place[h] : h \in hosts} : \A m \in {place[h] : h \in hosts} : n <= m
        BY <4>1, NatWellOrdered
      <4> QED BY <4>2
    <3>2. Before(hosts, h) = {}
      <4> SUFFICES ASSUME NEW g \in Before(hosts, h) PROVE FALSE
        OBVIOUS
      <4>1. g \in hosts /\ place[g] < place[h]
        BY <1>1 DEF Before
      <4> HIDE DEF place
      <4> QED BY <1>1, <3>1, <4>1
    <3>3. place[h] = 0
      BY <3>2, FS_EmptySet
    <3> HIDE DEF place
    <3> QED BY <1>1, <1>2, <3>3
  <2> HIDE DEF place
  <2>3. PICK l \in page : \A h \in page : place[h] <= place[l]
    <3> DEFINE left == {Limit - place[h] : h \in page}
    <3>1. left \in SUBSET Nat /\ left # {}
      BY <1>1, <1>2, <2>2
    <3>2. PICK n \in left : \A m \in left : n <= m
      <4> HIDE DEF left
      <4> QED BY <3>1, NatWellOrdered
    <3>3. PICK l \in page : n = Limit - place[l]
      BY <3>2
    <3>4. \A h \in page : Limit - place[l] <= Limit - place[h]
      BY <3>2, <3>3
    <3>5. \A h \in page : place[h] \in Nat
      BY <1>1, <1>2
    <3> QED BY <1>1, <3>4, <3>5
  <2>4. \A h \in page : ~Behind(PositionOf(l), PositionOf(h))
    <3> SUFFICES ASSUME NEW h \in page, Behind(PositionOf(l), PositionOf(h)) PROVE FALSE
      OBVIOUS
    <3>1. place[l] < place[h] /\ place[h] <= place[l] /\ place[l] \in Nat /\ place[h] \in Nat
      BY <1>1, <1>2, <2>3
    <3> QED BY <3>1
  <2>5. \E p \in {PositionOf(h) : h \in page} : \A h \in page : ~Behind(p, PositionOf(h))
    BY <2>4
  <2>6. LastOf(page) \in {PositionOf(h) : h \in page} /\ \A h \in page : ~Behind(LastOf(page), PositionOf(h))
    BY <2>5 DEF LastOf
  <2>7. \A h \in page : PositionOf(h) \in Position
    BY <2>1, HostTargetAssumption DEF PositionOf, Position
  <2>8. ASSUME NEW h \in hosts, h \notin page PROVE Behind(LastOf(page), PositionOf(h))
    <3>1. PICK m \in page : LastOf(page) = PositionOf(m)
      BY <2>6
    <3>2. m \in hosts /\ place[m] \in Nat /\ place[h] \in Nat /\ place[m] < Limit /\ ~(place[h] < Limit)
      BY <1>1, <1>2, <2>1, <2>8
    <3>3. ~Behind(PositionOf(h), PositionOf(m))
      BY <1>1, <3>2
    <3>4. h # m
      BY <2>8
    <3>5. Behind(PositionOf(m), PositionOf(h)) \/ Behind(PositionOf(h), PositionOf(m))
      BY <3>2, <3>4, PlacesCount
    <3> QED BY <3>1, <3>3, <3>5
  <2> QED BY <2>6, <2>7, <2>8
<1>5. page \subseteq hosts
  BY <1>2
<1> QED BY <1>3, <1>4, <1>5 DEF page

\* What the rows, the calls and the pass stay within.
RowsBounded ==
    /\ \A h \in Host : rows[h].rev <= MaxRev /\ (~Found(h) => rows[h] = Absent)
    /\ IsFiniteSet({h \in Host : Found(h)})
    /\ \A w \in calls : w.rev < MaxRev
    /\ now <= MaxTime

PassBounded ==
    /\ sweep.phase \in {"idle", "list", "rows", "write"}
    /\ sweep.after \in Position
    /\ IsFiniteSet(sweep.page) /\ Cardinality(sweep.page) <= Limit
    /\ sweep.pages \in 0..(MaxPages - 1) /\ (sweep.phase = "idle" => sweep.pages = 0)
    /\ sweep.phase = "write" => sweep.writing # {}

\* Rows are written below the bound on revisions, one at a time.
LEMMA RowsStayBounded ==
    ASSUME TargetsInv, RowsBounded, TargetsNext
    PROVE  RowsBounded'
<1>1. MaxRev \in Nat /\ MaxTime \in Nat /\ now \in Nat /\ DOMAIN rows = Host
  BY IndexAssumption DEF TargetsInv, TargetRowsOK
<1>2. ASSUME rows' = rows, now' <= MaxTime, \A w \in calls' : w.rev < MaxRev PROVE RowsBounded'
  BY <1>2 DEF RowsBounded, Found
<1>3. CASE Tick /\ UNCHANGED sweep
  BY <1>1, <1>2, <1>3 DEF Tick, RowsBounded
<1>4. ASSUME NEW i, NEW rev, NEW rec, OfferAt(i, rev, rec) PROVE RowsBounded'
  <2>1. \A w \in calls' : w \in calls \/ w = [id |-> i, rev |-> rev, rec |-> rec]
    BY <1>4 DEF OfferAt
  <2> QED BY <1>2, <1>4, <2>1 DEF OfferAt, RowsBounded
<1>5. ASSUME NEW h \in Host, NEW g \in Generation,
             \/ \E t \in Reading : \E x \in 1..(t + MaxTTL) : PublishHostTarget(h, g, t, x)
             \/ DrainHostTarget(h, g)
      PROVE  RowsBounded'
  BY <1>4, <1>5 DEF PublishHostTarget, DrainHostTarget, HostOffer, Offer
<1>6. ASSUME NEW w \in calls, Land(w) PROVE RowsBounded'
  <2>1. /\ w.id \in Host /\ w.rev \in Nat /\ rows[w.id].rev = w.rev /\ w.rev < MaxRev
        /\ rows' = [rows EXCEPT ![w.id] = [rev |-> rows[w.id].rev + 1, rec |-> w.rec]]
        /\ calls' = calls \ {w} /\ now' = now
    BY <1>6 DEF Land, Current, TargetsInv, WriteOK, RowsBounded
  <2>2. rows'[w.id].rev = w.rev + 1 /\ \A h \in Host \ {w.id} : rows'[h] = rows[h]
    BY <1>1, <2>1
  <2>3. {h \in Host : Found(h)'} = {h \in Host : Found(h)} \cup {w.id}
    BY <2>1, <2>2 DEF Found
  <2>4. IsFiniteSet({h \in Host : Found(h)'})
    BY <2>3, FS_AddElement DEF RowsBounded
  <2>5. \A h \in Host : rows'[h].rev <= MaxRev /\ (~Found(h)' => rows'[h] = Absent)
    BY <1>1, <2>1, <2>2 DEF RowsBounded, Found
  <2> QED BY <2>1, <2>4, <2>5 DEF RowsBounded
<1>7. ASSUME NEW w \in calls, Lose(w) PROVE RowsBounded'
  BY <1>2, <1>7 DEF Lose, RowsBounded
<1>8. ASSUME NEW e \in sweep.page, ReconcileHostTargetRow(e) PROVE RowsBounded'
  BY <1>2, <1>4, <1>8 DEF ReconcileHostTargetRow, vars, RowsBounded
<1>9. CASE UNCHANGED vars
  BY <1>2, <1>9 DEF vars, RowsBounded
<1> QED BY <1>3, <1>5, <1>6, <1>7, <1>8, <1>9
        DEF TargetsNext, HostCommit, HostLose, Withdraws, Contended, Unverified, ReconcileHostTargets,
            ListDue, ListDueFails, WithdrawalFails, EndOfPage

\* A pass turns a page at a time, and gives up or ends with none.
LEMMA PassStaysBounded ==
    ASSUME TargetsInv, RowsBounded, PassBounded, TargetsNext
    PROVE  PassBounded'
<1>1. IsSweep(sweep) /\ Limit \in Nat /\ MaxPages \in Nat \ {0}
  BY HostTargetAssumption DEF TargetsInv
<1>2. CASE sweep' = sweep
  BY <1>2 DEF PassBounded
<1>3. ASSUME NEW bound, NEW after \in Position, NEW writing, sweep' = SweepIdle(bound, after, writing)
      PROVE  PassBounded'
  BY <1>1, <1>3, FS_EmptySet DEF PassBounded, SweepIdle
<1>4. Beginning \in Position
  BY DEF Beginning, Position
<1>5. CASE sweep' = Written
  BY <1>1, <1>5 DEF PassBounded, Written, IsSweep
<1>6. ASSUME NEW t \in SweepClock, ReconcileHostTargets(t) PROVE PassBounded'
  BY <1>1, <1>6 DEF ReconcileHostTargets, PassBounded, IsSweep
<1>7. CASE ListDue
  <2> DEFINE due == DueAfter(sweep.bound, sweep.after)
             page == FirstOf(due)
             listed == {[id |-> h, rev |-> rows[h].rev, rec |-> Record(h)] : h \in page}
             after == IF due # page THEN LastOf(page) ELSE sweep.after
             more == due # page
  <2>1. sweep' = [sweep EXCEPT !.phase = "rows", !.page = listed, !.more = more, !.after = after]
    BY <1>7 DEF ListDue
  <2>2. due \in SUBSET Host /\ due \in SUBSET {h \in Host : Found(h)}
    BY DEF DueAfter
  <2>3. IsFiniteSet(due)
    BY <2>2, FS_Subset DEF RowsBounded
  <2>4. \A h \in due : Due(Record(h)) \in Nat
    BY <2>2 DEF Due, TargetsInv, TargetRowsOK, HostTarget
  <2> HIDE DEF due
  <2>5. IsFiniteSet(page) /\ Cardinality(page) <= Limit /\ (page # due => LastOf(page) \in Position)
    BY <2>2, <2>3, <2>4, PageIsBounded
  <2> HIDE DEF page
  <2>6. after \in Position
    BY <2>5 DEF PassBounded
  <2>7. IsFiniteSet(listed) /\ Cardinality(listed) <= Limit
    <3> DEFINE f == [h \in page |-> [id |-> h, rev |-> rows[h].rev, rec |-> Record(h)]]
    <3>1. f \in Surjection(page, listed)
      BY DEF Surjection
    <3> HIDE DEF f, listed
    <3>2. IsFiniteSet(listed) /\ Cardinality(listed) <= Cardinality(page)
      BY <2>5, <3>1, FS_Surjection
    <3>3. Cardinality(page) \in Nat /\ Cardinality(listed) \in Nat
      BY <2>5, <3>2, FS_CardinalityType
    <3> QED BY <1>1, <2>5, <3>2, <3>3
  <2> HIDE DEF listed, after, more
  <2> QED BY <1>1, <2>1, <2>6, <2>7 DEF PassBounded, IsSweep
<1>8. CASE ListDueFails
  BY <1>3, <1>4, <1>8 DEF ListDueFails, NoCursor, PassBounded
<1>9. CASE WithdrawalFails
  BY <1>3, <1>4, <1>9 DEF WithdrawalFails, NoCursor
<1>10. CASE EndOfPage
  <2>1. CASE sweep' = [sweep EXCEPT !.phase = "list", !.pages = sweep.pages + 1] /\ sweep.pages + 1 < MaxPages
    BY <1>1, <2>1 DEF PassBounded, IsSweep
  <2> QED BY <1>3, <1>4, <1>10, <2>1 DEF EndOfPage, NoCursor, PassBounded
<1>11. ASSUME NEW e \in sweep.page, ReconcileHostTargetRow(e) PROVE PassBounded'
  <2>1. sweep.page \ {e} \in SUBSET sweep.page
    OBVIOUS
  <2>2. IsFiniteSet(sweep.page \ {e}) /\ Cardinality(sweep.page \ {e}) <= Cardinality(sweep.page)
        /\ Cardinality(sweep.page) \in Nat /\ Cardinality(sweep.page \ {e}) \in Nat
    BY <2>1, FS_Subset, FS_CardinalityType DEF PassBounded
  <2>3. /\ sweep'.page = sweep.page \ {e} /\ sweep'.after = sweep.after /\ sweep'.pages = sweep.pages
        /\ \/ sweep'.phase = "write" /\ sweep'.writing # {}
           \/ sweep'.phase = "rows"
    <3>1. PICK w : w = [id |-> e.id, rev |-> e.rev, rec |-> [e.rec EXCEPT !.live = FALSE, !.expires = 0]]
      OBVIOUS
    <3>2. \/ sweep' = [sweep EXCEPT !.phase = "write", !.page = sweep.page \ {e}, !.writing = {w}]
          \/ sweep' = [sweep EXCEPT !.page = sweep.page \ {e}] /\ sweep.phase = "rows"
      BY <1>11, <3>1 DEF ReconcileHostTargetRow
    <3> QED BY <1>1, <3>2 DEF IsSweep
  <2> QED BY <1>1, <2>2, <2>3 DEF PassBounded
<1>12. ASSUME NEW h \in Host, NEW g \in Generation,
             \/ \E t \in Reading : \E x \in 1..(t + MaxTTL) : PublishHostTarget(h, g, t, x)
             \/ DrainHostTarget(h, g)
      PROVE  sweep' = sweep
  BY <1>12 DEF PublishHostTarget, DrainHostTarget
<1>13. ASSUME NEW w \in calls, HostCommit(w) \/ HostLose(w) \/ Withdraws(w) \/ Contended(w) \/ Unverified(w)
       PROVE  sweep' = sweep \/ sweep' = Written
  BY <1>13 DEF HostCommit, HostLose, Withdraws, Contended, Unverified
<1> QED BY <1>2, <1>5, <1>6, <1>7, <1>8, <1>9, <1>10, <1>11, <1>12, <1>13 DEF TargetsNext

-----------------------------------------------------------------------------
(* Both.                                                                   *)

IInv ==
    /\ told.part \in {"gates", "targets"}
    /\ GatesPart => GatesInv
    /\ TargetsPart => TargetsInv

\* Every step keeps the invariant, and the part a behaviour is about.
LEMMA Step ==
    ASSUME IInv, [Next]_targetVars
    PROVE  IInv'
<1>1. CASE TargetsPart /\ TargetsNext
  <2>1. TargetsInv'
    BY <1>1, TargetsStep DEF IInv
  <2> QED BY <2>1 DEF IInv, TargetsInv, GatesPart, TargetsPart
<1>2. CASE GatesPart /\ GatesNext /\ UNCHANGED sweep
  <2>1. GatesInv'
    BY <1>2, GatesStep DEF IInv
  <2> QED BY <2>1 DEF IInv, GatesInv, GatesPart, TargetsPart
<1>3. CASE UNCHANGED targetVars
  <2>1. rows' = rows /\ calls' = calls /\ now' = now /\ told' = told /\ sweep' = sweep
    BY <1>3 DEF targetVars
  <2>2. GatesPart => GatesInv'
    <3>1. \A x : CallOK(x) => CallOK(x)'
      BY <2>1 DEF CallOK, MayWriteCatalog, Opening, Resolving, Retiring, DueNow, Aged, Found, Record, Open,
         Catalog, Disposition
    <3> QED BY <2>1, <3>1 DEF IInv, GatesInv, RowsOK, Deadlines, Marks, Alone, DueNow, Open, Found, Record,
               Catalog, Disposition
  <2>3. TargetsPart => TargetsInv'
    BY <2>1, TargetsGo DEF IInv, TargetsInv
  <2> QED BY <2>1, <2>2, <2>3 DEF IInv, GatesPart, TargetsPart
<1> QED BY <1>1, <1>2, <1>3 DEF Next

\* A behaviour is of gates or of targets, and starts one of the two.
LEMMA Start == ASSUME Init PROVE IInv
<1>1. CASE TargetsInit
  BY <1>1, TargetsStart DEF IInv, TargetsInv, GatesPart, TargetsPart
<1>2. CASE GatesInit
  BY <1>2, GatesStart DEF IInv, GatesInv, GatesPart, TargetsPart
<1> QED BY <1>1, <1>2 DEF Init

\* Whatever the number of Hosts, gates and calls, the invariant holds.
THEOREM Invariance == Spec => []IInv
<1>1. Init => IInv
  BY Start
<1>2. IInv /\ [Next]_targetVars => IInv'
  BY Step
<1> QED BY <1>1, <1>2, PTL DEF Spec

\* An open gate is due, as long as it is not resolved while it is being opened:
\* the two rows are written in an order, and a sweep retires only what is too
\* old for the call that wrote it to go on.  (OpenGate, ResolveGate and
\* RetireGateDeadlineIntent.  With an overlap it need not be: GateOverlap.cfg.)
THEOREM OpenGatesAreDue ==
    ASSUME ~Overlap
    PROVE  Spec => []OpenGateHasDeadline
<1>1. IInv => OpenGateHasDeadline
  BY DEF IInv, GatesInv, Deadlines, DueNow, OpenGateHasDeadline
<1> QED BY <1>1, Invariance, PTL

\* A Host whose gate write succeeded shuts its predecessors out, overlapping
\* calls or not.  (fenceWithoutChange and the epoch fence of each gate write.)
THEOREM SuccessorsFence == Spec => []SuccessorFencesGates
<1>1. IInv => SuccessorFencesGates
  BY DEF IInv, GatesInv, Marks, SuccessorFencesGates
<1> QED BY <1>1, Invariance, PTL

\* And with the bounds on rows and passes.
TInv == IInv /\ (TargetsPart => RowsBounded /\ PassBounded)

\* They hold of every behaviour.
LEMMA BoundsHold == Spec => []TInv
<1> USE DEF TInv
<1>1. Init => TInv
  <2> SUFFICES ASSUME Init, TargetsPart PROVE RowsBounded /\ PassBounded
    BY Start
  <2>1. TargetsInit
    BY DEF Init, GatesInit, TargetsPart
  <2>2. MaxRev \in Nat /\ MaxTime \in Nat /\ Limit \in Nat /\ MaxPages \in Nat \ {0}
    BY IndexAssumption, HostTargetAssumption
  <2>3. {h \in Host : Found(h)} = {}
    BY <2>1 DEF TargetsInit, Found, Absent
  <2>4. RowsBounded
    BY <2>1, <2>2, <2>3, FS_EmptySet DEF RowsBounded, TargetsInit, Absent
  <2>5. PassBounded
    BY <2>1, <2>2, FS_EmptySet DEF PassBounded, TargetsInit, NoCursor, SweepIdle, Beginning, Position
  <2> QED BY <2>4, <2>5
<1>2. TInv /\ [Next]_targetVars => TInv'
  <2> SUFFICES ASSUME TInv, [Next]_targetVars PROVE TInv'
    OBVIOUS
  <2>1. IInv'
    BY Step
  <2>2. ASSUME TargetsPart' PROVE (RowsBounded /\ PassBounded)'
    <3>1. CASE TargetsPart /\ TargetsNext
      BY <3>1, RowsStayBounded, PassStaysBounded DEF IInv
    <3>2. CASE GatesPart /\ GatesNext /\ UNCHANGED sweep
      <4>1. GatesInv'
        BY <3>2, GatesStep DEF IInv
      <4> QED BY <2>2, <4>1 DEF GatesInv, TargetsPart
    <3>3. CASE UNCHANGED targetVars
      BY <2>2, <3>3 DEF targetVars, TargetsPart, RowsBounded, PassBounded, Found
    <3> QED BY <3>1, <3>2, <3>3 DEF Next
  <2> QED BY <2>1, <2>2
<1> QED BY <1>1, <1>2, PTL DEF Spec

\* Rows, calls, what callers were told and the pass stay what the code can
\* store and say: no page is longer than its limit, a pass has no more pages
\* than it may, and its cursor is a place in the order it pages through.
\* (ListDue of the provider, ReconcileHostTargets and its cursor.)
THEOREM TypeCorrect == Spec => []TypeOK
<1> USE DEF TInv
<1>1. TInv => TypeOK
  <2> SUFFICES ASSUME TInv PROVE TypeOK
    OBVIOUS
  <2>1. CASE GatesPart
    BY <2>1 DEF IInv, GatesInv, RowsOK, Catalog, GatesTypeOK, TypeOK
  <2>2. CASE TargetsPart
    <3>1. TargetsInv /\ RowsBounded /\ PassBounded
      BY <2>2 DEF IInv
    <3>2. \A w \in calls : w.id \in Host /\ w.rev <= rows[w.id].rev
      BY <3>1 DEF TargetsInv, WriteOK
    <3>3. IndexTypeOK
      BY <3>1, <3>2, IndexAssumption DEF TargetsInv, TargetRowsOK, RowsBounded, IndexTypeOK
    <3>4. sweep.pages < MaxPages
      BY <3>1, HostTargetAssumption DEF PassBounded
    <3> QED BY <2>2, <3>1, <3>3, <3>4 DEF TargetsInv, TargetRowsOK, PassBounded, TargetsTypeOK, TypeOK
  <2> QED BY <2>1, <2>2 DEF IInv, GatesPart, TargetsPart
<1> QED BY <1>1, BoundsHold, PTL

\* The sweep takes away only an advertisement that lapsed, and a row's
\* generation never falls.  (hostGenerationFence, hostTargetLiveness and the
\* listed revision that each withdrawal names.)
THEOREM AdvertisementsStand == Spec => AdvertisementStands
<1> DEFINE Stands == TargetsPart => \A h \in Host : Found(h) =>
             /\ rows[h].rec.mark <= rows'[h].rec.mark
             /\ rows'[h] # rows[h] /\ sweep.writing' # sweep.writing => rows[h].rec.expires <= now + Skew
<1>1. ASSUME IInv, [Next]_targetVars PROVE Stands
  <2> SUFFICES ASSUME TargetsPart, NEW h \in Host, Found(h)
               PROVE  /\ rows[h].rec.mark <= rows'[h].rec.mark
                      /\ rows'[h] # rows[h] /\ sweep'.writing # sweep.writing => rows[h].rec.expires <= now + Skew
    OBVIOUS
  <2>1. TargetsInv /\ rows[h].rec.mark \in Nat
    BY <1>1 DEF IInv, TargetsInv, TargetRowsOK, HostTarget, Generation, Record
  <2>2. CASE \E w \in calls : HostCommit(w) \/ Withdraws(w)
    <3>1. PICK w \in calls : HostCommit(w) \/ Withdraws(w)
      BY <2>2
    <3>2. Land(w) /\ Current(w) /\ w.id \in Host
      BY <2>1, <3>1 DEF HostCommit, Withdraws, Land, TargetsInv, WriteOK
    <3>3. /\ \A i \in Host \ {w.id} : rows'[i] = rows[i]
          /\ rows'[w.id].rec = w.rec /\ (Found(w.id) => rows[w.id].rec.mark <= w.rec.mark)
      BY <2>1, <3>2, TargetsLand
    <3>4. CASE h # w.id
      BY <2>1, <3>3, <3>4
    <3>5. CASE h = w.id
      <4>1. CASE HostCommit(w)
        BY <3>3, <3>5, <4>1 DEF HostCommit
      <4>2. CASE Withdraws(w)
        BY <2>1, <3>2, <3>3, <3>5, <4>2 DEF Withdraws, TargetsInv, LapsedNow, Record
      <4> QED BY <3>1, <4>1, <4>2
    <3> QED BY <3>4, <3>5
  <2>3. CASE rows' = rows
    BY <2>1, <2>3
  <2>4. rows' = rows \/ \E w \in calls : HostCommit(w) \/ Withdraws(w)
    <3>1. CASE UNCHANGED targetVars
      BY <3>1 DEF targetVars
    <3>2. CASE TargetsNext
      BY <3>2 DEF TargetsNext, Tick, PublishHostTarget, DrainHostTarget, HostOffer, Offer, OfferAt, HostLose,
         Contended, Unverified, Lose, ReconcileHostTargets, ListDue, ListDueFails, ReconcileHostTargetRow,
         WithdrawalFails, EndOfPage, vars
    <3> QED BY <1>1, <3>1, <3>2 DEF Next, GatesPart, TargetsPart
  <2> QED BY <2>2, <2>3, <2>4
<1>2. AdvertisementStands <=> [][Stands]_targetVars
  BY DEF AdvertisementStands
<1>3. IInv /\ [Next]_targetVars => [Stands]_targetVars
  BY <1>1
<1> QED BY <1>2, <1>3, Invariance, PTL DEF Spec
-----------------------------------------------------------------------------
(* How a pass goes on.                                                     *)

\* What a pass has before it on the page it is at: the page itself while it
\* is to be listed, a row and perhaps its write, the write in progress.
PassRank(s) ==
    (IF s.phase = "list" THEN 3 * Limit + 2
     ELSE 3 * Cardinality(s.page) + (IF s.phase = "write" THEN 1 ELSE 0))
    + (IF s.writing = {} THEN 0 ELSE 1)

\* A pass begins, ends, turns to one of its pages, or has less before it.
PassAdvances ==
    \/ sweep'.phase = "idle"
    \/ sweep.phase = "idle" /\ sweep'.pages = 0
    \/ sweep'.pages = sweep.pages + 1 /\ sweep'.pages < MaxPages
    \/ sweep'.pages = sweep.pages /\ PassRank(sweep') < PassRank(sweep)

\* Its cursor goes on behind the bound it began with, or is given up.
CursorAdvances ==
    \/ sweep'.after = sweep.after /\ (sweep.after # Beginning => sweep'.bound = sweep.bound)
    \/ Behind(sweep.after, sweep'.after) /\ sweep'.bound = sweep.bound
    \/ sweep'.after = Beginning /\ sweep'.phase = "idle"

\* A page and what its cursor leaves for the next are all that is due, and no
\* row is in both.
PageTiles ==
    sweep.phase = "list" /\ sweep'.phase = "rows" =>
        LET due == DueAfter(sweep.bound, sweep.after)
            page == {e.id : e \in sweep'.page}
            later == IF sweep'.more THEN DueAfter(sweep.bound, sweep'.after) ELSE {}
        IN  page \cup later = due /\ page \cap later = {}

\* Listing fills the page with the first of what is due.
LEMMA ListingTiles ==
    ASSUME TargetsInv, RowsBounded, PassBounded, ListDue
    PROVE  PageTiles /\ CursorAdvances
<1> DEFINE due == DueAfter(sweep.bound, sweep.after)
           page == FirstOf(due)
           listed == {[id |-> h, rev |-> rows[h].rev, rec |-> Record(h)] : h \in page}
<1>1. /\ sweep' = [sweep EXCEPT !.phase = "rows", !.page = listed, !.more = due # page,
                                !.after = IF due # page THEN LastOf(page) ELSE sweep.after]
      /\ rows' = rows
  BY DEF ListDue, vars
<1>2. due \in SUBSET Host /\ due \in SUBSET {h \in Host : Found(h)}
  BY DEF DueAfter
<1>3. IsFiniteSet(due)
  BY <1>2, FS_Subset DEF RowsBounded
<1>4. \A h \in due : Due(Record(h)) \in Nat
  BY <1>2 DEF Due, TargetsInv, TargetRowsOK, HostTarget
<1>5. \A h : h \in due <=> h \in Host /\ Found(h) /\ Record(h).live /\ Due(Record(h)) <= sweep.bound
                           /\ Behind(sweep.after, PositionOf(h))
  BY DEF DueAfter
<1> HIDE DEF due
<1>6. /\ page \subseteq due
      /\ page # due => /\ LastOf(page) \in Position /\ LastOf(page) \in {PositionOf(h) : h \in page}
                       /\ \A h \in due : Behind(LastOf(page), PositionOf(h)) <=> h \notin page
  BY <1>2, <1>3, <1>4, PageIsBounded
<1> HIDE DEF page
<1>7. {e.id : e \in listed} = page
  <2>1. \A h \in page : [id |-> h, rev |-> rows[h].rev, rec |-> Record(h)].id = h
    OBVIOUS
  <2>2. \A e \in listed : e.id \in page
    BY <2>1
  <2>3. \A h \in page : [id |-> h, rev |-> rows[h].rev, rec |-> Record(h)] \in listed
    OBVIOUS
  <2> HIDE DEF listed
  <2> QED BY <2>1, <2>2, <2>3
<1> HIDE DEF listed
<1>8. sweep'.page = listed /\ sweep'.more = (due # page) /\ sweep'.bound = sweep.bound
      /\ sweep'.after = IF due # page THEN LastOf(page) ELSE sweep.after
  BY <1>1 DEF TargetsInv, IsSweep
<1>9. ASSUME due # page
      PROVE  /\ page \cup DueAfter(sweep.bound, LastOf(page)) = due
             /\ page \cap DueAfter(sweep.bound, LastOf(page)) = {}
             /\ Behind(sweep.after, LastOf(page))
  <2>1. PICK m \in page : LastOf(page) = PositionOf(m)
    BY <1>6, <1>9
  <2>2. Behind(sweep.after, LastOf(page))
    BY <1>5, <1>6, <2>1
  <2>3. sweep.after \in Position /\ LastOf(page) \in Position
    BY <1>6, <1>9 DEF PassBounded
  <2>4. ASSUME NEW h \in Host, Found(h), Behind(LastOf(page), PositionOf(h)) PROVE Behind(sweep.after, PositionOf(h))
    <3>1. PositionOf(h) \in Position
      BY <2>4, HostTargetAssumption DEF PositionOf, Position, Due, TargetsInv, TargetRowsOK, HostTarget
    <3>2. \A p, q, r \in Position : Behind(p, q) /\ Behind(q, r) => Behind(p, r)
      BY DEF Position, Behind
    <3> QED BY <2>2, <2>3, <2>4, <3>1, <3>2
  <2>5. \A h : h \in DueAfter(sweep.bound, LastOf(page)) <=> h \in due /\ Behind(LastOf(page), PositionOf(h))
    BY <1>5, <2>4 DEF DueAfter
  <2>6. \A h \in due : Behind(LastOf(page), PositionOf(h)) <=> h \notin page
    BY <1>6, <1>9
  <2> QED BY <1>6, <2>2, <2>5, <2>6
<1>10. CursorAdvances
  BY <1>8, <1>9 DEF CursorAdvances
<1>11. PageTiles
  <2>1. DueAfter(sweep.bound, sweep.after) = due
    BY DEF due
  <2>2. CASE due # page
    BY <1>7, <1>8, <1>9, <2>1, <2>2 DEF PageTiles
  <2>3. CASE due = page
    BY <1>7, <1>8, <2>1, <2>3 DEF PageTiles
  <2> QED BY <2>2, <2>3
<1> QED BY <1>10, <1>11

\* What is left of a pass is a number.
LEMMA RankIsNat ==
    ASSUME PassBounded
    PROVE  Cardinality(sweep.page) \in Nat /\ Cardinality(sweep.page) <= Limit /\ Limit \in Nat /\ MaxPages \in Nat
BY FS_CardinalityType, HostTargetAssumption DEF PassBounded

\* Each step of a host sweep, the Hosts' among them.
LEMMA PassGoesOn ==
    ASSUME TargetsInv, RowsBounded, PassBounded, TargetsNext
    PROVE  (sweep' = sweep \/ PassAdvances) /\ CursorAdvances /\ PageTiles
<1>1. IsSweep(sweep) /\ PassBounded'
  BY PassStaysBounded DEF TargetsInv
<1>2. /\ Cardinality(sweep.page) \in Nat /\ Cardinality(sweep.page) <= Limit
      /\ Cardinality(sweep'.page) \in Nat /\ Cardinality(sweep'.page) <= Limit
      /\ Limit \in Nat /\ MaxPages \in Nat
  <2>1. Cardinality(sweep'.page) \in Nat /\ Cardinality(sweep'.page) <= Limit
    BY <1>1, FS_CardinalityType, HostTargetAssumption DEF PassBounded
  <2> QED BY <2>1, RankIsNat
<1>3. ASSUME sweep'.after = sweep.after, sweep'.bound = sweep.bound,
             sweep.phase # "list" \/ sweep'.phase # "rows"
      PROVE  CursorAdvances /\ PageTiles
  BY <1>3 DEF CursorAdvances, PageTiles
<1>4. CASE sweep' = sweep
  BY <1>3, <1>4
<1>5. ASSUME NEW w \in sweep.writing, sweep' = Written
      PROVE  PassAdvances /\ CursorAdvances /\ PageTiles
  <2>1. /\ sweep'.phase = (IF sweep.phase = "write" THEN "rows" ELSE sweep.phase)
        /\ sweep'.writing = {} /\ sweep'.page = sweep.page /\ sweep'.pages = sweep.pages
        /\ sweep'.after = sweep.after /\ sweep'.bound = sweep.bound
    BY <1>1, <1>5 DEF Written, IsSweep
  <2>2. PassRank(sweep') < PassRank(sweep)
    <3>1. sweep.writing # {}
      OBVIOUS
    <3>2. CASE sweep.phase = "list"
      BY <1>2, <2>1, <3>1, <3>2 DEF PassRank
    <3>3. CASE sweep.phase = "write"
      BY <1>2, <2>1, <3>1, <3>3 DEF PassRank
    <3>4. CASE sweep.phase \notin {"list", "write"}
      BY <1>2, <2>1, <3>1, <3>4 DEF PassRank
    <3> QED BY <3>2, <3>3, <3>4
  <2>3. sweep.phase = "list" => sweep'.phase # "rows"
    BY <2>1
  <2> QED BY <1>3, <2>1, <2>2, <2>3 DEF PassAdvances
<1>6. ASSUME NEW t \in SweepClock, ReconcileHostTargets(t)
      PROVE  PassAdvances /\ CursorAdvances /\ PageTiles
  <2>1. /\ sweep.phase = "idle" /\ sweep'.pages = sweep.pages /\ sweep'.after = sweep.after
        /\ sweep.after # Beginning => sweep'.bound = sweep.bound
    BY <1>1, <1>6 DEF ReconcileHostTargets, IsSweep
  <2>2. sweep.pages = 0
    BY <2>1 DEF PassBounded
  <2> QED BY <2>1, <2>2 DEF PassAdvances, CursorAdvances, PageTiles
<1>7. CASE ListDue
  <2>1. sweep.phase = "list" /\ sweep'.phase = "rows" /\ sweep'.pages = sweep.pages /\ sweep'.writing = sweep.writing
    BY <1>1, <1>7 DEF ListDue, IsSweep
  <2>2. PassRank(sweep') < PassRank(sweep)
    <3>1. CASE sweep.writing = {}
      BY <1>2, <2>1, <3>1 DEF PassRank
    <3>2. CASE sweep.writing # {}
      BY <1>2, <2>1, <3>2 DEF PassRank
    <3> QED BY <3>1, <3>2
  <2> QED BY <1>7, <2>1, <2>2, ListingTiles DEF PassAdvances
<1>8. ASSUME NEW bound, NEW after, NEW writing, sweep' = SweepIdle(bound, after, writing),
             (bound = sweep.bound /\ after = sweep.after) \/ after = Beginning
      PROVE  PassAdvances /\ CursorAdvances /\ PageTiles
  <2>1. sweep'.phase = "idle" /\ sweep'.after = after /\ sweep'.bound = bound
    BY <1>8 DEF SweepIdle
  <2> QED BY <1>8, <2>1 DEF PassAdvances, CursorAdvances, PageTiles
<1>9. CASE ListDueFails
  BY <1>8, <1>9 DEF ListDueFails, NoCursor
<1>10. CASE WithdrawalFails
  BY <1>8, <1>10 DEF WithdrawalFails, NoCursor
<1>11. CASE EndOfPage
  <2>1. CASE sweep' = [sweep EXCEPT !.phase = "list", !.pages = sweep.pages + 1] /\ sweep.pages + 1 < MaxPages
    <3>1. /\ sweep'.phase = "list" /\ sweep'.pages = sweep.pages + 1 /\ sweep'.pages < MaxPages
          /\ sweep'.after = sweep.after /\ sweep'.bound = sweep.bound
      BY <1>1, <2>1 DEF IsSweep
    <3> QED BY <1>3, <3>1 DEF PassAdvances
  <2>2. \/ sweep' = NoCursor(sweep.writing)
        \/ sweep' = [sweep EXCEPT !.phase = "list", !.pages = sweep.pages + 1] /\ sweep.pages + 1 < MaxPages
        \/ sweep' = SweepIdle(sweep.bound, sweep.after, sweep.writing)
    BY <1>11 DEF EndOfPage
  <2> QED BY <1>8, <2>1, <2>2 DEF NoCursor
<1>12. ASSUME NEW e \in sweep.page, ReconcileHostTargetRow(e)
       PROVE  PassAdvances /\ CursorAdvances /\ PageTiles
  <2>1. PICK w : w = [id |-> e.id, rev |-> e.rev, rec |-> [e.rec EXCEPT !.live = FALSE, !.expires = 0]]
    OBVIOUS
  <2>2. /\ sweep.phase = "rows"
        /\ \/ /\ sweep.writing = {}
              /\ sweep' = [sweep EXCEPT !.phase = "write", !.page = sweep.page \ {e}, !.writing = {w}]
           \/ sweep' = [sweep EXCEPT !.page = sweep.page \ {e}]
    BY <1>12, <2>1 DEF ReconcileHostTargetRow
  <2>3. /\ sweep'.page = sweep.page \ {e} /\ sweep'.pages = sweep.pages
        /\ sweep'.after = sweep.after /\ sweep'.bound = sweep.bound
        /\ \/ sweep'.phase = "write" /\ sweep.writing = {} /\ sweep'.writing = {w}
           \/ sweep'.phase = "rows" /\ sweep'.writing = sweep.writing
    BY <1>1, <2>2 DEF IsSweep
  <2>4. Cardinality(sweep'.page) = Cardinality(sweep.page) - 1
    BY <2>3, FS_RemoveElement DEF PassBounded
  <2>5. PassRank(sweep') < PassRank(sweep)
    <3>1. CASE sweep'.phase = "write" /\ sweep.writing = {} /\ sweep'.writing = {w}
      BY <1>2, <2>2, <2>4, <3>1 DEF PassRank
    <3>2. CASE sweep'.phase = "rows" /\ sweep'.writing = sweep.writing
      <4>1. CASE sweep.writing = {}
        BY <1>2, <2>2, <2>4, <3>2, <4>1 DEF PassRank
      <4>2. CASE sweep.writing # {}
        BY <1>2, <2>2, <2>4, <3>2, <4>2 DEF PassRank
      <4> QED BY <4>1, <4>2
    <3> QED BY <2>3, <3>1, <3>2
  <2> QED BY <1>3, <2>2, <2>3, <2>5 DEF PassAdvances
<1>13. ASSUME NEW h \in Host, NEW g \in Generation,
             \/ \E t \in Reading : \E x \in 1..(t + MaxTTL) : PublishHostTarget(h, g, t, x)
             \/ DrainHostTarget(h, g)
      PROVE  sweep' = sweep
  BY <1>13 DEF PublishHostTarget, DrainHostTarget
<1>14. ASSUME NEW w \in calls, HostCommit(w) \/ HostLose(w) \/ Withdraws(w) \/ Contended(w) \/ Unverified(w)
       PROVE  sweep' = sweep \/ (w \in sweep.writing /\ sweep' = Written)
  BY <1>14 DEF HostCommit, HostLose, Withdraws, Contended, Unverified
<1> QED BY <1>4, <1>5, <1>6, <1>7, <1>9, <1>10, <1>11, <1>12, <1>13, <1>14 DEF TargetsNext

PassAdvancesOrRests == TargetsPart => sweep' = sweep \/ PassAdvances
ListingIsComplete == TargetsPart => CursorAdvances /\ PageTiles

LEMMA SweepSteps ==
    ASSUME TInv, [Next]_targetVars
    PROVE  [PassAdvancesOrRests]_targetVars /\ [ListingIsComplete]_targetVars
<1>1. CASE TargetsPart /\ TargetsNext
  BY <1>1, PassGoesOn DEF TInv, IInv, PassAdvancesOrRests, ListingIsComplete
<1>2. CASE GatesPart
  BY <1>2 DEF GatesPart, TargetsPart, PassAdvancesOrRests, ListingIsComplete
<1> QED BY <1>1, <1>2 DEF Next

\* A pass has a bounded number of steps, whatever Hosts do meanwhile: each goes
\* to another of its pages, or leaves fewer rows and writes of the page it is
\* at, or is its last.  (ReconcileHostTargets's page budget; each row is judged
\* and written once.)
THEOREM PassesEnd == Spec => [][PassAdvancesOrRests]_targetVars
  BY BoundsHold, SweepSteps, PTL DEF Spec

\* A pass, however often it is resumed, passes no row over and lists none
\* twice: its cursor goes on behind one bound, and a page with what the cursor
\* leaves is all that is due.  (ListDue of the provider, encodeHostTargetSweepCursor.)
THEOREM SweepPassesNoneOver == Spec => [][ListingIsComplete]_targetVars
  BY BoundsHold, SweepSteps, PTL DEF Spec
=============================================================================
