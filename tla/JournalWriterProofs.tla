------------------------ MODULE JournalWriterProofs ------------------------
(***************************************************************************)
(* Theorems about the journal's writers, for every number of grants,       *)
(* records and contents.                                                   *)
(*                                                                         *)
(* What carries them is what the compare-and-swaps still on the wire may   *)
(* do: a fence is its grant's first record, any other record is expected   *)
(* to follow one of its own grant, and a writer that may still append has  *)
(* nothing on the wire.                                                    *)
(***************************************************************************)
EXTENDS JournalFencedLog, SequenceTheorems, TLAPS

IsFence(frame) == frame.kind = "opening_fence"

\* A fence is its grant's first record and carries its epoch; any other
\* record follows one of its own grant.
LogRuns ==
    \A i \in DOMAIN log :
        IF IsFence(log[i].frame)
        THEN /\ log[i].frame = Fence(log[i].by)
             /\ \A j \in DOMAIN log : j < i => log[j].by # log[i].by
        ELSE i - 1 \in DOMAIN log /\ log[i - 1].by = log[i].by

\* The same of what may still be applied.
WireRuns ==
    \A c \in wire :
        IF IsFence(c.frame)
        THEN /\ c.frame = Fence(c.by)
             /\ \A j \in DOMAIN log : log[j].by # c.by
        ELSE c.at \in DOMAIN log /\ log[c.at].by = c.by

WireUnique == \A c, d \in wire : c.by = d.by => c = d

\* A grant without a fence on its way has left no trace.
Fresh(e) ==
    /\ writer[e].failure = "none"
    /\ \A c \in wire : c.by # e
    /\ \A i \in DOMAIN log : log[i].by # e
FreshGrants ==
    \A e \in Epoch :
        /\ e > issued => writer[e].phase = "unissued"
        /\ writer[e].phase \in {"unissued", "acquired"} => Fresh(e)

\* An open writer counts from a record of its own, and has been told of every
\* one of its own up to there.
Owns(e) ==
    writer[e].phase \in {"open", "appending"} =>
        /\ writer[e].tracked \in DOMAIN log
        /\ log[writer[e].tracked].by = e
        /\ \A i \in DOMAIN log : i <= writer[e].tracked /\ log[i].by = e =>
              [seq |-> i, by |-> e, frame |-> log[i].frame] \in acked

\* The call in progress is the only one that can still write for its grant.
OneCall(e) ==
    writer[e].phase \in {"opening", "appending"} =>
        /\ writer[e].failure = "none"
        /\ writer[e].phase = "opening" => writer[e].offered = Fence(e)
        /\ writer[e].phase = "appending" => ~IsFence(writer[e].offered)
        /\ \A c \in wire : c.by = e => c = Sent(e)
        /\ \A i \in DOMAIN log : i > writer[e].tracked /\ log[i].by = e =>
              /\ i = writer[e].tracked + 1
              /\ log[i].frame = writer[e].offered
              /\ Sent(e) \notin wire

\* A writer that may append again has nothing left to be applied.
Quiet(e) ==
    writer[e].phase = "open" /\ writer[e].failure = "none" =>
        /\ \A c \in wire : c.by # e
        /\ \A i \in DOMAIN log : log[i].by = e => i <= writer[e].tracked

Stopped(e) ==
    /\ writer[e].failure # "none" => writer[e].phase \in {"open", "closed"}
    /\ writer[e].failure = "fenced" =>
          /\ writer[e].tracked + 1 \in DOMAIN log
          /\ log[writer[e].tracked + 1].by # e

Writers == \A e \in Epoch : Owns(e) /\ OneCall(e) /\ Quiet(e) /\ Stopped(e)

IInv ==
    /\ TypeOK
    /\ LogRuns /\ WireRuns /\ WireUnique
    /\ FreshGrants
    /\ Writers
    /\ AcknowledgedIsOwn

-----------------------------------------------------------------------------
(* Facts about one state.                                                  *)

LEMMA InitHolds == Init => IInv
<1> SUFFICES ASSUME Init PROVE IInv
  OBVIOUS
<1>1. TypeOK
  BY JournalBoundsAssumption DEF Init, TypeOK, WriterState, Phase, Failure, Epoch, Bytes, Fence
<1>2. DOMAIN log = {}
  BY DEF Init
<1>3. LogRuns /\ WireRuns /\ WireUnique /\ AcknowledgedIsOwn
  BY <1>2 DEF Init, LogRuns, WireRuns, WireUnique, AcknowledgedIsOwn
<1>4. FreshGrants
  BY <1>2 DEF Init, FreshGrants, Fresh
<1>5. Writers
  BY <1>2 DEF Init, Writers, Owns, OneCall, Quiet, Stopped
<1> QED
  BY <1>1, <1>3, <1>4, <1>5 DEF IInv

LEMMA LogDomain ==
    ASSUME TypeOK
    PROVE  /\ DOMAIN log = 1..Len(log)
           /\ Len(log) \in Nat
           /\ \A i \in DOMAIN log : log[i] \in [frame : Bytes, by : Epoch]
<1> DEFINE R == [frame : Bytes, by : Epoch]
<1>1. log \in Seq(R)
  BY DEF TypeOK
<1> HIDE DEF R
<1>2. /\ DOMAIN log = 1..Len(log)
      /\ Len(log) \in Nat
      /\ \A i \in DOMAIN log : log[i] \in R
  BY <1>1
<1> QED
  BY <1>2 DEF R

\* The bytes at the contested sequence are the writer's only if it wrote them:
\* a fence carries its epoch, and anything else follows a record of its own.
LEMMA AdoptedIsOwn ==
    ASSUME IInv, NEW e \in Epoch, writer[e].phase \in {"opening", "appending"},
           Contested(e), Contester(e) = writer[e].offered
    PROVE  /\ writer[e].tracked + 1 \in DOMAIN log
           /\ log[writer[e].tracked + 1].by = e
<1> DEFINE i == writer[e].tracked + 1
<1>1. writer[e].tracked \in Nat
  BY DEF IInv, TypeOK, WriterState
<1>2. i \in DOMAIN log /\ log[i].by \in Epoch
  BY <1>1, LogDomain DEF IInv, Contested
<1>3. log[i].frame = writer[e].offered
  BY DEF Contester
<1>4. CASE writer[e].phase = "opening"
  <2>1. log[i].frame = Fence(e)
    BY <1>3, <1>4 DEF IInv, Writers, OneCall
  <2>2. Fence(e) = Fence(log[i].by)
    BY <1>2, <2>1 DEF IInv, LogRuns, IsFence, Fence
  <2> QED
    BY <1>2, <2>2 DEF Fence
<1>5. CASE writer[e].phase = "appending"
  <2>1. ~IsFence(log[i].frame)
    BY <1>3, <1>5 DEF IInv, Writers, OneCall
  <2>2. log[i - 1].by = log[i].by
    BY <1>2, <2>1 DEF IInv, LogRuns
  <2>3. log[writer[e].tracked].by = e
    BY <1>5 DEF IInv, Writers, Owns
  <2> QED
    BY <1>1, <1>2, <2>2, <2>3
<1> QED
  BY <1>4, <1>5

-----------------------------------------------------------------------------
(* What a step of one grant leaves alone.                                  *)

LEMMA OthersUndisturbed ==
    ASSUME IInv, NEW e \in Epoch, NEW f \in Epoch, f # e,
           log' = log, acked \subseteq acked', writer'[f] = writer[f],
           \A c \in wire' : c \in wire \/ c.by = e
    PROVE  Owns(f)' /\ OneCall(f)' /\ Quiet(f)' /\ Stopped(f)'
<1>0. Owns(f) /\ OneCall(f) /\ Quiet(f) /\ Stopped(f)
  BY DEF IInv, Writers
<1>1. Owns(f)'
  BY <1>0 DEF Owns
<1>2. OneCall(f)'
  <2>1. Sent(f)' = Sent(f) /\ Sent(f).by = f
    BY DEF Sent
  <2> QED
    BY <1>0, <2>1 DEF OneCall
<1>3. Quiet(f)' /\ Stopped(f)'
  BY <1>0 DEF Quiet, Stopped
<1> QED
  BY <1>1, <1>2, <1>3

LEMMA OthersStayFresh ==
    ASSUME IInv, NEW e \in Epoch, NEW f \in Epoch, f # e,
           log' = log, issued <= issued', issued' \in Nat, writer'[f] = writer[f],
           \A c \in wire' : c \in wire \/ c.by = e
    PROVE  /\ f > issued' => writer'[f].phase = "unissued"
           /\ writer'[f].phase \in {"unissued", "acquired"} => Fresh(f)'
<1>1. f > issued' => f > issued
  BY DEF Epoch, IInv, TypeOK
<1> QED
  BY <1>1 DEF IInv, FreshGrants, Fresh

\* A step that leaves the ledger alone, moves one writer, and puts nothing new
\* on the wire but a call that its own grant may make.
LEMMA WriterStep ==
    ASSUME IInv, NEW e \in Epoch, NEW w \in WriterState,
           writer' = [writer EXCEPT ![e] = w],
           log' = log, acked \subseteq acked', issued <= issued',
           wire' \subseteq Call, issued' \in 0..MaxEpoch, holder' \in 0..MaxEpoch,
           acked' \subseteq [seq : Nat, by : Epoch, frame : Bytes],
           \A c \in wire' : c \in wire \/ c.by = e,
           WireRuns', WireUnique', AcknowledgedIsOwn',
           e > issued' => w.phase = "unissued",
           w.phase \in {"unissued", "acquired"} => Fresh(e)',
           Owns(e)', OneCall(e)', Quiet(e)', Stopped(e)'
    PROVE  IInv'
<1>0. issued' \in Nat
  BY JournalBoundsAssumption
<1>1. writer'[e] = w /\ \A f \in Epoch : f # e => writer'[f] = writer[f]
  BY DEF IInv, TypeOK
<1>2. TypeOK'
  BY DEF IInv, TypeOK
<1>3. LogRuns'
  BY DEF IInv, LogRuns
<1>4. FreshGrants'
  <2> SUFFICES ASSUME NEW f \in Epoch
               PROVE  /\ f > issued' => writer'[f].phase = "unissued"
                      /\ writer'[f].phase \in {"unissued", "acquired"} => Fresh(f)'
    BY DEF FreshGrants
  <2>1. CASE f = e
    BY <2>1, <1>1
  <2>2. CASE f # e
    BY <2>2, <1>0, <1>1, OthersStayFresh
  <2> QED
    BY <2>1, <2>2
<1>5. Writers'
  <2> SUFFICES ASSUME NEW f \in Epoch
               PROVE  Owns(f)' /\ OneCall(f)' /\ Quiet(f)' /\ Stopped(f)'
    BY DEF Writers
  <2>1. CASE f = e
    BY <2>1
  <2>2. CASE f # e
    BY <2>2, <1>1, OthersUndisturbed
  <2> QED
    BY <2>1, <2>2
<1> QED
  BY <1>2, <1>3, <1>4, <1>5 DEF IInv

-----------------------------------------------------------------------------
(* The writers' actions.                                                   *)

LEMMA AcquirePreserves ==
    ASSUME IInv, NEW e \in Epoch, Acquire(e)
    PROVE  IInv'
<1> DEFINE w == [writer[e] EXCEPT !.phase = "acquired"]
<1>1. writer[e] \in WriterState /\ writer' = [writer EXCEPT ![e] = w] /\ w \in WriterState
  BY DEF IInv, TypeOK, Acquire, WriterState, Phase
<1>2. issued \in Nat /\ e \in Nat /\ issued' = e /\ holder' = e /\ e = issued + 1
  BY DEF IInv, TypeOK, Acquire, Epoch
<1>3. Fresh(e) /\ writer[e].phase = "unissued"
  BY <1>2 DEF IInv, FreshGrants
<1>4. writer'[e] = w /\ w.phase = "acquired" /\ w.failure = "none"
  BY <1>1, <1>3 DEF IInv, TypeOK, Fresh, WriterState
<1>5. Fresh(e)'
  BY <1>3, <1>4 DEF Fresh, Acquire
<1>6. Owns(e)' /\ OneCall(e)' /\ Quiet(e)' /\ Stopped(e)'
  BY <1>4 DEF Owns, OneCall, Quiet, Stopped
<1>7. WireRuns' /\ WireUnique' /\ AcknowledgedIsOwn'
  BY DEF IInv, WireRuns, WireUnique, AcknowledgedIsOwn, Acquire
<1>8. /\ log' = log /\ acked' = acked /\ wire' = wire
      /\ issued <= issued' /\ issued' \in 0..MaxEpoch /\ holder' \in 0..MaxEpoch
      /\ wire' \subseteq Call /\ acked' \subseteq [seq : Nat, by : Epoch, frame : Bytes]
  BY <1>2, JournalBoundsAssumption DEF Epoch, Acquire, IInv, TypeOK
<1>9. ~(e > issued')
  BY <1>2
<1> HIDE DEF w
<1> QED
  BY <1>1, <1>4, <1>5, <1>6, <1>7, <1>8, <1>9, WriterStep

\* A writer that closes, or an opening that fails, keeps nothing to answer for
\* but what is on the wire.
LEMMA EndPreserves ==
    ASSUME IInv, NEW e \in Epoch, NEW failure \in Failure,
           writer[e].phase # "unissued",
           writer' = [writer EXCEPT ![e] = [@ EXCEPT !.phase = "closed", !.failure = failure]],
           failure = "fenced" =>
              /\ writer[e].tracked + 1 \in DOMAIN log
              /\ log[writer[e].tracked + 1].by # e,
           wire' \subseteq wire, Release(e),
           UNCHANGED <<log, issued, acked>>
    PROVE  IInv'
<1> DEFINE w == [writer[e] EXCEPT !.phase = "closed", !.failure = failure]
<1>1. writer[e] \in WriterState /\ writer' = [writer EXCEPT ![e] = w] /\ w \in WriterState
  BY DEF IInv, TypeOK, WriterState, Phase
<1>2. issued \in Nat /\ ~(e > issued) /\ holder' \in 0..MaxEpoch
  BY JournalBoundsAssumption DEF IInv, TypeOK, FreshGrants, Release
<1>4. /\ writer'[e] = w /\ w.phase = "closed" /\ w.failure = failure
      /\ w.tracked = writer[e].tracked
  BY <1>1 DEF IInv, TypeOK, WriterState
<1>6. Owns(e)' /\ OneCall(e)' /\ Quiet(e)' /\ Stopped(e)'
  BY <1>4 DEF Owns, OneCall, Quiet, Stopped
<1>7. WireRuns' /\ WireUnique' /\ AcknowledgedIsOwn'
  BY DEF IInv, WireRuns, WireUnique, AcknowledgedIsOwn
<1>8. /\ log' = log /\ acked' = acked /\ issued <= issued' /\ issued' \in 0..MaxEpoch
      /\ wire' \subseteq Call /\ acked' \subseteq [seq : Nat, by : Epoch, frame : Bytes]
      /\ ~(e > issued')
  BY <1>2 DEF IInv, TypeOK
<1> HIDE DEF w
<1> QED
  BY <1>1, <1>2, <1>4, <1>6, <1>7, <1>8, WriterStep

LEMMA ContestedByAnother ==
    ASSUME IInv, NEW e \in Epoch, writer[e].phase \in {"opening", "appending"},
           AppendDefinite(e, "fenced")
    PROVE  /\ writer[e].tracked + 1 \in DOMAIN log
           /\ log[writer[e].tracked + 1].by # e
<1>1. writer[e].tracked \in Nat
  BY DEF IInv, TypeOK, WriterState
<1>2. Contested(e) /\ Contester(e) # writer[e].offered
  BY DEF AppendDefinite
<1>3. writer[e].tracked + 1 \in DOMAIN log
  BY <1>1, <1>2, LogDomain DEF IInv, Contested
<1> QED
  BY <1>1, <1>2, <1>3 DEF IInv, Writers, OneCall, Contester

LEMMA EndingPreserves ==
    ASSUME IInv, NEW e \in Epoch, OpenFails(e) \/ FenceRefused(e) \/ Close(e)
    PROVE  IInv'
<1>0. writer[e] \in WriterState
  BY DEF IInv, TypeOK
<1>1. CASE OpenFails(e) \/ Close(e)
  <2>1. /\ writer[e].failure \in Failure
        /\ writer' = [writer EXCEPT ![e] = [@ EXCEPT !.phase = "closed", !.failure = writer[e].failure]]
    BY <1>0, <1>1 DEF OpenFails, Close, WriterState
  <2>2. /\ writer[e].phase # "unissued" /\ Release(e)
        /\ wire' = wire /\ UNCHANGED <<log, issued, acked>>
    BY <1>1 DEF OpenFails, Close
  <2>3. PICK failure \in Failure : failure = writer[e].failure
    BY <2>1
  <2>4. failure = "fenced" =>
          /\ writer[e].tracked + 1 \in DOMAIN log
          /\ log[writer[e].tracked + 1].by # e
    BY <2>3 DEF IInv, Writers, Stopped
  <2>5. /\ writer' = [writer EXCEPT ![e] = [@ EXCEPT !.phase = "closed", !.failure = failure]]
        /\ wire' \subseteq wire
    BY <2>1, <2>2, <2>3
  <2> QED
    BY <2>2, <2>4, <2>5, EndPreserves
<1>2. CASE FenceRefused(e)
  <2>1. PICK outcome \in {"fenced", "unknown", "backend"} :
            /\ AppendDefinite(e, outcome)
            /\ writer' = [writer EXCEPT ![e].phase = "closed",
                 ![e].failure = IF outcome = "backend" THEN "none" ELSE outcome]
    BY <1>2 DEF FenceRefused
  <2>2. PICK failure \in Failure : failure = IF outcome = "backend" THEN "none" ELSE outcome
    BY DEF Failure
  <2>3. /\ writer' = [writer EXCEPT ![e] = [@ EXCEPT !.phase = "closed", !.failure = failure]]
        /\ wire' \subseteq wire
    BY <1>0, <2>1, <2>2 DEF IInv, TypeOK, WriterState, AppendDefinite
  <2>4. /\ writer[e].phase = "opening" /\ Release(e)
        /\ UNCHANGED <<log, issued, acked>>
    BY <1>2 DEF FenceRefused
  <2>5. failure = "fenced" =>
          /\ writer[e].tracked + 1 \in DOMAIN log
          /\ log[writer[e].tracked + 1].by # e
    BY <2>1, <2>2, <2>4, ContestedByAnother
  <2> QED
    BY <2>3, <2>4, <2>5, EndPreserves
<1> QED
  BY <1>1, <1>2

LEMMA OfferFencePreserves ==
    ASSUME IInv, NEW e \in Epoch, OfferFence(e)
    PROVE  IInv'
<1> DEFINE call == [by |-> e, at |-> Len(log), frame |-> Fence(e)]
           w == [writer[e] EXCEPT !.phase = "opening", !.tracked = Len(log), !.offered = Fence(e)]
<1>1. Len(log) \in Nat /\ DOMAIN log = 1..Len(log)
  BY LogDomain DEF IInv
<1>2. Fence(e) \in Bytes
  BY JournalBoundsAssumption DEF Fence, Bytes, Epoch
<1>3. call \in Call
  BY <1>1, <1>2 DEF Call
<1>4. writer[e] \in WriterState /\ writer' = [writer EXCEPT ![e] = w] /\ w \in WriterState
  BY <1>1, <1>2 DEF IInv, TypeOK, OfferFence, WriterState, Phase
<1>5. writer'[e] = w /\ w.phase = "opening" /\ w.tracked = Len(log) /\ w.offered = Fence(e)
  BY <1>4 DEF IInv, TypeOK, WriterState
<1>6. Fresh(e) /\ ~(e > issued)
  BY DEF IInv, FreshGrants, OfferFence
<1>7. w.failure = "none"
  BY <1>4, <1>6 DEF Fresh, WriterState
<1>8. wire' = wire \cup {call} /\ UNCHANGED <<log, issued, holder, acked>>
  BY DEF OfferFence
<1>9. /\ wire' \subseteq Call /\ acked' \subseteq [seq : Nat, by : Epoch, frame : Bytes]
      /\ issued' \in 0..MaxEpoch /\ holder' \in 0..MaxEpoch /\ issued <= issued'
  BY <1>3, <1>8 DEF IInv, TypeOK
<1>10. IsFence(Fence(e))
  BY DEF IsFence, Fence
<1>11. WireRuns'
  <2> SUFFICES ASSUME NEW c \in wire'
               PROVE  IF IsFence(c.frame)
                      THEN c.frame = Fence(c.by) /\ \A j \in DOMAIN log : log[j].by # c.by
                      ELSE c.at \in DOMAIN log /\ log[c.at].by = c.by
    BY <1>8 DEF WireRuns
  <2>1. CASE c = call
    BY <2>1, <1>6, <1>10 DEF Fresh
  <2>2. CASE c \in wire
    BY <2>2 DEF IInv, WireRuns
  <2> QED
    BY <2>1, <2>2, <1>8
<1>12. WireUnique'
  BY <1>6, <1>8 DEF IInv, WireUnique, Fresh
<1>13. AcknowledgedIsOwn'
  BY <1>8 DEF IInv, AcknowledgedIsOwn
<1>14. Owns(e)' /\ Quiet(e)' /\ Stopped(e)'
  BY <1>5, <1>7 DEF Owns, Quiet, Stopped
<1>15. OneCall(e)'
  <2>1. Sent(e)' = call
    BY <1>5 DEF Sent
  <2>2. \A c \in wire' : c.by = e => c = call
    BY <1>6, <1>8 DEF Fresh
  <2>3. \A i \in DOMAIN log' : log'[i].by # e
    BY <1>6, <1>8 DEF Fresh
  <2> QED
    BY <1>5, <1>7, <2>1, <2>2, <2>3 DEF OneCall
<1>16. \A c \in wire' : c \in wire \/ c.by = e
  BY <1>8
<1> HIDE DEF w, call
<1> QED
  BY <1>4, <1>5, <1>6, <1>8, <1>9, <1>11, <1>12, <1>13, <1>14, <1>15, <1>16, WriterStep

LEMMA SendAppendPreserves ==
    ASSUME IInv, NEW e \in Epoch, NEW env \in Envelope, SendAppend(e, env)
    PROVE  IInv'
<1> DEFINE frame == Stamped(e, env)
           call == [by |-> e, at |-> writer[e].tracked, frame |-> frame]
           w == [writer[e] EXCEPT !.phase = "appending", !.offered = frame,
                                  !.tracked = writer[e].tracked]
<1>1. Len(log) \in Nat /\ DOMAIN log = 1..Len(log)
  BY LogDomain DEF IInv
<1>2. frame \in Bytes /\ ~IsFence(frame)
  BY JournalBoundsAssumption DEF Stamped, Bytes, Epoch, Envelope, CallerKind, IsFence
<1>3. writer[e] \in WriterState
  BY DEF IInv, TypeOK
<1>4. call \in Call
  BY <1>2, <1>3 DEF Call, WriterState
<1>5. writer' = [writer EXCEPT ![e] = w] /\ w \in WriterState
  BY <1>2, <1>3 DEF IInv, TypeOK, SendAppend, ExpectedTip, WriterState, Phase
<1>6. /\ writer'[e] = w /\ w.phase = "appending" /\ w.tracked = writer[e].tracked
      /\ w.offered = frame /\ w.failure = "none"
  BY <1>3, <1>5 DEF IInv, TypeOK, WriterState, SendAppend
<1>7. /\ writer[e].phase = "open" /\ writer[e].failure = "none"
      /\ Quiet(e) /\ Owns(e) /\ ~(e > issued)
  BY DEF IInv, Writers, FreshGrants, SendAppend
<1>8. wire' = wire \cup {call} /\ UNCHANGED <<log, issued, holder, acked>>
  BY DEF SendAppend, ExpectedTip
<1>9. /\ wire' \subseteq Call /\ acked' \subseteq [seq : Nat, by : Epoch, frame : Bytes]
      /\ issued' \in 0..MaxEpoch /\ holder' \in 0..MaxEpoch /\ issued <= issued'
  BY <1>4, <1>8 DEF IInv, TypeOK
<1>11. WireRuns'
  <2> SUFFICES ASSUME NEW c \in wire'
               PROVE  IF IsFence(c.frame)
                      THEN c.frame = Fence(c.by) /\ \A j \in DOMAIN log : log[j].by # c.by
                      ELSE c.at \in DOMAIN log /\ log[c.at].by = c.by
    BY <1>8 DEF WireRuns
  <2>1. CASE c = call
    BY <2>1, <1>2, <1>7 DEF Owns
  <2>2. CASE c \in wire
    BY <2>2 DEF IInv, WireRuns
  <2> QED
    BY <2>1, <2>2, <1>8
<1>12. WireUnique'
  BY <1>7, <1>8 DEF IInv, WireUnique, Quiet
<1>13. AcknowledgedIsOwn'
  BY <1>8 DEF IInv, AcknowledgedIsOwn
<1>14. Owns(e)' /\ Quiet(e)' /\ Stopped(e)'
  BY <1>6, <1>7, <1>8 DEF Owns, Quiet, Stopped
<1>15. OneCall(e)'
  <2>1. Sent(e)' = call
    BY <1>6 DEF Sent
  <2>2. \A c \in wire' : c.by = e => c = call
    BY <1>7, <1>8 DEF Quiet
  <2>3. \A i \in DOMAIN log' : log'[i].by = e => ~(i > w.tracked)
    BY <1>1, <1>3, <1>6, <1>7, <1>8 DEF Quiet, WriterState
  <2> QED
    BY <1>2, <1>6, <2>1, <2>2, <2>3 DEF OneCall
<1>16. \A c \in wire' : c \in wire \/ c.by = e
  BY <1>8
<1> HIDE DEF w, call, frame
<1> QED
  BY <1>5, <1>6, <1>7, <1>8, <1>9, <1>11, <1>12, <1>13, <1>14, <1>15, <1>16, WriterStep

LEMMA CommittedPreserves ==
    ASSUME IInv, NEW e \in Epoch, FenceCommitted(e) \/ AppendCommitted(e)
    PROVE  IInv'
<1> DEFINE seq == writer[e].tracked + 1
           w == [writer[e] EXCEPT !.phase = "open", !.tracked = seq]
           told == [seq |-> seq, by |-> e, frame |-> writer[e].offered]
<1>1. writer[e] \in WriterState /\ Len(log) \in Nat /\ DOMAIN log = 1..Len(log)
  BY LogDomain DEF IInv, TypeOK
<1>2. /\ writer[e].phase \in {"opening", "appending"}
      /\ Contested(e) /\ Contester(e) = writer[e].offered
      /\ wire' = wire /\ acked' = acked \cup {told}
      /\ UNCHANGED <<log, issued, holder>>
  BY DEF FenceCommitted, AppendCommitted, AppendDefinite, Told
<1>3. writer' = [writer EXCEPT ![e] = w] /\ w \in WriterState
  <2>0. seq \in Nat /\ "open" \in Phase
    BY <1>1 DEF WriterState, Phase
  <2>1. w \in WriterState
    BY <1>1, <2>0 DEF WriterState
  <2>2. writer' = [writer EXCEPT ![e].phase = "open", ![e].tracked = writer[e].tracked + 1]
    BY DEF FenceCommitted, AppendCommitted
  <2> QED
    BY <2>1, <2>2
<1>4. seq \in DOMAIN log /\ log[seq].by = e /\ log[seq].frame = writer[e].offered
  BY <1>2, AdoptedIsOwn DEF Contester
<1>5. OneCall(e) /\ Owns(e) /\ ~(e > issued)
  BY <1>2 DEF IInv, Writers, FreshGrants
<1>6. /\ writer'[e] = w /\ w.phase = "open" /\ w.tracked = seq /\ w.failure = "none"
      /\ writer[e].tracked \in Nat /\ writer[e].tracked < seq
  BY <1>1, <1>2, <1>3, <1>5 DEF IInv, TypeOK, WriterState, OneCall
<1>7. told \in [seq : Nat, by : Epoch, frame : Bytes]
  BY <1>1 DEF WriterState
<1>8. /\ wire' \subseteq Call /\ acked' \subseteq [seq : Nat, by : Epoch, frame : Bytes]
      /\ issued' \in 0..MaxEpoch /\ holder' \in 0..MaxEpoch /\ issued <= issued'
      /\ acked \subseteq acked'
  BY <1>2, <1>7 DEF IInv, TypeOK
<1>9. WireRuns' /\ WireUnique'
  BY <1>2 DEF IInv, WireRuns, WireUnique
<1>10. AcknowledgedIsOwn'
  <2> SUFFICES ASSUME NEW a \in acked'
               PROVE  a.seq \in DOMAIN log /\ log[a.seq] = [frame |-> a.frame, by |-> a.by]
    BY <1>2 DEF AcknowledgedIsOwn
  <2>1. CASE a = told
    <3>1. log[seq] \in [frame : Bytes, by : Epoch]
      BY <1>4, LogDomain DEF IInv
    <3> QED
      BY <2>1, <3>1, <1>4
  <2>2. CASE a \in acked
    BY <2>2 DEF IInv, AcknowledgedIsOwn
  <2> QED
    BY <2>1, <2>2, <1>2
<1>11. Owns(e)'
  <2>1. ASSUME NEW i \in DOMAIN log, i <= seq, log[i].by = e
        PROVE  [seq |-> i, by |-> e, frame |-> log[i].frame] \in acked'
    <3>1. CASE i = seq
      BY <3>1, <1>2, <1>4
    <3>2. CASE i # seq /\ writer[e].phase = "appending"
      BY <3>2, <2>1, <1>1, <1>5, <1>6, <1>8 DEF Owns
    <3>3. CASE i # seq /\ writer[e].phase = "opening"
      <4>1. IsFence(log[seq].frame) /\ i < seq
        BY <3>3, <2>1, <1>1, <1>4, <1>5 DEF OneCall, IsFence, Fence
      <4> QED
        BY <4>1, <2>1, <1>4 DEF IInv, LogRuns
    <3> QED
      BY <3>1, <3>2, <3>3, <1>2
  <2> QED
    BY <2>1, <1>2, <1>4, <1>6 DEF Owns
<1>12. Quiet(e)'
  <2>1. Sent(e) \notin wire
    BY <1>2, <1>4, <1>5, <1>6 DEF OneCall
  <2>2. \A c \in wire : c.by # e
    BY <2>1, <1>2, <1>5 DEF OneCall
  <2>3. \A i \in DOMAIN log : log[i].by = e => i <= seq
    BY <1>1, <1>2, <1>5, <1>6 DEF OneCall
  <2> QED
    BY <2>2, <2>3, <1>2, <1>6 DEF Quiet
<1>13. OneCall(e)' /\ Stopped(e)'
  BY <1>6 DEF OneCall, Stopped
<1> HIDE DEF w, told, seq
<1> QED
  BY <1>2, <1>3, <1>5, <1>6, <1>8, <1>9, <1>10, <1>11, <1>12, <1>13, WriterStep

\* An append that is refused leaves the writer open: quiet again if the ledger
\* said it will never apply it, and latched otherwise.
LEMMA RefusedPreserves ==
    ASSUME IInv, NEW e \in Epoch, AppendRefused(e) \/ RefuseAfterLoss(e)
    PROVE  IInv'
<1>1. writer[e] \in WriterState /\ Len(log) \in Nat /\ DOMAIN log = 1..Len(log)
  BY LogDomain DEF IInv, TypeOK
<1>2. PICK failure \in Failure :
        /\ writer' = [writer EXCEPT ![e] = [@ EXCEPT !.phase = "open", !.failure = failure]]
        /\ wire' \subseteq wire /\ UNCHANGED <<log, issued, holder, acked>>
        /\ failure = "fenced" =>
              AppendDefinite(e, "fenced") /\ writer[e].phase = "appending"
        /\ failure = "none" =>
              AppendDefinite(e, "backend") /\ writer[e].phase = "appending"
  <2>1. CASE RefuseAfterLoss(e)
    <3>1. writer' = [writer EXCEPT ![e] = [@ EXCEPT !.phase = "open", !.failure = "lease_lost"]]
      BY <2>1, <1>1 DEF RefuseAfterLoss, WriterState
    <3>2. "lease_lost" \in Failure /\ "lease_lost" # "fenced" /\ "lease_lost" # "none"
      BY DEF Failure
    <3> QED
      BY <2>1, <3>1, <3>2 DEF RefuseAfterLoss
  <2>2. CASE AppendRefused(e)
    <3>1. PICK outcome \in {"fenced", "unknown", "backend"} :
              /\ AppendDefinite(e, outcome)
              /\ writer' = [writer EXCEPT ![e].phase = "open",
                   ![e].failure = IF Latches(outcome) THEN outcome ELSE @]
      BY <2>2 DEF AppendRefused
    <3> DEFINE failure == IF Latches(outcome) THEN outcome ELSE writer[e].failure
    <3>2. writer[e].phase = "appending" /\ writer[e].failure = "none"
      BY <2>2 DEF AppendRefused, IInv, Writers, OneCall
    <3>3. failure \in Failure
      BY <3>2 DEF Failure, Latches
    <3>4. writer' = [writer EXCEPT ![e] = [@ EXCEPT !.phase = "open", !.failure = failure]]
      BY <3>1, <1>1 DEF IInv, TypeOK, WriterState
    <3>5. wire' \subseteq wire
      BY <3>1 DEF AppendDefinite
    <3>6. /\ failure = "fenced" => outcome = "fenced"
          /\ failure = "none" => outcome = "backend"
      BY <3>2 DEF Latches
    <3> QED
      BY <2>2, <3>1, <3>2, <3>3, <3>4, <3>5, <3>6 DEF AppendRefused
  <2> QED
    BY <2>1, <2>2
<1> DEFINE w == [writer[e] EXCEPT !.phase = "open", !.failure = failure]
<1>3. writer' = [writer EXCEPT ![e] = w] /\ w \in WriterState
  BY <1>1, <1>2 DEF WriterState, Phase
<1>4. /\ writer'[e] = w /\ w.phase = "open" /\ w.failure = failure
      /\ w.tracked = writer[e].tracked
  BY <1>1, <1>3 DEF IInv, TypeOK, WriterState
<1>5. writer[e].phase \in {"open", "appending"}
  BY DEF AppendRefused, RefuseAfterLoss
<1>6. OneCall(e) /\ Owns(e) /\ ~(e > issued)
  BY <1>5 DEF IInv, Writers, FreshGrants
<1>7. /\ wire' \subseteq Call /\ acked' \subseteq [seq : Nat, by : Epoch, frame : Bytes]
      /\ issued' \in 0..MaxEpoch /\ holder' \in 0..MaxEpoch /\ issued <= issued'
      /\ acked' = acked /\ log' = log /\ issued' = issued
  BY <1>2 DEF IInv, TypeOK
<1>8. WireRuns' /\ WireUnique' /\ AcknowledgedIsOwn'
  BY <1>2 DEF IInv, WireRuns, WireUnique, AcknowledgedIsOwn
<1>9. Owns(e)' /\ OneCall(e)'
  BY <1>4, <1>5, <1>6, <1>7 DEF Owns, OneCall
<1>10. Stopped(e)'
  <2>1. failure = "fenced" =>
          writer[e].tracked + 1 \in DOMAIN log /\ log[writer[e].tracked + 1].by # e
    BY <1>2, ContestedByAnother
  <2> QED
    BY <2>1, <1>4, <1>7 DEF Stopped
<1>11. Quiet(e)'
  <2> SUFFICES ASSUME failure = "none"
               PROVE  /\ \A c \in wire' : c.by # e
                      /\ \A i \in DOMAIN log : log[i].by = e => i <= writer[e].tracked
    BY <1>4, <1>7 DEF Quiet
  <2>1. /\ writer[e].phase = "appending" /\ wire' = wire \ {Sent(e)}
        /\ Contested(e) => log[writer[e].tracked + 1].by # e
    BY <1>2 DEF AppendDefinite
  <2>2. \A c \in wire' : c.by # e
    BY <2>1, <1>6 DEF OneCall
  <2>3. ASSUME NEW i \in DOMAIN log, log[i].by = e, i > writer[e].tracked PROVE FALSE
    <3>1. i = writer[e].tracked + 1
      BY <2>1, <2>3, <1>6 DEF OneCall
    <3>2. Contested(e)
      BY <2>3, <1>1 DEF Contested, WriterState
    <3> QED
      BY <2>1, <2>3, <3>1, <3>2
  <2> QED
    BY <2>2, <2>3, <1>1 DEF WriterState
<1> HIDE DEF w
<1>12. /\ \A c \in wire' : c \in wire \/ c.by = e
       /\ e > issued' => w.phase = "unissued"
       /\ w.phase \in {"unissued", "acquired"} => Fresh(e)'
  BY <1>2, <1>4, <1>6, <1>7
<1>13. log' = log /\ acked \subseteq acked' /\ issued <= issued'
  BY <1>7
<1> QED
  BY <1>3, <1>7, <1>8, <1>9, <1>10, <1>11, <1>12, <1>13, WriterStep

-----------------------------------------------------------------------------
(* The ledger's action.                                                    *)

LEMMA LogGrows ==
    ASSUME TypeOK, NEW call \in wire, LedgerAppends(call)
    PROVE  /\ DOMAIN log' = 1..(Len(log) + 1)
           /\ \A i \in DOMAIN log : log'[i] = log[i]
           /\ log'[Len(log) + 1] = [frame |-> call.frame, by |-> call.by]
           /\ log' \in Seq([frame : Bytes, by : Epoch])
<1> DEFINE R == [frame : Bytes, by : Epoch]
           r == [frame |-> call.frame, by |-> call.by]
<1>1. log \in Seq(R) /\ r \in R
  BY DEF TypeOK, Call
<1>2. log' = Append(log, r)
  BY DEF LedgerAppends
<1> HIDE DEF R, r
<1>3. /\ DOMAIN log' = 1..(Len(log) + 1)
      /\ \A i \in DOMAIN log : log'[i] = log[i]
      /\ log'[Len(log) + 1] = r
      /\ log' \in Seq(R)
  BY <1>1, <1>2
<1> QED
  BY <1>3 DEF R, r

LEMMA LedgerAppendsPreserves ==
    ASSUME IInv, NEW call \in wire, LedgerAppends(call)
    PROVE  IInv'
<1> DEFINE last == Len(log) + 1
           g == call.by
<1>1. /\ Len(log) \in Nat /\ DOMAIN log = 1..Len(log)
      /\ DOMAIN log' = 1..last /\ last \notin DOMAIN log
      /\ \A i \in DOMAIN log : log'[i] = log[i]
      /\ log'[last].frame = call.frame /\ log'[last].by = g
  <2>1. TypeOK
    BY DEF IInv
  <2>2. Len(log) \in Nat /\ DOMAIN log = 1..Len(log)
    BY <2>1, LogDomain
  <2>3. /\ DOMAIN log' = 1..last
        /\ \A i \in DOMAIN log : log'[i] = log[i]
        /\ log'[last] = [frame |-> call.frame, by |-> g]
    BY <2>1, LogGrows
  <2> QED
    BY <2>2, <2>3
<1>2. /\ call.at = Len(log)
      /\ wire' = {other \in wire : other.at # call.at}
      /\ UNCHANGED <<writer, issued, holder, acked>>
  BY DEF LedgerAppends
<1>3. call \in Call /\ g \in Epoch
  BY DEF IInv, TypeOK, Call
<1>4. \A i \in DOMAIN log' : i \in DOMAIN log \/ i = last
  BY <1>1
<1>5. wire' \subseteq wire /\ \A c \in wire' : c.by # g
  BY <1>2 DEF IInv, WireUnique
<1>6. TypeOK'
  BY <1>2, <1>5, LogGrows DEF IInv, TypeOK
<1>7. LogRuns'
  <2> SUFFICES ASSUME NEW i \in DOMAIN log'
               PROVE  IF IsFence(log'[i].frame)
                      THEN /\ log'[i].frame = Fence(log'[i].by)
                           /\ \A j \in DOMAIN log' : j < i => log'[j].by # log'[i].by
                      ELSE i - 1 \in DOMAIN log' /\ log'[i - 1].by = log'[i].by
    BY DEF LogRuns
  <2>1. CASE i \in DOMAIN log
    <3>1. \A j \in DOMAIN log' : j < i => j \in DOMAIN log
      BY <1>1, <2>1
    <3>2. i - 1 \in DOMAIN log => i - 1 \in DOMAIN log'
      BY <1>1
    <3> QED
      BY <2>1, <3>1, <3>2, <1>1 DEF IInv, LogRuns
  <2>2. CASE i = last
    <3>1. CASE IsFence(call.frame)
      BY <2>2, <3>1, <1>1, <1>4 DEF IInv, WireRuns
    <3>2. CASE ~IsFence(call.frame)
      <4>1. call.at \in DOMAIN log /\ log[call.at].by = g
        BY <3>2 DEF IInv, WireRuns
      <4>2. i - 1 = call.at /\ i - 1 \in DOMAIN log'
        BY <2>2, <4>1, <1>1, <1>2
      <4> QED
        BY <2>2, <3>2, <4>1, <4>2, <1>1
    <3> QED
      BY <3>1, <3>2
  <2> QED
    BY <2>1, <2>2, <1>4
<1>8. WireRuns'
  <2> SUFFICES ASSUME NEW c \in wire'
               PROVE  IF IsFence(c.frame)
                      THEN c.frame = Fence(c.by) /\ \A j \in DOMAIN log' : log'[j].by # c.by
                      ELSE c.at \in DOMAIN log' /\ log'[c.at].by = c.by
    BY DEF WireRuns
  <2>1. c \in wire /\ c.by # g
    BY <1>5
  <2> QED
    BY <2>1, <1>1, <1>4 DEF IInv, WireRuns
<1>9. WireUnique'
  BY <1>5 DEF IInv, WireUnique
<1>10. FreshGrants'
  <2> SUFFICES ASSUME NEW e \in Epoch
               PROVE  /\ e > issued => writer[e].phase = "unissued"
                      /\ writer[e].phase \in {"unissued", "acquired"} => Fresh(e)'
    BY <1>2 DEF FreshGrants
  <2>1. Fresh(e) => Fresh(e)'
    BY <1>1, <1>2, <1>4, <1>5 DEF Fresh
  <2> QED
    BY <2>1 DEF IInv, FreshGrants
<1>11. AcknowledgedIsOwn'
  <2>1. DOMAIN log \subseteq DOMAIN log'
    BY <1>1
  <2> QED
    BY <2>1, <1>1, <1>2 DEF IInv, AcknowledgedIsOwn
<1>12. ASSUME NEW e \in Epoch PROVE Owns(e)'
  <2>1. Owns(e) /\ writer[e].tracked \in Nat
    BY DEF IInv, Writers, TypeOK, WriterState
  <2>2. \A i \in DOMAIN log' : writer[e].tracked \in DOMAIN log /\ i <= writer[e].tracked
          => i \in DOMAIN log
    BY <1>1
  <2>3. DOMAIN log \subseteq DOMAIN log'
    BY <1>1
  <2> QED
    BY <2>1, <2>2, <2>3, <1>1, <1>2 DEF Owns
<1>13. ASSUME NEW e \in Epoch PROVE OneCall(e)'
  <2>1. OneCall(e) /\ Sent(e)' = Sent(e)
    BY <1>2 DEF IInv, Writers, Sent
  <2>2. CASE e # g
    BY <2>1, <2>2, <1>1, <1>2, <1>4, <1>5 DEF OneCall
  <2>3. CASE e = g
    <3> SUFFICES ASSUME writer[e].phase \in {"opening", "appending"},
                        NEW i \in DOMAIN log', i > writer[e].tracked, log'[i].by = e
                 PROVE  /\ i = writer[e].tracked + 1
                        /\ log'[i].frame = writer[e].offered
                        /\ Sent(e) \notin wire'
      BY <2>1, <1>2, <1>5 DEF OneCall
    <3>1. call = Sent(e)
      BY <2>1, <2>3 DEF OneCall
    <3>2. i = last
      BY <2>1, <3>1, <1>1, <1>4 DEF OneCall
    <3>3. Sent(e) \notin wire'
      BY <3>1, <1>5
    <3> QED
      BY <3>1, <3>2, <3>3, <1>1, <1>2 DEF Sent
  <2> QED
    BY <2>2, <2>3
<1>14. ASSUME NEW e \in Epoch PROVE Quiet(e)'
  <2>1. Quiet(e)
    BY DEF IInv, Writers
  <2> QED
    BY <2>1, <1>1, <1>2, <1>4, <1>5 DEF Quiet
<1>15. ASSUME NEW e \in Epoch PROVE Stopped(e)'
  <2>1. Stopped(e) /\ DOMAIN log \subseteq DOMAIN log'
    BY <1>1 DEF IInv, Writers
  <2> QED
    BY <2>1, <1>1, <1>2 DEF Stopped
<1>16. Writers'
  BY <1>12, <1>13, <1>14, <1>15 DEF Writers
<1> QED
  BY <1>6, <1>7, <1>8, <1>9, <1>10, <1>11, <1>16 DEF IInv

LEMMA LapsePreserves == ASSUME IInv, LeaseLapses \/ UNCHANGED vars PROVE IInv'
<1>1. UNCHANGED <<log, wire, writer, issued, acked>> /\ holder' \in 0..MaxEpoch
  BY JournalBoundsAssumption DEF LeaseLapses, vars, IInv, TypeOK
<1>2. TypeOK'
  BY <1>1 DEF IInv, TypeOK
<1>3. LogRuns' /\ WireRuns' /\ WireUnique' /\ AcknowledgedIsOwn'
  BY <1>1 DEF IInv, LogRuns, WireRuns, WireUnique, AcknowledgedIsOwn
<1>4. FreshGrants'
  BY <1>1 DEF IInv, FreshGrants, Fresh
<1>5. Writers'
  BY <1>1 DEF IInv, Writers, Owns, OneCall, Quiet, Stopped, Sent
<1> QED
  BY <1>2, <1>3, <1>4, <1>5 DEF IInv

LEMMA StepPreserves == ASSUME IInv, [Next]_vars PROVE IInv'
<1>1. ASSUME NEW call \in wire, LedgerAppends(call) PROVE IInv'
  BY <1>1, LedgerAppendsPreserves
<1>2. ASSUME NEW e \in Epoch, Acquire(e) PROVE IInv'
  BY <1>2, AcquirePreserves
<1>3. ASSUME NEW e \in Epoch, OpenFails(e) \/ FenceRefused(e) \/ Close(e) PROVE IInv'
  BY <1>3, EndingPreserves
<1>4. ASSUME NEW e \in Epoch, OfferFence(e) PROVE IInv'
  BY <1>4, OfferFencePreserves
<1>5. ASSUME NEW e \in Epoch, FenceCommitted(e) \/ AppendCommitted(e) PROVE IInv'
  BY <1>5, CommittedPreserves
<1>6. ASSUME NEW e \in Epoch, NEW env \in Envelope, SendAppend(e, env) PROVE IInv'
  BY <1>6, SendAppendPreserves
<1>7. ASSUME NEW e \in Epoch, AppendRefused(e) \/ RefuseAfterLoss(e) PROVE IInv'
  BY <1>7, RefusedPreserves
<1> QED
  BY <1>1, <1>2, <1>3, <1>4, <1>5, <1>6, <1>7, LapsePreserves DEF Next

\* The inductive invariant of OpenJournal, Append and Close.
THEOREM Invariance == Spec => []IInv
<1>1. IInv /\ [Next]_vars => IInv'
  BY StepPreserves
<1> QED
  BY InitHolds, <1>1, PTL DEF Spec

\* No guard of OpenJournal, Append or Close leaves the shape of the state.
THEOREM TypeCorrect == Spec => []TypeOK
<1>1. IInv => TypeOK
  BY DEF IInv
<1> QED
  BY <1>1, Invariance, PTL

\* AppendDefinite's comparison of bytes never adopts another writer's record.
THEOREM AcknowledgesOwn == Spec => []AcknowledgedIsOwn
<1>1. IInv => AcknowledgedIsOwn
  BY DEF IInv
<1> QED
  BY <1>1, Invariance, PTL

\* A writer whose failure is not latched has no record it was not told of.
THEOREM KnowsItsRecords == Spec => []LiveWriterKnowsItsRecords
<1>1. IInv => LiveWriterKnowsItsRecords
  BY DEF IInv, Writers, Owns, Quiet, LiveWriterKnowsItsRecords
<1> QED
  BY <1>1, Invariance, PTL

\* JournalErrorFenced is never a writer's own late record.
THEOREM FencedByAnother == Spec => []FencedMeansSuperseded
<1>1. IInv => FencedMeansSuperseded
  BY DEF IInv, Writers, Stopped, FencedMeansSuperseded
<1> QED
  BY <1>1, Invariance, PTL

-----------------------------------------------------------------------------
(* The writers implement the fenced log.                                   *)

Abstracted(records) ==
    [i \in DOMAIN records |->
        [by |-> records[i].by, opens |-> records[i].frame.kind = "opening_fence"]]

LEMMA AbstractedSequence ==
    ASSUME NEW records \in Seq([frame : Bytes, by : Epoch])
    PROVE  /\ Abstracted(records) \in Seq([by : Epoch, opens : BOOLEAN])
           /\ Len(Abstracted(records)) = Len(records)
           /\ DOMAIN Abstracted(records) = DOMAIN records
           /\ \A i \in DOMAIN records : Abstracted(records)[i].by = records[i].by
<1> DEFINE R == [by : Epoch, opens : BOOLEAN]
           S == [frame : Bytes, by : Epoch]
           f(i) == [by |-> records[i].by, opens |-> records[i].frame.kind = "opening_fence"]
<1> HIDE DEF S
<1>0. records \in Seq(S)
  BY DEF S
<1>1. /\ Len(records) \in Nat /\ DOMAIN records = 1..Len(records)
      /\ \A i \in DOMAIN records : records[i] \in S
  BY <1>0
<1>2. \A i \in DOMAIN records : f(i) \in R
  BY <1>1 DEF S
<1>3. Abstracted(records) = [i \in 1..Len(records) |-> f(i)]
  BY <1>1 DEF Abstracted
<1> HIDE DEF f, R
<1>4. /\ Abstracted(records) \in Seq(R) /\ Len(Abstracted(records)) = Len(records)
      /\ DOMAIN Abstracted(records) = DOMAIN records
  BY <1>1, <1>2, <1>3
<1>5. \A i \in DOMAIN records : Abstracted(records)[i] = f(i)
  BY <1>1, <1>3
<1> QED
  BY <1>4, <1>5 DEF f, R

LEMMA EntriesSequence ==
    ASSUME TypeOK
    PROVE  /\ FencedEntries \in Seq([by : Epoch, opens : BOOLEAN])
           /\ Len(FencedEntries) = Len(log)
           /\ DOMAIN FencedEntries = DOMAIN log
           /\ \A i \in DOMAIN log : FencedEntries[i].by = log[i].by
<1>1. log \in Seq([frame : Bytes, by : Epoch])
  BY DEF TypeOK
<1>2. FencedEntries = Abstracted(log)
  BY DEF FencedEntries, Abstracted
<1> QED
  BY <1>1, <1>2, AbstractedSequence

LEMMA LedgerAppendsImplements ==
    ASSUME IInv, IInv', NEW call \in wire, LedgerAppends(call)
    PROVE  Fenced!LogNext
<1> DEFINE g == call.by
           r == [by |-> g, opens |-> IsFence(call.frame)]
<1>0. TypeOK /\ TypeOK' /\ g \in Epoch
  BY DEF IInv, TypeOK, Call
<1>1. /\ Len(log) \in Nat /\ DOMAIN log = 1..Len(log)
      /\ DOMAIN log' = 1..(Len(log) + 1)
      /\ \A i \in DOMAIN log : log'[i] = log[i]
      /\ log'[Len(log) + 1] = [frame |-> call.frame, by |-> g]
  BY <1>0, LogDomain, LogGrows
<1>2. /\ Len(FencedEntries) = Len(log) /\ DOMAIN FencedEntries = DOMAIN log
      /\ \A i \in DOMAIN log : FencedEntries[i].by = log[i].by
  BY <1>0, EntriesSequence
<1>3. FencedEntries' = Append(FencedEntries, r)
  <2>1. FencedEntries' = [i \in 1..(Len(log) + 1) |-> IF i = Len(log) + 1 THEN r ELSE FencedEntries[i]]
    BY <1>1 DEF FencedEntries, IsFence
  <2> DEFINE R == [by : Epoch, opens : BOOLEAN]
  <2>2. FencedEntries \in Seq(R) /\ FencedEntries' \in Seq(R) /\ Len(FencedEntries') = Len(log')
    <3>1. log' \in Seq([frame : Bytes, by : Epoch])
      BY <1>0 DEF TypeOK
    <3>2. FencedEntries' = Abstracted(log')
      BY DEF FencedEntries, Abstracted
    <3> QED
      BY <1>0, <3>1, <3>2, EntriesSequence, AbstractedSequence
  <2>3. r \in R
    BY <1>0 DEF IsFence
  <2>4. Len(log') = Len(log) + 1
    BY <1>0, <1>1 DEF TypeOK
  <2> HIDE DEF r, R
  <2>5. /\ Append(FencedEntries, r) \in Seq(R)
        /\ Len(Append(FencedEntries, r)) = Len(log) + 1
        /\ \A i \in 1..Len(log) : Append(FencedEntries, r)[i] = FencedEntries[i]
        /\ Append(FencedEntries, r)[Len(log) + 1] = r
    BY <1>2, <2>2, <2>3, AppendProperties
  <2>6. \A i \in 1..(Len(log) + 1) : FencedEntries'[i] = Append(FencedEntries, r)[i]
    BY <1>1, <2>1, <2>5
  <2> QED
    BY <2>2, <2>4, <2>5, <2>6, SeqEqual
<1>4. FencedTold' = FencedTold
  BY DEF FencedTold, LedgerAppends
<1>5. CASE IsFence(call.frame)
  <2>1. \A i \in DOMAIN log : log[i].by # g
    BY <1>5 DEF IInv, WireRuns
  <2>2. ~Fenced!Opened(g)
    BY <2>1, <1>2 DEF Fenced!Opened
  <2>3. Fenced!Open(g)
    BY <2>2, <1>3, <1>4, <1>5 DEF Fenced!Open
  <2> QED
    BY <2>3, <1>0 DEF Fenced!LogNext
<1>6. CASE ~IsFence(call.frame)
  <2>1. call.at \in DOMAIN log /\ log[call.at].by = g /\ call.at = Len(log)
    BY <1>6 DEF IInv, WireRuns, LedgerAppends
  <2>2. Fenced!Owner = g
    BY <2>1, <1>1, <1>2 DEF Fenced!Owner
  <2>3. r = [by |-> g, opens |-> FALSE]
    BY <1>6 DEF IsFence
  <2>4. Fenced!Extend(g)
    BY <2>2, <2>3, <1>3, <1>4 DEF Fenced!Extend
  <2> QED
    BY <2>4, <1>0 DEF Fenced!LogNext
<1> QED
  BY <1>5, <1>6

LEMMA CommittedImplements ==
    ASSUME IInv, IInv', NEW e \in Epoch, FenceCommitted(e) \/ AppendCommitted(e)
    PROVE  Fenced!LogNext
<1> DEFINE seq == writer[e].tracked + 1
<1>1. /\ writer[e].phase \in {"opening", "appending"}
      /\ Contested(e) /\ Contester(e) = writer[e].offered
      /\ acked' = acked \cup {[seq |-> seq, by |-> e, frame |-> writer[e].offered]}
      /\ log' = log
  BY DEF FenceCommitted, AppendCommitted, AppendDefinite, Told
<1>2. seq \in DOMAIN log /\ log[seq].by = e
  BY <1>1, AdoptedIsOwn
<1>3. writer'[e].phase = "open" /\ writer'[e].tracked = seq
  <2>1. writer' = [writer EXCEPT ![e].phase = "open", ![e].tracked = writer[e].tracked + 1]
    BY DEF FenceCommitted, AppendCommitted
  <2>2. writer[e] \in WriterState /\ writer \in [Epoch -> WriterState]
    BY DEF IInv, TypeOK
  <2> QED
    BY <2>1, <2>2 DEF WriterState
<1>4. \A i \in DOMAIN log : i <= seq /\ log[i].by = e =>
        [seq |-> i, by |-> e, frame |-> log[i].frame] \in acked'
  BY <1>1, <1>3 DEF IInv, Writers, Owns
<1>5. /\ DOMAIN FencedEntries = DOMAIN log /\ DOMAIN log = 1..Len(log) /\ Len(log) \in Nat
      /\ \A i \in DOMAIN log : FencedEntries[i].by = log[i].by
  BY EntriesSequence, LogDomain DEF IInv
<1>6. ASSUME NEW i \in 1..(seq - 1), FencedEntries[i].by = e
      PROVE  <<i, e>> \in FencedTold
  <2>1. i \in DOMAIN log /\ i <= seq /\ i # seq
    BY <1>2, <1>5, <1>6
  <2>2. [seq |-> i, by |-> e, frame |-> log[i].frame] \in acked'
    BY <2>1, <1>4, <1>5, <1>6
  <2>3. [seq |-> i, by |-> e, frame |-> log[i].frame] \in acked
    BY <2>1, <2>2, <1>1
  <2> QED
    BY <2>3 DEF FencedTold
<1>7. FencedTold' = FencedTold \cup {<<seq, e>>}
  <2> DEFINE told == [seq |-> seq, by |-> e, frame |-> writer[e].offered]
  <2>1. told.seq = seq /\ told.by = e
    OBVIOUS
  <2>2. acked' = acked \cup {told}
    BY <1>1
  <2> HIDE DEF told, seq
  <2>3. \A x : (\E a \in acked' : x = <<a.seq, a.by>>)
            <=> (\E a \in acked : x = <<a.seq, a.by>>) \/ x = <<seq, e>>
    BY <2>1, <2>2
  <2> QED
    BY <2>3 DEF FencedTold
<1>8. FencedEntries' = FencedEntries
  BY <1>1 DEF FencedEntries
<1>9. Fenced!Tell(e, seq)
  BY <1>2, <1>5, <1>6, <1>7, <1>8 DEF Fenced!Tell
<1> QED
  BY <1>2, <1>5, <1>9 DEF Fenced!LogNext

LEMMA StepImplements ==
    ASSUME IInv, IInv', [Next]_vars
    PROVE  [Fenced!LogNext]_(Fenced!logVars)
<1>1. ASSUME UNCHANGED <<log, acked>> PROVE UNCHANGED Fenced!logVars
  BY <1>1 DEF Fenced!logVars, FencedEntries, FencedTold
<1>2. \/ \E call \in wire : LedgerAppends(call)
      \/ \E e \in Epoch : FenceCommitted(e) \/ AppendCommitted(e)
      \/ UNCHANGED <<log, acked>>
  BY DEF Next, vars, LeaseLapses, Acquire, OpenFails, OfferFence, FenceRefused,
         SendAppend, RefuseAfterLoss, AppendRefused, Close
<1> QED
  BY <1>1, <1>2, LedgerAppendsImplements, CommittedImplements

\* Every behaviour of OpenJournal, Append and Close, with leases that lapse
\* unnoticed, lost replies and late appends, is one of the fenced log.
THEOREM WritersImplementFencedLog == Spec => ImplementsFencedLog
<1>1. Init => Fenced!LogInit
  <2> SUFFICES ASSUME Init PROVE Fenced!LogInit
    OBVIOUS
  <2>1. log = << >> /\ acked = {}
    BY DEF Init
  <2> QED
    BY <2>1 DEF Fenced!LogInit, FencedEntries, FencedTold
<1>2. IInv /\ IInv' /\ [Next]_vars => [Fenced!LogNext]_(Fenced!logVars)
  BY StepImplements
<1> QED
  BY <1>1, <1>2, Invariance, PTL DEF Spec, ImplementsFencedLog, Fenced!LogSpec
=============================================================================
