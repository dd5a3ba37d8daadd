----------------------- MODULE ProtocolBindingProofs -----------------------
(***************************************************************************)
(* What the rows of ProtocolBinding establish, for any number of sessions,  *)
(* calls and digest collisions.  Rows never change once they are there     *)
(* (RowsGrow), so what a call has seen stays true; the invariant says of    *)
(* each call which rows its progress rests on, and that a session's witness *)
(* stands behind its pin unless a binary without pins wrote it.            *)
(***************************************************************************)
EXTENDS ProtocolBinding, TLAPS

-----------------------------------------------------------------------------
(* The invariant.                                                          *)

Stage_(o) == Stages(o.kind)[o.at]

\* What a call's progress rests on.
Rests(o) ==
    \A i \in DOMAIN Stages(o.kind) :
        i < o.at => Row(Stages(o.kind)[i], o.session) = Value(Stages(o.kind)[i], o.session, o.mode)

\* Where a call stands in the protocol of the pin.
Stands(o) ==
    /\ o.step \in {"put", "sent", "reread", "witness", "recheck"} => o.kind # "verify"
    /\ o.step \in {"witness", "recheck"} => Stage_(o) = "protocol"
    /\ o.step = "recheck" => Found("session", o.session)
    /\ o.step \in {"put", "sent"} /\ Stage_(o) = "protocol" /\ o.mode = "disposition" =>
          o.session \notin old

\* RefusedForCause, of one call.
Cause(o) ==
    LET s == o.session
    IN  /\ o.outcome = "conflict" =>
              \/ \E mode \in Mode \ {o.mode} : Row("protocol", s) = Value("protocol", s, mode)
              \/ Found("session", s) /\ Row("session", s).session # s
              \/ s \in old
        /\ o.outcome = "collision" =>
              \E i \in DOMAIN Stages(o.kind) :
                  LET stage == Stages(o.kind)[i]
                  IN  /\ Found(stage, s)
                      /\ \A mode \in Mode : Row(stage, s) # Value(stage, s, mode)

Typed(o) ==
    /\ o \in Operation
    /\ o.outcome = "none" <=> o.step # "done"
    /\ o.outcome = "bound" <=> o.at > Len(Stages(o.kind))

CallInv(o) == o = Idle \/ (Typed(o) /\ Rests(o) /\ Stands(o) /\ Cause(o))

\* What a creation on its way rests on.
SentInv(w, o) ==
    /\ o # Idle /\ o.kind # "verify"
    /\ \E i \in DOMAIN Stages(o.kind) : i <= o.at /\ Stages(o.kind)[i] = w.stage
    /\ w.stage = "protocol" /\ o.mode = "disposition" => o.session \notin old

OldWitnessed == \A s \in old : Row("session", s) = Value("session", s, None)

WitnessBehindPin ==
    \A s \in Session \ old : Row("session", s) = Value("session", s, None) =>
        \E mode \in Mode : Row("protocol", s) = Value("protocol", s, mode)

RowsNameSessions ==
    \A s \in Session, stage \in {"protocol", "session"} : Found(stage, s) =>
        \E r \in Session, mode \in Mode : Row(stage, s) = Value(stage, r, mode)

IInv ==
    /\ rows \in [Keys -> Witness]
    /\ DOMAIN call = Call
    /\ \A k \in Call : CallInv(call[k])
    /\ sent \subseteq [call : Call, stage : Stage]
    /\ \A w \in sent : SentInv(w, call[w.call])
    /\ old \subseteq Session
    /\ OldWitnessed
    /\ OldSessionStaysLegacy
    /\ WitnessBehindPin
    /\ RowsNameSessions

-----------------------------------------------------------------------------
(* Rows and stages.                                                        *)

LEMMA ValueIsARow ==
    ASSUME NEW stage \in Stage, NEW s \in Session, NEW mode \in Mode \cup {None}
    PROVE  /\ Value(stage, s, mode) \in Witness /\ Value(stage, s, mode) # Absent
           /\ Key(stage, s) \in Keys
  <1>1. TenantOf[s] \in Tenant
    BY IdentityAssumption
  <1>2. Value(stage, s, mode) \in Witness
    BY <1>1 DEF Value, Witness
  <1>3. Value(stage, s, mode).tenant # Absent.tenant
    BY <1>1, IdentityAssumption DEF Value, Absent
  <1> QED
    BY <1>2, <1>3 DEF Keys

LEMMA StagesAreStages ==
    ASSUME NEW kind \in Kind
    PROVE  /\ Len(Stages(kind)) \in 1..3
           /\ DOMAIN Stages(kind) = 1..Len(Stages(kind))
           /\ \A i \in DOMAIN Stages(kind) : Stages(kind)[i] \in Stage
           /\ kind = "scope" =>
                /\ Stages(kind) = <<"protocol", "tenant", "session">>
                /\ DOMAIN Stages(kind) = 1..3
           /\ kind # "verify" /\ kind # "scope" =>
                Stages(kind) = <<"protocol">> /\ DOMAIN Stages(kind) = {1}
  <1>1. CASE kind = "pin"
    BY <1>1 DEF Stages, Stage
  <1>2. CASE kind = "scope"
    BY <1>2 DEF Stages, Stage
  <1>3. CASE kind = "verify"
    BY <1>3 DEF Stages, Stage
  <1> QED
    BY <1>1, <1>2, <1>3 DEF Kind

\* Rows that grow keep what a call that does not move rests on.
RowsGrow == \A key \in Keys : rows[key] # Absent => rows'[key] = rows[key]

LEMMA GrowingKeepsCalls ==
    ASSUME NEW o, CallInv(o), RowsGrow, UNCHANGED old
    PROVE  CallInv(o)'
  <1> SUFFICES ASSUME o # Idle, Typed(o), Rests(o), Stands(o), Cause(o)
               PROVE  (Typed(o) /\ Rests(o) /\ Stands(o) /\ Cause(o))'
    BY DEF CallInv
  <1>0. o.session \in Session /\ o.mode \in Mode /\ o.kind \in Kind
    BY DEF Typed, Operation
  <1>1. \A stage \in Stage : Found(stage, o.session) => Row(stage, o.session)' = Row(stage, o.session)
    BY <1>0, ValueIsARow DEF RowsGrow, Found, Row
  <1>2. \A stage \in Stage, mode \in Mode \cup {None} :
            Row(stage, o.session) = Value(stage, o.session, mode) => Found(stage, o.session)
    BY <1>0, ValueIsARow DEF Found
  <1>3. Typed(o)'
    BY DEF Typed
  <1>4. Rests(o)'
    BY <1>0, <1>1, <1>2, StagesAreStages DEF Rests
  <1>5. Stands(o)'
    <2>1. Found("session", o.session) => Found("session", o.session)'
      BY <1>1 DEF Found, Stage
    <2> QED
      BY <2>1 DEF Stands, Stage_
  <1>6. Cause(o)'
    <2>1. ASSUME o.outcome = "conflict"
          PROVE  \/ \E mode \in Mode \ {o.mode} :
                        Row("protocol", o.session)' = Value("protocol", o.session, mode)
                 \/ Found("session", o.session)' /\ Row("session", o.session)'.session # o.session
                 \/ o.session \in old'
      BY <2>1, <1>1, <1>2 DEF Cause, Found, Stage
    <2>2. ASSUME o.outcome = "collision"
          PROVE  \E i \in DOMAIN Stages(o.kind) :
                    /\ Found(Stages(o.kind)[i], o.session)'
                    /\ \A mode \in Mode : Row(Stages(o.kind)[i], o.session)' #
                                            Value(Stages(o.kind)[i], o.session, mode)
      <3>1. PICK i \in DOMAIN Stages(o.kind) :
               /\ Found(Stages(o.kind)[i], o.session)
               /\ \A mode \in Mode : Row(Stages(o.kind)[i], o.session) #
                                       Value(Stages(o.kind)[i], o.session, mode)
        BY <2>2 DEF Cause
      <3>2. Row(Stages(o.kind)[i], o.session)' = Row(Stages(o.kind)[i], o.session)
        BY <1>0, <1>1, <3>1, StagesAreStages
      <3> QED
        BY <3>1, <3>2 DEF Found
    <2> QED
      BY <2>1, <2>2 DEF Cause
  <1> QED
    BY <1>3, <1>4, <1>5, <1>6

\* And so they keep what is true of old sessions and of witnesses behind pins.
LEMMA StillKeepsRows ==
    ASSUME IInv, UNCHANGED <<rows, old>>
    PROVE  /\ (rows \in [Keys -> Witness])' /\ (old \subseteq Session)'
           /\ OldWitnessed' /\ OldSessionStaysLegacy' /\ WitnessBehindPin'
           /\ RowsNameSessions'
  BY DEF IInv, OldWitnessed, OldSessionStaysLegacy, WitnessBehindPin, RowsNameSessions, Found, Row

\* A creation may be lost while every call stands still.
LEMMA StillKeepsInv ==
    ASSUME IInv, UNCHANGED <<rows, old, call>>, sent' \subseteq sent
    PROVE  IInv'
  <1>1. \A k \in Call : CallInv(call[k])'
    <2> SUFFICES ASSUME NEW k \in Call PROVE CallInv(call[k])'
      OBVIOUS
    <2>1. PICK o : o = call[k] /\ CallInv(o)
      BY DEF IInv
    <2>2. RowsGrow
      BY DEF RowsGrow
    <2>3. CallInv(o)'
      BY <2>1, <2>2, GrowingKeepsCalls
    <2>4. o = call'[k]
      BY <2>1
    <2> QED
      BY <2>3, <2>4 DEF CallInv, Typed, Rests, Stands, Stage_, Cause, Row, Found
  <1>2. \A w \in sent : SentInv(w, call[w.call])'
    BY DEF IInv, SentInv
  <1> QED
    BY <1>1, <1>2, StillKeepsRows DEF IInv

-----------------------------------------------------------------------------
(* The moves of a call.                                                    *)

Continues(o, n) ==
    o # Idle /\ n # Idle /\ n.session = o.session /\ n.mode = o.mode /\ n.kind = o.kind /\ o.at <= n.at

LEMMA NotIdle ==
    ASSUME NEW o, o \in Operation
    PROVE  o # Idle
  BY DEF Operation, Idle, Reading

\* A call that moves while rows grow, without losing a creation.
LEMMA MoveKeepsCalls ==
    ASSUME IInv, RowsGrow, UNCHANGED old, NEW k \in Call, NEW n,
           call' = [call EXCEPT ![k] = n], CallInv(n)', Continues(call[k], n),
           sent' \subseteq sent
    PROVE  /\ (DOMAIN call = Call)' /\ (\A j \in Call : CallInv(call[j]))'
           /\ (sent \subseteq [call : Call, stage : Stage])'
           /\ (\A w \in sent : SentInv(w, call[w.call]))'
  <1>1. ASSUME NEW j \in Call PROVE CallInv(call[j])'
    <2>1. PICK o : o = call[j]
      OBVIOUS
    <2>2. CallInv(o)
      BY <2>1 DEF IInv
    <2>3. CallInv(o)'
      BY <2>2, GrowingKeepsCalls
    <2>4. CASE j = k
      <3>1. call'[j] = n
        BY <2>4 DEF IInv
      <3> QED
        BY <3>1 DEF CallInv, Typed, Rests, Stands, Stage_, Cause, Row, Found
    <2>5. CASE j # k
      <3>1. call'[j] = o
        BY <2>1, <2>5 DEF IInv
      <3>2. Typed(o)' => Typed(call[j])'
        BY <3>1 DEF Typed
      <3>3. Rests(o)' => Rests(call[j])'
        BY <3>1 DEF Rests, Row
      <3>4. Stands(o)' => Stands(call[j])'
        BY <3>1 DEF Stands, Stage_, Found, Row
      <3>5. Cause(o)' => Cause(call[j])'
        BY <3>1 DEF Cause, Found, Row
      <3> QED
        BY <2>3, <3>1, <3>2, <3>3, <3>4, <3>5 DEF CallInv
    <2> QED
      BY <2>4, <2>5
  <1>2. ASSUME NEW w \in sent' PROVE SentInv(w, call[w.call])'
    <2>1. w \in sent /\ w.call \in Call /\ SentInv(w, call[w.call])
      BY DEF IInv
    <2>2. CASE w.call # k
      BY <2>1, <2>2 DEF SentInv, IInv
    <2>3. CASE w.call = k
      <3>1. n.kind = call[k].kind /\ n.mode = call[k].mode /\ n.session = call[k].session
        BY DEF Continues
      <3>2. call'[w.call] = n
        BY <2>3 DEF IInv
      <3>3. PICK i \in DOMAIN Stages(n.kind) : i <= call[k].at /\ Stages(n.kind)[i] = w.stage
        BY <2>1, <2>3, <3>1 DEF SentInv
      <3>4. i <= n.at
        <4>1. call[k] \in Operation /\ n \in Operation
          BY DEF Continues, CallInv, Typed, IInv
        <4>2. i \in Nat
          BY <4>1, StagesAreStages DEF Operation
        <4> QED
          BY <4>1, <4>2, <3>3 DEF Continues, Operation
      <3> QED
        BY <2>1, <2>3, <3>1, <3>2, <3>3, <3>4 DEF SentInv, Continues
    <2> QED
      BY <2>2, <2>3
  <1> QED
    BY <1>1, <1>2 DEF IInv

\* A call passes a row that is as it wants it.
Passed(o) ==
    LET last == o.at = Len(Stages(o.kind))
    IN  [o EXCEPT !.at = @ + 1, !.step = IF last THEN "done" ELSE "read",
                  !.outcome = IF last THEN "bound" ELSE "none"]

LEMMA PassedIsSound ==
    ASSUME NEW o, CallInv(o)', o # Idle, o.step # "done",
           Row(Stage_(o), o.session)' = Value(Stage_(o), o.session, o.mode)
    PROVE  CallInv(Passed(o))' /\ Continues(o, Passed(o))
  <1> DEFINE n == Passed(o)
  <1>1. Typed(o)' /\ Rests(o)' /\ Typed(o)
    BY DEF CallInv, Typed
  <1>2. /\ o \in Operation /\ o.kind \in Kind /\ o.at \in 1..4 /\ o.at <= Len(Stages(o.kind))
        /\ Len(Stages(o.kind)) \in 1..3
    BY <1>1, StagesAreStages DEF Typed, Operation
  <1>3. /\ n.session = o.session /\ n.mode = o.mode /\ n.kind = o.kind /\ n.at = o.at + 1
        /\ n.at = Len(Stages(o.kind)) + 1 => n.step = "done" /\ n.outcome = "bound"
        /\ n.at # Len(Stages(o.kind)) + 1 => n.step = "read" /\ n.outcome = "none"
        /\ n \in Operation
    <2>1. n.at = Len(Stages(o.kind)) + 1 <=> o.at = Len(Stages(o.kind))
      BY <1>2 DEF Passed, Operation
    <2>2. o.at + 1 \in 1..4
      <3>1. PICK at \in 1..4 : at = o.at
        BY <1>2
      <3>2. PICK len \in 1..3 : len = Len(Stages(o.kind))
        BY <1>2
      <3>3. at <= len
        BY <1>2, <3>1, <3>2
      <3> QED
        BY <3>1, <3>3
    <2>3. CASE o.at = Len(Stages(o.kind))
      <3>1. n = [o EXCEPT !.at = o.at + 1, !.step = "done", !.outcome = "bound"]
        BY <2>3 DEF Passed
      <3> QED
        BY <3>1, <2>1, <2>2, <2>3, <1>2 DEF Operation, Outcome
    <2>4. CASE o.at # Len(Stages(o.kind))
      <3>1. n = [o EXCEPT !.at = o.at + 1, !.step = "read", !.outcome = "none"]
        BY <2>4 DEF Passed
      <3> QED
        BY <3>1, <2>1, <2>2, <2>4, <1>2 DEF Operation, Outcome, Reading
    <2> QED
      BY <2>3, <2>4
  <1>4. Typed(n)'
    BY <1>2, <1>3 DEF Typed
  <1>5. Rests(n)'
    <2> SUFFICES ASSUME NEW i \in DOMAIN Stages(o.kind), i < o.at + 1
                 PROVE  Row(Stages(o.kind)[i], o.session)' =
                            Value(Stages(o.kind)[i], o.session, o.mode)
      BY <1>3 DEF Rests
    <2>1. CASE i < o.at
      BY <1>1, <2>1 DEF Rests
    <2>2. CASE i = o.at
      BY <2>2 DEF Stage_
    <2> QED
      BY <1>2, <2>1, <2>2, StagesAreStages
  <1>6. Stands(n)' /\ Cause(n)'
    BY <1>2, <1>3 DEF Stands, Cause
  <1>7. Continues(o, n)
    BY <1>2, <1>3, NotIdle DEF Continues
  <1> QED
    BY <1>4, <1>5, <1>6, <1>7 DEF CallInv

\* A call gives up, for a cause or for none.
Ended(o, outcome) == [o EXCEPT !.step = "done", !.outcome = outcome]

LEMMA EndedIsSound ==
    ASSUME NEW o, CallInv(o)', o # Idle, o.step # "done",
           NEW outcome \in {"conflict", "collision", "failed"}, Cause(Ended(o, outcome))'
    PROVE  CallInv(Ended(o, outcome))' /\ Continues(o, Ended(o, outcome))
  <1> DEFINE n == Ended(o, outcome)
  <1>1. Typed(o)' /\ Rests(o)' /\ Typed(o)
    BY DEF CallInv, Typed
  <1>2. o \in Operation
    BY <1>1 DEF Typed
  <1>3. /\ n.session = o.session /\ n.mode = o.mode /\ n.kind = o.kind /\ n.at = o.at
        /\ n.step = "done" /\ n.outcome = outcome /\ n \in Operation
    BY <1>2 DEF Ended, Operation, Outcome
  <1>4. Typed(n)'
    BY <1>1, <1>3 DEF Typed
  <1>5. Rests(n)'
    BY <1>1, <1>3 DEF Rests
  <1>6. Stands(n)'
    BY <1>3 DEF Stands
  <1>7. Continues(o, n)
    BY <1>2, <1>3, NotIdle DEF Continues, Operation
  <1> QED
    BY <1>4, <1>5, <1>6, <1>7 DEF CallInv

\* A call goes on to another step at the same row.
Stepped(o, step) == [o EXCEPT !.step = step]

LEMMA SteppedIsSound ==
    ASSUME NEW o, CallInv(o)', o # Idle, o.step # "done",
           NEW step \in Reading \cup {"put", "sent"}, Stands(Stepped(o, step))'
    PROVE  CallInv(Stepped(o, step))' /\ Continues(o, Stepped(o, step))
  <1> DEFINE n == Stepped(o, step)
  <1>1. Typed(o)' /\ Rests(o)' /\ Cause(o)' /\ Typed(o)
    BY DEF CallInv, Typed
  <1>2. o \in Operation /\ step # "done"
    BY <1>1 DEF Typed, Reading
  <1>3. /\ n.session = o.session /\ n.mode = o.mode /\ n.kind = o.kind /\ n.at = o.at
        /\ n.step = step /\ n.outcome = o.outcome /\ n \in Operation
    BY <1>2 DEF Stepped, Operation
  <1>4. Typed(n)'
    BY <1>1, <1>2, <1>3 DEF Typed
  <1>5. Rests(n)' /\ Cause(n)'
    BY <1>1, <1>3 DEF Rests, Cause
  <1>6. Continues(o, n)
    BY <1>2, <1>3, NotIdle DEF Continues, Operation
  <1> QED
    BY <1>4, <1>5, <1>6 DEF CallInv

-----------------------------------------------------------------------------
(* What a call does at a row it finds, and after an error.                 *)

MovesSoundly(k) ==
    \E n : call' = [call EXCEPT ![k] = n] /\ CallInv(n)' /\ Continues(call[k], n)

LEMMA Running ==
    ASSUME IInv, NEW k \in Call, call[k].step \in Reading \cup {"put", "sent"}
    PROVE  /\ call[k] # Idle /\ call[k].step # "done" /\ CallInv(call[k])
           /\ call[k].session \in Session /\ call[k].mode \in Mode /\ call[k].kind \in Kind
           /\ call[k].at \in DOMAIN Stages(call[k].kind) /\ Here(k) \in Stage
           /\ Here(k) = Stage_(call[k])
  <1>1. call[k] # Idle /\ call[k].step # "done"
    BY DEF Idle, Reading
  <1>2. CallInv(call[k]) /\ Typed(call[k])
    BY <1>1 DEF IInv, CallInv
  <1>3. PICK o \in Operation : o = call[k]
    BY <1>2 DEF Typed
  <1>4. o.kind \in Kind /\ o.at \in 1..4 /\ ~(o.at > Len(Stages(o.kind)))
    BY <1>1, <1>2, <1>3 DEF Typed, Operation
  <1>5. PICK len \in 1..3 : len = Len(Stages(o.kind))
    BY <1>4, StagesAreStages
  <1>6. o.at \in 1..len
    BY <1>4, <1>5
  <1>7. o.at \in DOMAIN Stages(o.kind)
    BY <1>4, <1>5, <1>6, StagesAreStages
  <1> QED
    BY <1>1, <1>2, <1>3, <1>4, <1>7, StagesAreStages DEF Here, Steps, Stage_, Operation

LEMMA PassesIsSound ==
    ASSUME NEW k \in Call, IInv, RowsGrow, UNCHANGED old,
           call[k].step \in Reading \cup {"put", "sent"},
           rows'[Key(Here(k), call[k].session)] = Wanted(k), Passes(k)
    PROVE  MovesSoundly(k)
  <1>1. PICK o : o = call[k]
    OBVIOUS
  <1>2. CallInv(o)
    BY <1>1, Running
  <1>3. CallInv(o)'
    BY <1>2, GrowingKeepsCalls
  <1>4. o # Idle /\ o.step # "done" /\ Here(k) = Stage_(o)
    BY <1>1, Running
  <1>5. Row(Stage_(o), o.session)' = Value(Stage_(o), o.session, o.mode)
    BY <1>1, <1>4 DEF Wanted, Row
  <1>6. CallInv(Passed(o))' /\ Continues(o, Passed(o))
    BY <1>3, <1>4, <1>5, PassedIsSound
  <1>7. call' = [call EXCEPT ![k] = Passed(o)]
    BY <1>1 DEF Passes, Passed, Steps
  <1> QED
    BY <1>1, <1>6, <1>7 DEF MovesSoundly

\* Failing needs no cause.
LEMMA EndsIsSound ==
    ASSUME NEW k \in Call, IInv, RowsGrow, UNCHANGED old,
           call[k].step \in Reading \cup {"put", "sent"},
           NEW outcome \in {"conflict", "collision", "failed"},
           \A o : o = call[k] => Cause(Ended(o, outcome))',
           Ends(k, outcome)
    PROVE  MovesSoundly(k)
  <1>1. PICK o : o = call[k]
    OBVIOUS
  <1>2. CallInv(o)
    BY <1>1, Running
  <1>3. CallInv(o)'
    BY <1>2, GrowingKeepsCalls
  <1>4. o # Idle /\ o.step # "done"
    BY <1>1, Running
  <1>5. CallInv(Ended(o, outcome))' /\ Continues(o, Ended(o, outcome))
    BY <1>1, <1>3, <1>4, EndedIsSound
  <1>6. call' = [call EXCEPT ![k] = Ended(o, outcome)]
    BY <1>1 DEF Ends, Ended
  <1> QED
    BY <1>1, <1>5, <1>6 DEF MovesSoundly

LEMMA FailsIsSound ==
    ASSUME NEW k \in Call, IInv, RowsGrow, UNCHANGED old,
           call[k].step \in Reading \cup {"put", "sent"}, Ends(k, "failed")
    PROVE  MovesSoundly(k)
  <1>1. ASSUME NEW o, o = call[k] PROVE Cause(Ended(o, "failed"))'
    <2>1. o \in Operation
      BY <1>1, Running DEF CallInv, Typed
    <2>2. Ended(o, "failed").outcome = "failed"
      BY <2>1 DEF Ended, Operation
    <2> QED
      BY <2>2 DEF Cause
  <1> QED
    BY <1>1, EndsIsSound

LEMMA BecomesIsSound ==
    ASSUME NEW k \in Call, IInv, RowsGrow, UNCHANGED old,
           call[k].step \in Reading \cup {"put", "sent"},
           NEW step \in Reading \cup {"put", "sent"},
           \A o : o = call[k] => Stands(Stepped(o, step))',
           Becomes(k, step)
    PROVE  MovesSoundly(k)
  <1>1. PICK o : o = call[k]
    OBVIOUS
  <1>2. CallInv(o)
    BY <1>1, Running
  <1>3. CallInv(o)'
    BY <1>2, GrowingKeepsCalls
  <1>4. o # Idle /\ o.step # "done"
    BY <1>1, Running
  <1>5. CallInv(Stepped(o, step))' /\ Continues(o, Stepped(o, step))
    BY <1>1, <1>3, <1>4, SteppedIsSound
  <1>6. call' = [call EXCEPT ![k] = Stepped(o, step)]
    BY <1>1 DEF Becomes, Stepped
  <1> QED
    BY <1>1, <1>5, <1>6 DEF MovesSoundly

\* To read a row again is safe wherever one may be put.
LEMMA RereadsIsSound ==
    ASSUME NEW k \in Call, IInv, RowsGrow, UNCHANGED old,
           call[k].step = "sent", Becomes(k, "reread")
    PROVE  MovesSoundly(k)
  <1>1. ASSUME NEW o, o = call[k] PROVE Stands(Stepped(o, "reread"))'
    <2>1. o \in Operation /\ o.kind # "verify"
      BY <1>1, Running DEF CallInv, Typed, Stands
    <2>2. Stepped(o, "reread").step = "reread" /\ Stepped(o, "reread").kind = o.kind
      BY <2>1 DEF Stepped, Operation
    <2> QED
      BY <2>1, <2>2 DEF Stands
  <1> QED
    BY <1>1, BecomesIsSound DEF Reading

LEMMA AfterErrorIsSound ==
    ASSUME NEW k \in Call, IInv, RowsGrow, UNCHANGED old,
           call[k].step = "sent", AfterError(k)
    PROVE  MovesSoundly(k)
  BY RereadsIsSound, FailsIsSound DEF AfterError

\* A row that is found and is not what the call wants holds its name for good.
LEMMA ComparedIsSound ==
    ASSUME NEW k \in Call, IInv, UNCHANGED <<rows, old>>,
           call[k].step \in Reading, Found(Here(k), call[k].session), Compared(k)
    PROVE  MovesSoundly(k)
  <1>0. RowsGrow
    BY DEF RowsGrow
  <1>1. CASE Current(k) = Wanted(k)
    BY <1>0, <1>1, PassesIsSound DEF Compared, Current, Row
  <1>2. CASE Current(k) # Wanted(k) /\ Here(k) = "protocol" /\ Current(k).session = call[k].session
    <2>1. ASSUME NEW o, o = call[k] PROVE Cause(Ended(o, "conflict"))'
      <3>1. o \in Operation /\ o.session \in Session
        BY <2>1, Running DEF CallInv, Typed
      <3>2. Ended(o, "conflict").outcome = "conflict" /\ Ended(o, "conflict").session = o.session
            /\ Ended(o, "conflict").mode = o.mode
        BY <3>1 DEF Ended, Operation
      <3>3. Row("protocol", o.session).session = o.session /\ Row("protocol", o.session) # Value("protocol", o.session, o.mode)
        BY <1>2, <2>1 DEF Current, Wanted
      <3>4. PICK r \in Session, mode \in Mode : Row("protocol", o.session) = Value("protocol", r, mode)
        BY <1>2, <2>1, <3>1 DEF IInv, RowsNameSessions
      <3>5. r = o.session
        BY <3>3, <3>4 DEF Value
      <3>6. mode # o.mode
        BY <3>3, <3>4, <3>5
      <3> QED
        BY <3>2, <3>4, <3>5, <3>6 DEF Cause, Row
    <2> QED
      BY <1>0, <1>2, <2>1, EndsIsSound DEF Compared
  <1>3. CASE Current(k) # Wanted(k) /\ ~(Here(k) = "protocol" /\ Current(k).session = call[k].session)
    <2>1. ASSUME NEW o, o = call[k] PROVE Cause(Ended(o, "collision"))'
      <3>1. /\ o \in Operation /\ o.session \in Session /\ o.mode \in Mode
            /\ o.at \in DOMAIN Stages(o.kind) /\ Stage_(o) = Here(k) /\ Here(k) \in Stage
        BY <2>1, Running DEF CallInv, Typed
      <3>2. /\ Ended(o, "collision").outcome = "collision" /\ Ended(o, "collision").session = o.session
            /\ Ended(o, "collision").kind = o.kind
        BY <3>1 DEF Ended, Operation
      <3>3. Found(Stage_(o), o.session)
        BY <2>1, <3>1
      <3>4. ASSUME NEW mode \in Mode
            PROVE  Row(Stage_(o), o.session) # Value(Stage_(o), o.session, mode)
        <4>1. CASE Here(k) = "protocol"
          <5>1. Current(k).session # o.session
            BY <1>3, <2>1, <4>1
          <5>2. Value(Stage_(o), o.session, mode).session = o.session
            BY <3>1, <4>1 DEF Value
          <5> QED
            BY <2>1, <3>1, <5>1, <5>2 DEF Current
        <4>2. CASE Here(k) # "protocol"
          <5>1. Value(Stage_(o), o.session, mode) = Wanted(k)
            BY <2>1, <3>1, <4>2 DEF Wanted, Value
          <5> QED
            BY <1>3, <2>1, <3>1, <5>1 DEF Current
        <4> QED
          BY <4>1, <4>2
      <3> QED
        BY <3>1, <3>2, <3>3, <3>4 DEF Cause, Stage_, Found, Row
    <2> QED
      BY <1>0, <1>3, <2>1, EndsIsSound DEF Compared
  <1> QED
    BY <1>1, <1>2, <1>3

-----------------------------------------------------------------------------
(* Steps.                                                                  *)

LEMMA QuietStep ==
    ASSUME IInv, NEW k \in Call, MovesSoundly(k), UNCHANGED <<rows, old>>, sent' \subseteq sent
    PROVE  IInv'
  <1>1. PICK n : call' = [call EXCEPT ![k] = n] /\ CallInv(n)' /\ Continues(call[k], n)
    BY DEF MovesSoundly
  <1>2. RowsGrow
    BY DEF RowsGrow
  <1> QED
    BY <1>1, <1>2, MoveKeepsCalls, StillKeepsRows DEF IInv

LEMMA StartKeepsInv ==
    ASSUME IInv, NEW k \in Call, NEW s \in Session, NEW mode \in Mode, NEW kind \in Kind,
           Start(k, s, mode, kind)
    PROVE  IInv'
  <1> DEFINE n == [session |-> s, mode |-> mode, kind |-> kind, at |-> 1, step |-> "read",
                   outcome |-> "none"]
  <1>1. call' = [call EXCEPT ![k] = n] /\ call[k] = Idle /\ UNCHANGED <<rows, sent, old>>
    BY DEF Start
  <1>2. CallInv(n)'
    <2>1. n \in Operation
      BY DEF Operation, Reading, Outcome
    <2>2. PICK len \in 1..3 : len = Len(Stages(kind))
      BY StagesAreStages
    <2>3. ~(n.at > Len(Stages(n.kind)))
      BY <2>2
    <2>4. Typed(n)'
      BY <2>1, <2>3 DEF Typed
    <2>5. Rests(n)'
      BY StagesAreStages DEF Rests
    <2>6. Stands(n)' /\ Cause(n)'
      BY DEF Stands, Cause
    <2> QED
      BY <2>4, <2>5, <2>6 DEF CallInv
  <1>3. RowsGrow
    BY <1>1 DEF RowsGrow
  <1>4. ASSUME NEW j \in Call PROVE CallInv(call[j])'
    <2>1. CASE j = k
      <3>1. call'[j] = n
        BY <1>1, <2>1 DEF IInv
      <3> QED
        BY <1>2, <3>1 DEF CallInv, Typed, Rests, Stands, Stage_, Cause, Row, Found
    <2>2. CASE j # k
      BY <1>1, <2>2 DEF IInv, CallInv, Typed, Rests, Stands, Stage_, Cause, Row, Found
    <2> QED
      BY <2>1, <2>2
  <1>5. ASSUME NEW w \in sent' PROVE SentInv(w, call[w.call])'
    <2>1. w \in sent /\ w.call \in Call /\ SentInv(w, call[w.call])
      BY <1>1 DEF IInv
    <2>2. w.call # k
      BY <1>1, <2>1 DEF SentInv
    <2> QED
      BY <1>1, <2>1, <2>2 DEF SentInv, IInv
  <1> QED
    BY <1>1, <1>4, <1>5, StillKeepsRows DEF IInv

LEMMA ReadKeepsInv ==
    ASSUME IInv, NEW k \in Call, Read(k)
    PROVE  IInv'
  <1>1. call[k].step = "read" /\ UNCHANGED <<rows, sent, old>>
    BY DEF Read
  <1>2. RowsGrow /\ call[k].step \in Reading
    BY <1>1 DEF RowsGrow, Reading
  <1>3. CASE Found(Here(k), call[k].session)
    BY <1>1, <1>2, <1>3, ComparedIsSound, QuietStep DEF Read
  <1>4. CASE Ends(k, "failed")
    BY <1>1, <1>2, <1>4, FailsIsSound, QuietStep
  <1>5. CASE call[k].kind # "verify" /\ Becomes(k, AfterAbsence(k))
    <2>1. AfterAbsence(k) \in {"put", "witness"}
      BY DEF AfterAbsence
    <2>2. PICK step \in {"put", "witness"} : step = AfterAbsence(k)
      BY <2>1
    <2>3. ASSUME NEW o, o = call[k] PROVE Stands(Stepped(o, step))'
      <3>1. o \in Operation /\ o.kind # "verify" /\ Here(k) = Stage_(o)
        BY <1>2, <1>5, <2>3, Running DEF CallInv, Typed
      <3>2. LET n == Stepped(o, step)
            IN  n.step = step /\ n.kind = o.kind /\ n.mode = o.mode /\ n.session = o.session
                /\ n.at = o.at
        BY <3>1 DEF Stepped, Operation
      <3>3. CASE step = "put" /\ ~(Stage_(o) = "protocol" /\ o.mode = "disposition")
        BY <3>1, <3>2, <3>3 DEF Stands, Stage_
      <3>4. CASE step = "witness" /\ Stage_(o) = "protocol"
        BY <3>1, <3>2, <3>4 DEF Stands, Stage_
      <3> QED
        BY <2>2, <2>3, <3>1, <3>3, <3>4 DEF AfterAbsence
    <2>4. MovesSoundly(k)
      BY <1>1, <1>2, <1>5, <2>2, <2>3, BecomesIsSound DEF Reading
    <2> QED
      BY <1>1, <2>4, QuietStep
  <1> QED
    BY <1>3, <1>4, <1>5 DEF Read

LEMMA ReadWitnessKeepsInv ==
    ASSUME IInv, NEW k \in Call, ReadWitness(k)
    PROVE  IInv'
  <1>1. call[k].step = "witness" /\ UNCHANGED <<rows, sent, old>>
    BY DEF ReadWitness
  <1>2. RowsGrow /\ call[k].step \in Reading
    BY <1>1 DEF RowsGrow, Reading
  <1>3. PICK step \in {"put", "recheck"} :
           /\ Becomes(k, step)
           /\ step = "recheck" <=> Found("session", call[k].session)
    BY DEF ReadWitness
  <1>4. ASSUME NEW o, o = call[k] PROVE Stands(Stepped(o, step))'
    <2>1. o \in Operation /\ o.kind # "verify" /\ Stage_(o) = "protocol" /\ o.session \in Session
      BY <1>1, <1>2, <1>4, Running DEF CallInv, Typed, Stands
    <2>2. LET n == Stepped(o, step)
          IN  n.step = step /\ n.kind = o.kind /\ n.mode = o.mode /\ n.session = o.session
              /\ n.at = o.at
      BY <2>1 DEF Stepped, Operation
    <2>3. CASE step = "recheck"
      <3>1. Found("session", o.session)'
        BY <1>1, <1>3, <1>4, <2>3 DEF Found, Row
      <3> QED
        BY <2>1, <2>2, <2>3, <3>1 DEF Stands, Stage_
    <2>4. CASE step = "put"
      <3>1. o.session \notin old
        <4>1. ~Found("session", o.session)
          BY <1>3, <1>4, <2>4
        <4>2. Value("session", o.session, None) # Absent
          BY <2>1, ValueIsARow DEF Stage
        <4> QED
          BY <4>1, <4>2 DEF IInv, OldWitnessed, Found
      <3> QED
        BY <1>1, <2>1, <2>2, <2>4, <3>1 DEF Stands, Stage_
    <2> QED
      BY <2>3, <2>4
  <1>5. MovesSoundly(k)
    BY <1>1, <1>2, <1>3, <1>4, BecomesIsSound DEF Reading
  <1> QED
    BY <1>1, <1>5, QuietStep

\* A witness that stands alone is an old session's, or another's.
LEMMA RecheckKeepsInv ==
    ASSUME IInv, NEW k \in Call, Recheck(k)
    PROVE  IInv'
  <1>1. call[k].step = "recheck" /\ UNCHANGED <<rows, sent, old>>
    BY DEF Recheck
  <1>2. RowsGrow /\ call[k].step \in Reading
    BY <1>1 DEF RowsGrow, Reading
  <1>3. /\ call[k] \in Operation /\ Here(k) = "protocol" /\ Found("session", call[k].session)
        /\ call[k].session \in Session
    BY <1>1, <1>2, Running DEF CallInv, Typed, Stands
  <1>4. CASE Found("protocol", call[k].session)
    BY <1>1, <1>2, <1>3, <1>4, ComparedIsSound, QuietStep DEF Recheck
  <1>5. CASE ~Found("protocol", call[k].session)
    <2>1. ASSUME NEW o, o = call[k] PROVE Cause(Ended(o, "conflict"))'
      <3>1. LET n == Ended(o, "conflict")
            IN  n.outcome = "conflict" /\ n.session = o.session /\ n.mode = o.mode
        BY <1>3, <2>1 DEF Ended, Operation
      <3>2. o.session \in old \/ Row("session", o.session).session # o.session
        <4>1. SUFFICES ASSUME o.session \notin old, Row("session", o.session).session = o.session
                       PROVE  FALSE
          OBVIOUS
        <4>2. Row("session", o.session) = Value("session", o.session, None)
          <5>1. PICK r \in Session, mode \in Mode : Row("session", o.session) = Value("session", r, mode)
            BY <1>3, <2>1 DEF IInv, RowsNameSessions
          <5> QED
            BY <4>1, <5>1 DEF Value
        <4>3. PICK mode \in Mode : Row("protocol", o.session) = Value("protocol", o.session, mode)
          BY <1>3, <2>1, <4>1, <4>2 DEF IInv, WitnessBehindPin
        <4> QED
          BY <1>3, <1>5, <2>1, <4>3, ValueIsARow DEF Found, Stage
      <3> QED
        BY <1>1, <1>3, <2>1, <3>1, <3>2 DEF Cause, Found, Row
    <2>2. MovesSoundly(k)
      BY <1>1, <1>2, <1>5, <2>1, EndsIsSound DEF Recheck
    <2> QED
      BY <1>1, <2>2, QuietStep
  <1> QED
    BY <1>4, <1>5

LEMMA RereadKeepsInv ==
    ASSUME IInv, NEW k \in Call, Reread(k)
    PROVE  IInv'
  <1>1. call[k].step = "reread" /\ UNCHANGED <<rows, sent, old>>
    BY DEF Reread
  <1>2. RowsGrow /\ call[k].step \in Reading
    BY <1>1 DEF RowsGrow, Reading
  <1>3. CASE Found(Here(k), call[k].session)
    BY <1>1, <1>2, <1>3, ComparedIsSound, QuietStep DEF Reread
  <1>4. CASE ~Found(Here(k), call[k].session)
    BY <1>1, <1>2, <1>4, FailsIsSound, QuietStep DEF Reread
  <1> QED
    BY <1>3, <1>4

LEMMA ReadFailsKeepsInv ==
    ASSUME IInv, NEW k \in Call, ReadFails(k)
    PROVE  IInv'
  <1>1. RowsGrow /\ UNCHANGED <<rows, sent, old>>
    BY DEF RowsGrow, ReadFails
  <1> QED
    BY <1>1, FailsIsSound, QuietStep DEF ReadFails

LEMMA ReplyLostKeepsInv ==
    ASSUME IInv, NEW k \in Call, ReplyLost(k)
    PROVE  IInv'
  <1>1. RowsGrow /\ UNCHANGED <<rows, old>> /\ sent' \subseteq sent
    BY DEF RowsGrow, ReplyLost
  <1> QED
    BY <1>1, AfterErrorIsSound, QuietStep DEF ReplyLost

LEMMA ConflictKeepsInv ==
    ASSUME IInv, NEW w \in sent, Conflict(w)
    PROVE  IInv'
  <1>1. RowsGrow /\ UNCHANGED <<rows, old>> /\ sent' \subseteq sent /\ w.call \in Call
    BY DEF RowsGrow, Conflict, IInv
  <1>2. CASE Awaited(w)
    BY <1>1, <1>2, RereadsIsSound, AfterErrorIsSound, QuietStep DEF Conflict, Awaited
  <1>3. CASE UNCHANGED call
    BY <1>1, <1>3, StillKeepsInv
  <1> QED
    BY <1>2, <1>3 DEF Conflict

LEMMA PutKeepsInv ==
    ASSUME IInv, NEW k \in Call, Put(k)
    PROVE  IInv'
  <1>1. /\ call[k].step = "put" /\ UNCHANGED <<rows, old>> /\ Becomes(k, "sent")
        /\ sent' = sent \cup {[call |-> k, stage |-> Here(k)]}
    BY DEF Put
  <1>2. RowsGrow
    BY <1>1 DEF RowsGrow
  <1>3. PICK o \in Operation : o = call[k]
    BY <1>1, Running DEF CallInv, Typed
  <1>4. /\ o # Idle /\ CallInv(o) /\ o.kind # "verify" /\ o.at \in DOMAIN Stages(o.kind)
        /\ Stage_(o) = Here(k) /\ Here(k) \in Stage
        /\ Stage_(o) = "protocol" /\ o.mode = "disposition" => o.session \notin old
    BY <1>1, <1>3, Running DEF CallInv, Stands
  <1>5. LET n == Stepped(o, "sent")
        IN  n.step = "sent" /\ n.kind = o.kind /\ n.mode = o.mode /\ n.session = o.session
            /\ n.at = o.at /\ n # Idle
    BY <1>3 DEF Stepped, Operation, Idle
  <1>6. Stands(Stepped(o, "sent"))'
    BY <1>1, <1>4, <1>5 DEF Stands, Stage_
  <1>7. CallInv(Stepped(o, "sent"))'
    <2>1. CallInv(o)'
      BY <1>1, <1>2, <1>4, GrowingKeepsCalls
    <2>2. o.step # "done"
      BY <1>1, <1>3
    <2> QED
      BY <1>4, <1>6, <2>1, <2>2, SteppedIsSound
  <1>8. call' = [call EXCEPT ![k] = Stepped(o, "sent")]
    BY <1>1, <1>3 DEF Becomes, Stepped
  <1>9. ASSUME NEW j \in Call PROVE CallInv(call[j])'
    <2>1. CASE j = k
      <3>1. call'[j] = Stepped(o, "sent")
        BY <1>8, <2>1 DEF IInv
      <3> QED
        BY <1>7, <3>1 DEF CallInv, Typed, Rests, Stands, Stage_, Cause, Row, Found
    <2>2. CASE j # k
      BY <1>1, <1>8, <2>2 DEF IInv, CallInv, Typed, Rests, Stands, Stage_, Cause, Row, Found
    <2> QED
      BY <2>1, <2>2
  <1>10. ASSUME NEW w \in sent' PROVE SentInv(w, call[w.call])'
    <2>1. CASE w \in sent /\ w.call # k
      BY <1>1, <1>8, <2>1 DEF IInv, SentInv
    <2>2. CASE w \in sent /\ w.call = k
      <3>1. SentInv(w, o) /\ call'[w.call] = Stepped(o, "sent")
        BY <1>3, <1>8, <2>2 DEF IInv
      <3> QED
        BY <1>1, <1>5, <3>1 DEF SentInv
    <2>3. CASE w = [call |-> k, stage |-> Here(k)]
      <3>1. call'[w.call] = Stepped(o, "sent")
        BY <1>8, <2>3 DEF IInv
      <3>2. o.at <= o.at
        BY <1>3 DEF Operation
      <3> QED
        BY <1>1, <1>4, <1>5, <2>3, <3>1, <3>2 DEF SentInv, Stage_
    <2> QED
      BY <1>1, <2>1, <2>2, <2>3
  <1>11. (sent \subseteq [call : Call, stage : Stage])' /\ (DOMAIN call = Call)'
    BY <1>1, <1>4, <1>8 DEF IInv
  <1> QED
    BY <1>1, <1>9, <1>10, <1>11, StillKeepsRows DEF IInv

\* A row that is created is its caller's, behind the rows that come before it.
LEMMA CreateKeepsRows ==
    ASSUME IInv, NEW w \in sent, Create(w)
    PROVE  /\ RowsGrow /\ (rows \in [Keys -> Witness])' /\ (old \subseteq Session)'
           /\ OldWitnessed' /\ OldSessionStaysLegacy' /\ WitnessBehindPin' /\ RowsNameSessions'
           /\ rows'[NewKey(w)] = Value(w.stage, call[w.call].session, call[w.call].mode)
  <1>1. PICK o : o = call[w.call]
    OBVIOUS
  <1>2. /\ w.call \in Call /\ w.stage \in Stage /\ o # Idle /\ SentInv(w, o) /\ CallInv(o)
        /\ o.session \in Session /\ o.mode \in Mode /\ o.kind \in Kind
    BY <1>1 DEF IInv, SentInv, CallInv, Typed, Operation
  <1> DEFINE key == Key(w.stage, o.session)
             value == Value(w.stage, o.session, o.mode)
  <1>3. PICK k \in Keys, v \in Witness : k = key /\ v = value /\ v # Absent
    BY <1>2, ValueIsARow
  <1>4. rows[k] = Absent /\ rows' = [rows EXCEPT ![k] = v] /\ old' = old
    BY <1>1, <1>3 DEF Create, Creates, NewKey
  <1>5. RowsGrow /\ rows'[k] = v /\ (rows \in [Keys -> Witness])'
    BY <1>3, <1>4 DEF RowsGrow, IInv
  <1>6. \A stage \in Stage, s \in Session : Key(stage, s) \in Keys
    BY ValueIsARow
  <1>7. \A stage \in Stage, s \in Session :
           Key(stage, s) # k => Row(stage, s)' = Row(stage, s)
    BY <1>4, <1>6 DEF Row, IInv
  <1>8. \A stage \in Stage, s \in Session :
           Key(stage, s) = k => stage = w.stage /\ Row(stage, s)' = v
    BY <1>3, <1>5 DEF Row, Key
  <1>9. \A stage \in Stage, s \in Session : Found(stage, s) => Row(stage, s)' = Row(stage, s)
    BY <1>5, <1>6 DEF RowsGrow, Found, Row
  <1>10. OldWitnessed'
    <2> SUFFICES ASSUME NEW s \in old PROVE Row("session", s)' = Value("session", s, None)
      BY <1>4 DEF OldWitnessed
    <2>1. s \in Session /\ Row("session", s) = Value("session", s, None)
      BY DEF IInv, OldWitnessed
    <2> QED
      BY <1>9, <2>1, ValueIsARow DEF Found, Stage
  <1>11. OldSessionStaysLegacy'
    <2> SUFFICES ASSUME NEW s \in old,
                        Row("protocol", s)' = Value("protocol", s, "disposition")
                 PROVE  FALSE
      BY <1>4 DEF OldSessionStaysLegacy
    <2>1. s \in Session /\ Row("protocol", s) # Value("protocol", s, "disposition")
      BY DEF IInv, OldSessionStaysLegacy
    <2>2. w.stage = "protocol" /\ v = Value("protocol", s, "disposition")
      BY <1>7, <1>8, <2>1 DEF Stage
    <2>3. o.session = s /\ o.mode = "disposition"
      BY <1>3, <2>2 DEF Value
    <2> QED
      BY <1>2, <2>2, <2>3 DEF SentInv
  <1>12. WitnessBehindPin'
    <2> SUFFICES ASSUME NEW s \in Session \ old, Row("session", s)' = Value("session", s, None)
                 PROVE  \E mode \in Mode : Row("protocol", s)' = Value("protocol", s, mode)
      BY <1>4 DEF WitnessBehindPin
    <2>1. PICK mode \in Mode : Row("protocol", s) = Value("protocol", s, mode)
      <3>1. CASE Key("session", s) # k
        BY <1>7, <3>1 DEF IInv, WitnessBehindPin, Stage
      <3>2. CASE Key("session", s) = k
        <4>1. w.stage = "session" /\ v = Value("session", s, None)
          BY <1>8, <3>2 DEF Stage
        <4>2. o.session = s
          BY <1>3, <4>1 DEF Value
        <4>3. PICK i \in DOMAIN Stages(o.kind) : i <= o.at /\ Stages(o.kind)[i] = "session"
          BY <1>2, <4>1 DEF SentInv
        <4>4. o.kind = "scope"
          BY <1>2, <4>3, StagesAreStages DEF SentInv
        <4>5. i = 3 /\ 1 \in DOMAIN Stages(o.kind) /\ Stages(o.kind)[1] = "protocol"
          BY <1>2, <4>3, <4>4, StagesAreStages
        <4>6. 1 < o.at
          BY <1>2, <4>3, <4>5 DEF CallInv, Typed, Operation
        <4> QED
          BY <1>2, <4>2, <4>5, <4>6 DEF CallInv, Rests
      <3> QED
        BY <3>1, <3>2
    <2> QED
      BY <1>9, <2>1, ValueIsARow DEF Found, Stage
  <1>13. RowsNameSessions'
    <2> SUFFICES ASSUME NEW s \in Session, NEW stage \in {"protocol", "session"}, Found(stage, s)'
                 PROVE  \E r \in Session, mode \in Mode : Row(stage, s)' = Value(stage, r, mode)
      BY DEF RowsNameSessions
    <2>1. CASE Key(stage, s) # k
      BY <1>7, <2>1 DEF IInv, RowsNameSessions, Found, Stage
    <2>2. CASE Key(stage, s) = k
      BY <1>2, <1>3, <1>8, <2>2 DEF Stage
    <2> QED
      BY <2>1, <2>2
  <1> QED
    BY <1>1, <1>3, <1>4, <1>5, <1>10, <1>11, <1>12, <1>13 DEF IInv, NewKey

LEMMA CreateKeepsInv ==
    ASSUME IInv, NEW w \in sent, Create(w)
    PROVE  IInv'
  <1>1. RowsGrow /\ UNCHANGED old /\ sent' \subseteq sent /\ w.call \in Call
    BY CreateKeepsRows DEF Create, IInv
  <1>2. CASE Awaited(w)
    <2>1. MovesSoundly(w.call)
      <3>1. CASE Passes(w.call)
        <4>1. rows'[Key(Here(w.call), call[w.call].session)] = Wanted(w.call)
          BY <1>2, CreateKeepsRows DEF Awaited, Wanted, NewKey
        <4> QED
          BY <1>1, <1>2, <3>1, <4>1, PassesIsSound DEF Awaited
      <3>2. CASE AfterError(w.call)
        BY <1>1, <1>2, <3>2, AfterErrorIsSound DEF Awaited
      <3> QED
        BY <1>2, <3>1, <3>2 DEF Create
    <2>2. PICK n : /\ call' = [call EXCEPT ![w.call] = n] /\ CallInv(n)'
                   /\ Continues(call[w.call], n)
      BY <2>1 DEF MovesSoundly
    <2> QED
      BY <1>1, <2>2, MoveKeepsCalls, CreateKeepsRows DEF IInv
  <1>3. CASE UNCHANGED call
    <2>1. ASSUME NEW j \in Call PROVE CallInv(call[j])'
      <3>1. PICK o : o = call[j]
        OBVIOUS
      <3>2. CallInv(o)
        BY <3>1 DEF IInv
      <3>3. CallInv(o)'
        BY <1>1, <3>2, GrowingKeepsCalls
      <3> QED
        BY <1>3, <3>1, <3>3 DEF CallInv, Typed, Rests, Stands, Stage_, Cause, Row, Found
    <2>2. \A x \in sent' : SentInv(x, call[x.call])'
      BY <1>1, <1>3 DEF IInv, SentInv
    <2> QED
      BY <1>1, <1>3, <2>1, <2>2, CreateKeepsRows DEF IInv
  <1> QED
    BY <1>2, <1>3 DEF Create

-----------------------------------------------------------------------------
(* The invariant holds.                                                    *)

LEMMA InitHasInv ==
    ASSUME Init
    PROVE  IInv
  <1>1. PICK tenants \in SUBSET Tenant : \E bound \in SUBSET {s \in Session : TenantOf[s] \in tenants} :
          /\ \A t, u \in tenants : TenantToken[t] = TenantToken[u] => t = u
          /\ \A s, r \in bound : SessionToken[s] = SessionToken[r] => s = r
          /\ old = bound
          /\ rows = [key \in Keys |->
                IF \E t \in tenants : key.stage = "tenant" /\ TenantToken[t] = key.tenant
                THEN [Absent EXCEPT !.tenant =
                         CHOOSE t \in tenants : TenantToken[t] = key.tenant]
                ELSE IF \E s \in bound : Key("session", s) = key
                THEN LET s == CHOOSE s \in bound : Key("session", s) = key
                     IN  Value("session", s, None)
                ELSE Absent]
    BY DEF Init
  <1>2. /\ \A s, r \in old : SessionToken[s] = SessionToken[r] => s = r
        /\ old \subseteq Session
        /\ rows = [key \in Keys |->
              IF \E t \in tenants : key.stage = "tenant" /\ TenantToken[t] = key.tenant
              THEN [Absent EXCEPT !.tenant =
                       CHOOSE t \in tenants : TenantToken[t] = key.tenant]
              ELSE IF \E s \in old : Key("session", s) = key
              THEN LET s == CHOOSE s \in old : Key("session", s) = key
                   IN  Value("session", s, None)
              ELSE Absent]
    BY <1>1
  <1>3. ASSUME NEW key \in Keys
        PROVE  /\ rows[key] \in Witness
               /\ key.stage = "protocol" => rows[key] = Absent
               /\ key.stage = "session" =>
                    \/ \E s \in old : Key("session", s) = key /\ rows[key] = Value("session", s, None)
                    \/ rows[key] = Absent /\ ~\E s \in old : Key("session", s) = key
    <2>1. CASE \E t \in tenants : key.stage = "tenant" /\ TenantToken[t] = key.tenant
      <3>1. rows[key] = [Absent EXCEPT !.tenant = CHOOSE t \in tenants : TenantToken[t] = key.tenant]
        BY <1>2, <2>1
      <3>2. (CHOOSE t \in tenants : TenantToken[t] = key.tenant) \in Tenant
        BY <2>1
      <3> QED
        BY <2>1, <3>1, <3>2 DEF Absent, Witness
    <2>2. CASE /\ ~\E t \in tenants : key.stage = "tenant" /\ TenantToken[t] = key.tenant
               /\ \E s \in old : Key("session", s) = key
      <3>1. PICK r \in old : r = CHOOSE s \in old : Key("session", s) = key
        BY <2>2
      <3>2. Key("session", r) = key
        BY <2>2, <3>1
      <3>3. rows[key] = Value("session", r, None)
        <4>1. rows[key] = Value("session", CHOOSE s \in old : Key("session", s) = key, None)
          BY <1>2, <2>2
        <4> QED
          BY <3>1, <4>1
      <3>4. rows[key] \in Witness
        <4>1. r \in Session /\ "session" \in Stage /\ None \in Mode \cup {None}
          BY <1>2 DEF Stage
        <4> QED
          BY <3>3, <4>1, ValueIsARow
      <3>5. key.stage = "session"
        BY <3>2 DEF Key
      <3> QED
        BY <3>2, <3>3, <3>4, <3>5
    <2>3. CASE /\ ~\E t \in tenants : key.stage = "tenant" /\ TenantToken[t] = key.tenant
               /\ ~\E s \in old : Key("session", s) = key
      <3>1. rows[key] = Absent
        BY <1>2, <2>3
      <3> QED
        BY <2>3, <3>1 DEF Absent, Witness
    <2> QED
      BY <2>1, <2>2, <2>3
  <1>4. \A s \in Session : /\ Key("protocol", s) \in Keys /\ Key("session", s) \in Keys
                           /\ Key("protocol", s).stage = "protocol"
                           /\ Key("session", s).stage = "session"
    BY ValueIsARow DEF Key, Stage
  <1>5. \A s \in Session : ~Found("protocol", s)
    BY <1>3, <1>4 DEF Found, Row
  <1>6. rows \in [Keys -> Witness]
    BY <1>2, <1>3
  <1>7. OldWitnessed
    <2> SUFFICES ASSUME NEW s \in old PROVE rows[Key("session", s)] = Value("session", s, None)
      BY DEF OldWitnessed, Row
    <2>1. PICK r \in old : /\ Key("session", r) = Key("session", s)
                           /\ rows[Key("session", s)] = Value("session", r, None)
      BY <1>2, <1>3, <1>4
    <2>2. r = s
      BY <1>2, <2>1 DEF Key
    <2> QED
      BY <2>1, <2>2
  <1>8. OldSessionStaysLegacy
    BY <1>2, <1>5, ValueIsARow DEF OldSessionStaysLegacy, Found, Stage, Mode
  <1>9. WitnessBehindPin
    <2> SUFFICES ASSUME NEW s \in Session \ old,
                        rows[Key("session", s)] = Value("session", s, None)
                 PROVE  FALSE
      BY DEF WitnessBehindPin, Row
    <2>1. PICK r \in old : rows[Key("session", s)] = Value("session", r, None)
      BY <1>3, <1>4, ValueIsARow DEF Stage
    <2> QED
      BY <2>1 DEF Value
  <1>10. RowsNameSessions
    <2> SUFFICES ASSUME NEW s \in Session, Found("session", s)
                 PROVE  \E r \in Session, mode \in Mode : Row("session", s) = Value("session", r, mode)
      BY <1>5 DEF RowsNameSessions
    <2>1. PICK r \in old : rows[Key("session", s)] = Value("session", r, None)
      BY <1>3, <1>4 DEF Found, Row
    <2>2. Value("session", r, "legacy") = Value("session", r, None)
      BY DEF Value
    <2> QED
      BY <1>2, <2>1, <2>2 DEF Row, Mode
  <1>11. \A k \in Call : call[k] = Idle
    BY DEF Init
  <1> QED
    BY <1>2, <1>6, <1>7, <1>8, <1>9, <1>10, <1>11 DEF Init, IInv, CallInv

LEMMA NextKeepsInv ==
    ASSUME IInv, [Next]_vars
    PROVE  IInv'
  <1>1. CASE UNCHANGED vars
    BY <1>1, StillKeepsInv DEF vars
  <1>2. ASSUME NEW k \in Call,
               Read(k) \/ ReadWitness(k) \/ Recheck(k) \/ Put(k) \/ Reread(k) \/ ReadFails(k)
                  \/ ReplyLost(k)
        PROVE  IInv'
    BY <1>2, ReadKeepsInv, ReadWitnessKeepsInv, RecheckKeepsInv, PutKeepsInv, RereadKeepsInv,
       ReadFailsKeepsInv, ReplyLostKeepsInv
  <1> QED
    BY <1>1, <1>2, StartKeepsInv, CreateKeepsInv, ConflictKeepsInv DEF Next

LEMMA InvHolds == Spec => []IInv
  BY InitHasInv, NextKeepsInv, PTL DEF Spec

LEMMA InvMeans ==
    ASSUME IInv
    PROVE  TypeOK /\ BoundIsDurable /\ OldSessionStaysLegacy /\ RefusedForCause
  <1>1. TypeOK
    BY DEF IInv, TypeOK, CallInv, Typed
  <1>2. BoundIsDurable
    <2> SUFFICES ASSUME NEW k \in Call, Bound(k), NEW i \in DOMAIN Steps(k)
                 PROVE  Row(Steps(k)[i], call[k].session) =
                            Value(Steps(k)[i], call[k].session, call[k].mode)
      BY DEF BoundIsDurable
    <2>1. PICK o \in Operation : o = call[k] /\ o.outcome = "bound" /\ Typed(o) /\ Rests(o)
      BY DEF IInv, CallInv, Bound, Idle, Typed
    <2>2. o.kind \in Kind /\ o.at \in 1..4 /\ o.at > Len(Stages(o.kind)) /\ i \in DOMAIN Stages(o.kind)
      BY <2>1 DEF Typed, Operation, Steps
    <2>3. PICK len \in 1..3 : len = Len(Stages(o.kind))
      BY <2>2, StagesAreStages
    <2>4. i \in 1..len
      BY <2>2, <2>3, StagesAreStages
    <2>5. i < o.at
      BY <2>2, <2>3, <2>4
    <2> QED
      BY <2>1, <2>2, <2>5 DEF Rests, Steps
  <1>3. RefusedForCause
    <2> SUFFICES ASSUME NEW k \in Call PROVE Cause(call[k])
      BY DEF RefusedForCause, Cause, Steps
    <2>1. CASE call[k] = Idle
      BY <2>1 DEF Cause, Idle
    <2>2. CASE call[k] # Idle
      BY <2>2 DEF IInv, CallInv
    <2> QED
      BY <2>1, <2>2
  <1> QED
    BY <1>1, <1>2, <1>3 DEF IInv

-----------------------------------------------------------------------------
(* Theorems.                                                               *)

\* Every call is somewhere in the protocol of its kind, and is bound when it has
\* passed the last of its rows.
THEOREM TypeCorrect == Spec => []TypeOK
  BY InvHolds, InvMeans, PTL

\* What a successful bind established is in its rows for good: one protocol per
\* session, one identity per name.
THEOREM BoundForGood == Spec => []BoundIsDurable
  BY InvHolds, InvMeans, PTL

\* No session that an older binary bound is pinned to the disposition protocol.
THEOREM OldStaysLegacy == Spec => []OldSessionStaysLegacy
  BY InvHolds, InvMeans, PTL

\* A refusal names a conflict or a collision that is really there.
THEOREM RefusalsHaveCause == Spec => []RefusedForCause
  BY InvHolds, InvMeans, PTL

-----------------------------------------------------------------------------
(* No call waits for another, or goes back: each has a bounded number of    *)
(* steps, whatever the others do.                                          *)

StepRank ==
    [idle |-> 0, read |-> 1, witness |-> 2, recheck |-> 3, put |-> 4, sent |-> 5, reread |-> 6, done |-> 7]

\* How far a call has come: the row it is at, and its step there.
Rank(o) == 8 * o.at + StepRank[o.step]
LastRank == 39

Advances(k) ==
    /\ Rank(call[k]) < Rank(call'[k]) /\ Rank(call'[k]) <= LastRank
    /\ \A j \in Call \ {k} : call'[j] = call[j]

\* One step of one call.
LEMMA Advance ==
    ASSUME NEW k \in Call, NEW n, call' = [call EXCEPT ![k] = n], DOMAIN call = Call,
           call[k] \in Operation \/ call[k] = Idle, n \in Operation, call[k].at <= n.at,
           call[k].at = n.at => StepRank[call[k].step] < StepRank[n.step]
    PROVE  Advances(k)
<1> DEFINE o == call[k]
<1>1. call'[k] = n /\ \A j \in Call \ {k} : call'[j] = call[j]
  OBVIOUS
<1>2. o.at \in 1..4 /\ n.at \in 1..4
  BY DEF Operation, Idle
<1>3. \A step \in {"idle", "read", "witness", "recheck", "put", "sent", "reread", "done"} : StepRank[step] \in 0..7
  BY DEF StepRank
<1>4. StepRank[o.step] \in 0..7 /\ StepRank[n.step] \in 0..7
  BY <1>3 DEF Operation, Idle, Reading
<1>5. Rank(o) = 8 * o.at + StepRank[o.step] /\ Rank(n) = 8 * n.at + StepRank[n.step]
  BY DEF Rank
<1>6. \A a, b \in 1..4, x, y \in 0..7 :
          a <= b /\ (a = b => x < y) => 8 * a + x < 8 * b + y /\ 8 * b + y <= 39
  OBVIOUS
<1>7. o.at = n.at => StepRank[o.step] < StepRank[n.step]
  OBVIOUS
<1>8. PICK a \in 1..4, b \in 1..4, x \in 0..7, y \in 0..7 :
          a = o.at /\ b = n.at /\ x = StepRank[o.step] /\ y = StepRank[n.step]
  <2> HIDE DEF o
  <2> QED
    BY <1>2, <1>4
<1>9. a <= b /\ (a = b => x < y)
  BY <1>7, <1>8
<1>10. 8 * a + x < 8 * b + y /\ 8 * b + y <= 39
  BY <1>6, <1>9
<1>11. Rank(o) = 8 * a + x /\ Rank(n) = 8 * b + y
  BY <1>5, <1>8
<1>12. Rank(call[k]) < Rank(call'[k]) /\ Rank(call'[k]) <= LastRank
  BY <1>1, <1>10, <1>11 DEF LastRank
<1> QED
  BY <1>1, <1>12 DEF Advances

\* A call that is under way, at a row it has not passed.
LEMMA UnderWay ==
    ASSUME IInv, NEW k \in Call, call[k].step \notin {"idle", "done"}
    PROVE  /\ DOMAIN call = Call /\ call[k] \in Operation /\ call[k].at <= Len(Steps(k)) /\ Len(Steps(k)) <= 3
           /\ call[k].at \in Nat
<1>1. call[k] \in Operation /\ call[k].outcome = "none" /\ Typed(call[k])
  BY DEF IInv, CallInv, Typed, Idle
<1>2. ~(call[k].at > Len(Steps(k)))
  BY <1>1 DEF Typed, Steps
<1>3. Len(Steps(k)) \in 1..3 /\ call[k].at \in 1..4
  BY <1>1, StagesAreStages DEF Operation, Steps
<1>4. PICK at \in 1..4, len \in 1..3 : at = call[k].at /\ len = Len(Steps(k))
  BY <1>3
<1>5. at <= len /\ len <= 3 /\ at \in Nat
  BY <1>2, <1>4
<1>6. DOMAIN call = Call
  BY DEF IInv
<1> QED
  BY <1>1, <1>4, <1>5, <1>6

LEMMA BecomesAdvances ==
    ASSUME IInv, NEW k \in Call, call[k].step \notin {"idle", "done"},
           NEW step \in Reading \cup {"put", "sent"}, Becomes(k, step), StepRank[call[k].step] < StepRank[step]
    PROVE  Advances(k)
<1> DEFINE n == [call[k] EXCEPT !.step = step]
<1>1. DOMAIN call = Call /\ call[k] \in Operation
  BY UnderWay
<1>2. call' = [call EXCEPT ![k] = n]
  BY DEF Becomes
<1>3. n \in Operation /\ n.at = call[k].at /\ n.step = step
  BY <1>1 DEF Operation
<1>4. call[k].at <= n.at
  BY <1>1, <1>3 DEF Operation
<1>5. call[k].at = n.at => StepRank[call[k].step] < StepRank[n.step]
  BY <1>3
<1> HIDE DEF n
<1> QED
  BY <1>1, <1>2, <1>3, <1>4, <1>5, Advance

LEMMA EndsAdvances ==
    ASSUME IInv, NEW k \in Call, call[k].step \notin {"idle", "done"}, NEW outcome \in Outcome, Ends(k, outcome)
    PROVE  Advances(k)
<1> DEFINE n == [call[k] EXCEPT !.step = "done", !.outcome = outcome]
<1>1. DOMAIN call = Call /\ call[k] \in Operation
  BY UnderWay
<1>2. call' = [call EXCEPT ![k] = n]
  BY DEF Ends
<1>3. n \in Operation /\ n.at = call[k].at /\ n.step = "done"
  BY <1>1 DEF Operation
<1>4. call[k].at <= n.at
  BY <1>1, <1>3 DEF Operation
<1>5. StepRank[call[k].step] < StepRank["done"]
  BY <1>1 DEF Operation, StepRank, Reading
<1>6. call[k].at = n.at => StepRank[call[k].step] < StepRank[n.step]
  BY <1>3, <1>5
<1> HIDE DEF n
<1> QED
  BY <1>1, <1>2, <1>3, <1>4, <1>6, Advance

LEMMA PassesAdvances ==
    ASSUME IInv, NEW k \in Call, call[k].step \notin {"idle", "done"}, Passes(k)
    PROVE  Advances(k)
<1>1. PICK last \in BOOLEAN : last = (call[k].at = Len(Steps(k)))
  OBVIOUS
<1> DEFINE n == [call[k] EXCEPT !.at = call[k].at + 1, !.step = IF last THEN "done" ELSE "read",
                                !.outcome = IF last THEN "bound" ELSE "none"]
<1>2. /\ DOMAIN call = Call /\ call[k] \in Operation /\ call[k].at \in Nat /\ call[k].at <= 3
  BY UnderWay
<1>3. call' = [call EXCEPT ![k] = n]
  BY <1>1 DEF Passes
<1>4. call[k].at + 1 \in 1..4
  BY <1>2 DEF Operation
<1>5. n \in Operation /\ n.at = call[k].at + 1
  BY <1>2, <1>4 DEF Operation, Reading, Outcome
<1>6. call[k].at <= n.at /\ call[k].at # n.at
  BY <1>2, <1>5
<1> HIDE DEF n
<1> QED
  BY <1>2, <1>3, <1>5, <1>6, Advance

LEMMA ComparedAdvances ==
    ASSUME IInv, NEW k \in Call, call[k].step \notin {"idle", "done"}, Compared(k)
    PROVE  Advances(k)
BY PassesAdvances, EndsAdvances DEF Compared, Outcome

LEMMA AfterErrorAdvances ==
    ASSUME IInv, NEW k \in Call, call[k].step = "sent", AfterError(k)
    PROVE  Advances(k)
<1>1. StepRank["sent"] < StepRank["reread"] /\ "reread" \in Reading /\ "failed" \in Outcome
  BY DEF StepRank, Reading, Outcome
<1> QED
  BY <1>1, BecomesAdvances, EndsAdvances DEF AfterError

\* Every step but a late creation's takes one call on.
LEMMA StepAdvances ==
    ASSUME IInv, Next
    PROVE  (\E k \in Call : Advances(k)) \/ (call' = call /\ \E w \in sent : sent' = sent \ {w})
<1>1. ASSUME NEW k \in Call, NEW s \in Session, NEW mode \in Mode, NEW kind \in Kind, Start(k, s, mode, kind)
      PROVE  Advances(k)
  <2> DEFINE n == [session |-> s, mode |-> mode, kind |-> kind, at |-> 1, step |-> "read", outcome |-> "none"]
  <2>1. call[k] = Idle /\ call' = [call EXCEPT ![k] = n] /\ DOMAIN call = Call
    BY <1>1 DEF Start, IInv
  <2>2. n \in Operation /\ n.at = 1 /\ n.step = "read"
    BY DEF Operation, Reading, Outcome
  <2>3. Idle.at = 1 /\ StepRank[Idle.step] < StepRank["read"]
    BY DEF Idle, StepRank
  <2>4. call[k].at <= n.at /\ (call[k].at = n.at => StepRank[call[k].step] < StepRank[n.step])
    BY <2>1, <2>2, <2>3
  <2> HIDE DEF n
  <2> QED
    BY <2>1, <2>2, <2>4, Advance
<1>2. ASSUME NEW k \in Call, Read(k) PROVE Advances(k)
  <2>1. /\ call[k].step = "read" /\ StepRank["read"] < StepRank["witness"] /\ StepRank["read"] < StepRank["put"]
        /\ "witness" \in Reading /\ "failed" \in Outcome
    BY <1>2 DEF Read, StepRank, Reading, Outcome
  <2>2. CASE Compared(k)
    BY <2>1, <2>2, ComparedAdvances
  <2>3. CASE Ends(k, "failed")
    BY <2>1, <2>3, EndsAdvances
  <2>4. CASE Becomes(k, AfterAbsence(k))
    BY <2>1, <2>4, BecomesAdvances DEF AfterAbsence
  <2> QED
    BY <1>2, <2>2, <2>3, <2>4 DEF Read
<1>3. ASSUME NEW k \in Call, ReadWitness(k) PROVE Advances(k)
  <2>1. /\ call[k].step = "witness" /\ StepRank["witness"] < StepRank["recheck"]
        /\ StepRank["witness"] < StepRank["put"] /\ "recheck" \in Reading
    BY <1>3 DEF ReadWitness, StepRank, Reading
  <2>2. Becomes(k, "recheck") \/ Becomes(k, "put")
    BY <1>3 DEF ReadWitness
  <2> QED
    BY <2>1, <2>2, BecomesAdvances
<1>4. ASSUME NEW k \in Call, Recheck(k) \/ Reread(k) PROVE Advances(k)
  <2>1. call[k].step \in {"recheck", "reread"} /\ {"conflict", "failed"} \subseteq Outcome
    BY <1>4 DEF Recheck, Reread, Outcome
  <2>2. Compared(k) \/ Ends(k, "conflict") \/ Ends(k, "failed")
    BY <1>4 DEF Recheck, Reread
  <2> QED
    BY <2>1, <2>2, ComparedAdvances, EndsAdvances
<1>5. ASSUME NEW k \in Call, Put(k) PROVE Advances(k)
  <2>1. call[k].step = "put" /\ Becomes(k, "sent") /\ StepRank["put"] < StepRank["sent"]
    BY <1>5 DEF Put, StepRank
  <2> QED
    BY <2>1, BecomesAdvances
<1>6. ASSUME NEW k \in Call, ReadFails(k) PROVE Advances(k)
  <2>1. call[k].step \in Reading /\ Ends(k, "failed") /\ "failed" \in Outcome
    BY <1>6 DEF ReadFails, Outcome
  <2> QED
    BY <2>1, EndsAdvances DEF Reading
<1>7. ASSUME NEW k \in Call, ReplyLost(k) PROVE Advances(k)
  BY <1>7, AfterErrorAdvances DEF ReplyLost
<1>8. ASSUME NEW w \in sent, Create(w) \/ Conflict(w)
      PROVE  (\E k \in Call : Advances(k)) \/ (call' = call /\ sent' = sent \ {w})
  <2>1. w.call \in Call
    BY DEF IInv
  <2>2. CASE Awaited(w)
    <3>1. /\ call[w.call].step = "sent" /\ StepRank["sent"] < StepRank["reread"] /\ "reread" \in Reading
      BY <2>2 DEF Awaited, StepRank, Reading
    <3>2. Passes(w.call) \/ Becomes(w.call, "reread") \/ AfterError(w.call)
      BY <1>8, <2>2 DEF Create, Conflict
    <3> QED
      BY <2>1, <3>1, <3>2, PassesAdvances, BecomesAdvances, AfterErrorAdvances
  <2>3. CASE ~Awaited(w)
    BY <1>8, <2>3 DEF Create, Conflict
  <2> QED
    BY <2>2, <2>3
<1> QED
  BY <1>1, <1>2, <1>3, <1>4, <1>5, <1>6, <1>7, <1>8 DEF Next

\* Every step takes one call on toward its end and leaves the others where they
\* are, or delivers a creation nobody waits for.  So a call returns after a
\* bounded number of its own steps, however many race with it for its rows:
\* nothing is retried without end.  (bindProtocolMode, bindWitness.)
THEOREM CallsOnlyAdvance ==
    Spec => [][\/ \E k \in Call : Advances(k)
               \/ call' = call /\ \E w \in sent : sent' = sent \ {w}]_vars
  BY InvHolds, StepAdvances, PTL DEF Spec
=============================================================================
