------------------------------ MODULE Envelope ------------------------------
(***************************************************************************)
(* The frame of a journal record: a header that declares a kind and the     *)
(* number and extent of the fields, then the fields, each a tag and a       *)
(* value.  A decoder first reads what the wire says, then what a record of  *)
(* its kind may say, then what the record means, as an encoder does.        *)
(*                                                                         *)
(* A value is one of the classes the codec tells apart, a field counts for  *)
(* one unit of extent, and one identity stands for the event, record or     *)
(* command id that the kind says it is.                                     *)
(***************************************************************************)
EXTENDS Enumeration
Seqs == INSTANCE SequencesExt

CONSTANT MaxDamage  \* bound: the changes to a frame between writer and reader

ASSUME DamageAssumption == MaxDamage \in Nat

VARIABLE wire  \* an envelope, its frame, and how often the frame was changed

-----------------------------------------------------------------------------
(* Fields.                                                                 *)

RecordKind ==
    {"public_event", "runtime_control", "opening_fence", "application_prefix", "command_disposition"}

Identity == 1
PublicBody == {2, 3}   \* inline, reference
RuntimeBody == {4, 5}  \* inline, reference
LeaseEpochTag == 6
RuntimeCommandIDTag == 7
CommandKindTag == 8
AttemptEpochTag == 10
Tag == 1..11

Inline == {2, 4}
Reference == {3, 5}
FixedWidth == {LeaseEpochTag, RuntimeCommandIDTag, AttemptEpochTag}
Text == Tag \ (Inline \cup Reference \cup FixedWidth)

\* What the bytes of a field may be.  "zero" has the right width and says
\* nothing; "cut" ends with the frame, before its declared length.
ValuesOf(tag) ==
    {"good", "cut"} \cup
    CASE tag \in Inline -> {"empty", "invalid", "large"} \ (IF tag \in RuntimeBody THEN {"invalid"} ELSE {})
      [] tag \in Reference -> {"zero", "invalid", "narrow"}
      [] tag \in FixedWidth -> {"zero", "narrow"}
      [] OTHER -> {"empty", "invalid", "large"}

allowedEnvelopeFields ==
    [public_event |-> {Identity} \cup PublicBody \cup RuntimeBody,
     runtime_control |-> {Identity} \cup RuntimeBody,
     opening_fence |-> {LeaseEpochTag},
     application_prefix |-> {Identity, LeaseEpochTag, RuntimeCommandIDTag, CommandKindTag},
     command_disposition |-> {Identity} \cup 6..11]

Bodies == PublicBody \cup RuntimeBody
Required(kind) == allowedEnvelopeFields[kind] \ Bodies

RequiredBody(kind) ==
    CASE kind = "public_event" -> PublicBody [] kind = "runtime_control" -> RuntimeBody [] OTHER -> {}

-----------------------------------------------------------------------------
(* Envelopes.  An empty text and a zero number are unset in memory; an      *)
(* empty body is not.                                                       *)

Unset == [tag \in Tag |-> "unset"]
NoEnvelope == [kind |-> "none", fields |-> Unset]
InMemory(tag, value) ==
    IF (tag \in Text /\ value = "empty") \/ (tag \in FixedWidth /\ value = "zero") THEN "unset" ELSE value

SetFields(env) == {tag \in Tag : env.fields[tag] # "unset"}

validateSlot(env, slot) ==
    /\ Cardinality(SetFields(env) \cap slot) <= 1
    /\ \A tag \in SetFields(env) \cap slot :
          env.fields[tag] \in (IF tag \in Reference THEN {"good"} ELSE {"empty", "good", "invalid"})

\* A public inline body is the canonical form of an event.
validatePublicBody(env) == env.fields[2] \in {"unset", "good"}

Good(env, tags) == \A tag \in tags : env.fields[tag] = "good"

\* What both kinds of record about a command are correlated by.
validateCommandCorrelation(env) ==
    Good(env, {Identity, LeaseEpochTag, RuntimeCommandIDTag, CommandKindTag})

validateEnvelope(env) ==
    /\ env.kind \in RecordKind
    /\ validateSlot(env, PublicBody) /\ validateSlot(env, RuntimeBody)
    /\ CASE env.kind = "public_event" -> Good(env, {Identity}) /\ validatePublicBody(env)
         [] env.kind = "runtime_control" -> Good(env, {Identity})
         [] env.kind = "opening_fence" -> Good(env, {LeaseEpochTag})
         [] env.kind = "application_prefix" -> validateCommandCorrelation(env)
         [] OTHER -> validateCommandCorrelation(env) /\ Good(env, 9..11)
    /\ RequiredBody(env.kind) # {} => SetFields(env) \cap RequiredBody(env.kind) # {}
    /\ SetFields(env) \subseteq allowedEnvelopeFields[env.kind]

\* The fields that the kind emits, in the order of their tags.
EncodeEnvelope(env) ==
    LET tags == Enumerate(SetFields(env) \cap allowedEnvelopeFields[env.kind])
        emitted == [i \in DOMAIN tags |-> [tag |-> tags[i], value |-> env.fields[tags[i]]]]
    IN  [sound |-> TRUE, kind |-> env.kind, count |-> Len(emitted), extent |-> Len(emitted), fields |-> emitted]

-----------------------------------------------------------------------------
(* Decoding.                                                               *)

\* Length, magic and version; a known kind; and the frame ends where it says.
SoundHeader(f) == f.sound /\ f.kind \in RecordKind /\ f.extent = Len(f.fields) /\ f.count = Len(f.fields)

\* Mutant: a tag may repeat, and its last value counts.
InOrderOrRepeated(fields) == \A i \in 2..Len(fields) : fields[i - 1].tag <= fields[i].tag
InOrder(fields) == \A i \in 2..Len(fields) : fields[i - 1].tag < fields[i].tag

\* Its width, its algorithm, its object id and its digest.
decodeBodyReference(value) == value = "good"

\* What a field's own bytes can be refused for.
decodeField(tag, value) ==
    CASE tag \in Reference -> decodeBodyReference(value)
      [] tag \in FixedWidth -> value # "narrow"
      [] OTHER -> value # "large"

Seen(f) == {f.fields[i].tag : i \in DOMAIN f.fields}

validateDecodedFields(kind, seen) ==
    /\ seen \subseteq allowedEnvelopeFields[kind]
    /\ Required(kind) \subseteq seen
    /\ ~(PublicBody \subseteq seen) /\ ~(RuntimeBody \subseteq seen)
    /\ RequiredBody(kind) # {} => seen \cap RequiredBody(kind) # {}

\* A field that its kind does not have is stepped over, until it is refused.
Decoded(f) ==
    [kind |-> f.kind,
     fields |-> [tag \in Tag |->
        LET at == {i \in DOMAIN f.fields : f.fields[i].tag = tag /\ tag \in allowedEnvelopeFields[f.kind]}
        IN  IF at = {} THEN "unset"
            ELSE InMemory(tag, f.fields[CHOOSE i \in at : \A j \in at : j <= i].value)]]

DecodeEnvelope(f) ==
    /\ SoundHeader(f)
    /\ Seen(f) \subseteq Tag
    /\ InOrder(f.fields)
    /\ \A i \in DOMAIN f.fields :
          /\ f.fields[i].value # "cut"
          /\ f.fields[i].tag \in allowedEnvelopeFields[f.kind] => decodeField(f.fields[i].tag, f.fields[i].value)
    /\ validateDecodedFields(f.kind, Seen(f))
    /\ validateEnvelope(Decoded(f))

-----------------------------------------------------------------------------
(* A frame on its way: written by the package or by a runtime that encodes  *)
(* its own, and changed by whatever stores it.                              *)

EnvelopesOf(kind) ==
    {[kind |-> kind, fields |-> [tag \in Tag |-> IF tag \in DOMAIN f THEN f[tag] ELSE "unset"]] :
        f \in [allowedEnvelopeFields[kind] -> {"unset", "empty", "good", "invalid", "large"}]}

NoFrame ==
    [of |-> NoEnvelope, damage |-> 0,
     frame |-> [sound |-> FALSE, kind |-> "none", count |-> 0, extent |-> 0, fields |-> << >>]]

WriteFrame ==
    \E kind \in RecordKind : \E env \in EnvelopesOf(kind) :
        /\ validateEnvelope(env)
        /\ wire = [of |-> env, frame |-> EncodeEnvelope(env), damage |-> 0]

Changed(frame) ==
    /\ wire.of # NoEnvelope /\ wire.damage < MaxDamage
    /\ wire' = [wire EXCEPT !.frame = frame, !.damage = @ + 1]

Redeclared(fields) ==
    [wire.frame EXCEPT !.fields = fields, !.count = Len(fields), !.extent = Len(fields)]

Fields == wire.frame.fields
AnyField == {[tag |-> tag, value |-> value] : tag \in Tag, value \in UNION {ValuesOf(t) : t \in Tag}}
WireField == {f \in AnyField : f.value \in ValuesOf(f.tag)} \cup {[tag |-> 12, value |-> "good"]}

HeaderChanges ==
    \/ Changed([wire.frame EXCEPT !.sound = FALSE])
    \/ \E kind \in RecordKind \cup {"unknown"} : Changed([wire.frame EXCEPT !.kind = kind])
    \/ \E n \in {-1, 1} : \/ Changed([wire.frame EXCEPT !.count = @ + n])
                          \/ Changed([wire.frame EXCEPT !.extent = @ + n])

FieldsChange ==
    \/ \E i \in DOMAIN Fields : Changed(Redeclared(Seqs!RemoveAt(Fields, i)))
    \/ \E i \in 1..(Len(Fields) + 1), f \in WireField : Changed(Redeclared(Seqs!InsertAt(Fields, i, f)))
    \/ \E i \in DOMAIN Fields, f \in WireField : Changed(Redeclared(Seqs!ReplaceAt(Fields, i, f)))
    \/ \E i \in 1..(Len(Fields) - 1) :
          Changed(Redeclared(Seqs!ReplaceAt(Seqs!ReplaceAt(Fields, i, Fields[i + 1]), i + 1, Fields[i])))

WireNext == HeaderChanges \/ FieldsChange
-----------------------------------------------------------------------------
\* A reader accepts a frame exactly if it is the one frame of some envelope,
\* and reads that envelope: no other bytes say the same, none say something
\* that no writer could have meant, and what a writer may encode it can decode.
\* (DecodeEnvelope's field set beside validateEnvelope, which cannot tell a
\* field that says nothing from none.)
OneFramePerEnvelope ==
    wire.of # NoEnvelope =>
        /\ wire.damage = 0 => DecodeEnvelope(wire.frame) /\ Decoded(wire.frame) = wire.of
        /\ DecodeEnvelope(wire.frame) => EncodeEnvelope(Decoded(wire.frame)) = wire.frame
=============================================================================
