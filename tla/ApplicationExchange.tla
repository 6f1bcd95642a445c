-------------------------- MODULE ApplicationExchange --------------------------
(***************************************************************************)
(* Two users of the application codec and the bytes between them.  The     *)
(* sender encodes a message of its own into a buffer; the bytes reach the  *)
(* receiver unchanged or altered; the receiver asks how much storage       *)
(* decoding takes (Decode_Storage_Size or Validate_Encoded_Message) and    *)
(* decodes into storage of its own choice.  The two contexts are           *)
(* initialised with configurations of their own, good or bad.              *)
(***************************************************************************)
EXTENDS Application

CONSTANT
    Setups   \* by name, what a behaviour may use:
             \*   senders, receivers   configurations handed to Init
             \*   messages             messages the sender may try to encode
             \*   damage, values       whether the bytes may be damaged, and what a
             \*                        damaged number may become

VARIABLES
    setup,              \* the name of what this behaviour uses
    sender, receiver,   \* the two codec contexts
    message,            \* the message last given to Encode_Message
    sent,               \* what Encode_Message returned, and the room it was given
    wire,               \* the bytes before the receiver
    intact,             \* whether they are the sender's bytes
    asked,              \* the receiver's last storage question and its answer
    decoded             \* what Decode_Message returned, and the room it was given
vars == <<setup, sender, receiver, message, sent, wire, intact, asked, decoded>>

NoWire  == [size |-> 0]
NotSent == [status |-> "NONE", room |-> 0]
NotAsked   == [by |-> "NONE", status |-> "NONE", storage |-> 0]
NotDecoded == [status |-> "NONE", room |-> 0, message |-> NoMessage, used |-> 0]

Idle     == sent = NotSent
Received == wire # NoWire
Undamaged == Received /\ intact

Init ==
    /\ setup \in DOMAIN Setups
    /\ sender = NoContext /\ receiver = NoContext
    /\ message = NoMessage /\ sent = NotSent
    /\ wire = NoWire /\ intact = TRUE
    /\ asked = NotAsked /\ decoded = NotDecoded

-----------------------------------------------------------------------------
(* Calls *)

InitSender(c) ==
    /\ Idle
    /\ sender' = Init_Context(c)
    /\ UNCHANGED <<receiver, message, sent, wire, intact, asked, decoded>>

InitReceiver(c) ==
    /\ Idle
    /\ receiver' = Init_Context(c)
    /\ UNCHANGED <<sender, message, sent, wire, intact, asked, decoded>>

\* Rooms around every limit the encoder compares with.
Rooms(m) ==
    LET n == HeaderSize + FixedSize(m.type) + VariableSize(m)
    IN  {HeaderSize - 1, n - 1, n, n + 1}

Encode(m, room) ==
    /\ message' = m
    /\ sent' = Encode_Message(sender, m, room) @@ [room |-> room]
    /\ UNCHANGED <<sender, receiver, wire, intact, asked, decoded>>

Deliver ==
    /\ Passed(sent) /\ ~Received
    /\ wire' = sent.wire /\ intact' = TRUE
    /\ UNCHANGED <<sender, receiver, message, sent, asked, decoded>>

-----------------------------------------------------------------------------
(* Damage between the two *)

Damageable == Passed(sent) /\ ~Received /\ Setups[setup].damage

Damaged(w) ==
    /\ wire' = w /\ intact' = (w = sent.wire)
    /\ UNCHANGED <<sender, receiver, message, sent, asked, decoded>>

\* A number of the body is replaced.
DamageBody(offset, v) ==
    Damaged([sent.wire EXCEPT !.payload.at[offset].value = v])

\* Bytes are cut off or appended; the length in the header may follow.
DamageSize(n, lengthFollows) ==
    Damaged([header  |-> IF lengthFollows THEN [sent.wire.header EXCEPT !.length = n]
                         ELSE sent.wire.header,
             payload |-> Resize(sent.wire.payload, n),
             size    |-> HeaderSize + n])

Headless == Damaged([sent.wire EXCEPT !.size = HeaderSize - 1])

DamageHeader(field, v) == Damaged([sent.wire EXCEPT !.header[field] = v])

HeaderDamage ==
    ({"major", "minor"} \X {1, 5}) \cup ({"has_test_id"} \X {0, 1, 2}) \cup
    ({"test_id"} \X {0, 9}) \cup ({"length"} \X {0})

HeaderRetyped ==
    ({"type"} \X (Families \cup {"RESERVED"})) \cup ({"subtype"} \X {"NONE", "BASIC", "RESERVED"})

-----------------------------------------------------------------------------
(* The receiver *)

Ask(by) ==
    /\ Received /\ asked = NotAsked /\ decoded = NotDecoded
    /\ asked' = [by |-> by] @@ (IF by = "QUERY" THEN Decode_Storage_Size(receiver, wire)
                                ELSE Validate_Encoded_Message(receiver, wire))
    /\ UNCHANGED <<sender, receiver, message, sent, wire, intact, decoded>>

Decode(room) ==
    /\ asked # NotAsked /\ decoded = NotDecoded
    /\ decoded' = Decode_Message(receiver, wire, room) @@ [room |-> room]
    /\ UNCHANGED <<sender, receiver, message, sent, wire, intact, asked>>

\* Storage around what was answered; a refused question answers nothing, and
\* decoding is tried with none and with more than any message takes.
StorageRooms ==
    IF Passed(asked) THEN {asked.storage - 1, asked.storage, asked.storage + 1} \cap Nat
    ELSE {0, RecordStructSize * AbsoluteMaxMessage}

\* The exchange is over: the buffers are reused.
Discard ==
    /\ ~Idle
    /\ message' = NoMessage /\ sent' = NotSent
    /\ wire' = NoWire /\ intact' = TRUE
    /\ asked' = NotAsked /\ decoded' = NotDecoded
    /\ UNCHANGED <<sender, receiver>>

Step ==
    \/ \E c \in Setups[setup].senders : InitSender(c)
    \/ \E c \in Setups[setup].receivers : InitReceiver(c)
    \/ Idle /\ \E m \in Setups[setup].messages : \E room \in Rooms(m) : Encode(m, room)
    \/ Deliver
    \/ /\ Damageable
       /\ \/ \E o \in DOMAIN sent.wire.payload.at, v \in Setups[setup].values : DamageBody(o, v)
          \/ \E d \in {-1, 1}, f \in BOOLEAN : DamageSize(sent.wire.payload.size + d, f)
          \/ Headless
          \/ \E d \in HeaderDamage \cup HeaderRetyped : DamageHeader(d[1], d[2])
    \/ \E by \in {"QUERY", "CHECK"} : Ask(by)
    \/ \E room \in StorageRooms : Decode(room)
    \/ Discard

Next == Step /\ UNCHANGED setup

Spec == Init /\ [][Next]_vars

-----------------------------------------------------------------------------
(* Type invariant and properties *)

\* Every call returns one of the statuses, and a failed call publishes nothing.
TypeOK ==
    /\ sender.initialized \in BOOLEAN /\ receiver.initialized \in BOOLEAN
    /\ sent.status \in Statuses \cup {"NONE"}
    /\ asked.status \in Statuses \cup {"NONE"} /\ asked.storage \in Nat
    /\ Passed(asked) \/ asked.storage = 0
    /\ decoded.status \in Statuses \cup {"NONE"} /\ decoded.used \in Nat
    /\ decoded.message # NoMessage => decoded.status = "OK"

\* An undamaged message that decodes is the message that was encoded: the two
\* byte layouts, written in different files, agree on every field of every family.
\* (The identifier of a message that carries none is not sent.)
RoundTrip ==
    Undamaged /\ Passed(decoded) =>
        decoded.message = IF message.has_test_id = 1 THEN message
                          ELSE [message EXCEPT !.test_id = NoTestId]

\* A receiver configured like the sender accepts every undamaged message once it
\* gives the storage it was told: nothing the encoder lets through is refused.
SenderIsUnderstood ==
    Undamaged /\ receiver = sender =>
        /\ asked # NotAsked => Passed(asked)
        /\ decoded.room >= asked.storage /\ decoded # NotDecoded => Passed(decoded)

\* A decoded message encodes back to the bytes it came from, whatever damage
\* those bytes had: no two encodings of one message are accepted.  (Bytes read as
\* another family are excluded: a number across two cells is not known here.)
OneEncodingPerMessage ==
    /\ Passed(decoded) /\ wire.header.type = message.type
    /\ decoded.message.type \in Discovery => BodyVersion(decoded.message.body) = OwnVersion
    => Encode_Message(receiver, decoded.message, wire.size) = [status |-> "OK", wire |-> wire]

\* Storage answers are exact: with what was answered decoding needs no more,
\* uses all of it, and with one byte less it stops before writing.
StorageAnswerIsExact ==
    decoded # NotDecoded /\ Passed(asked) =>
        /\ Passed(decoded) => decoded.used = asked.storage
        /\ decoded.status = "BUFFER_TOO_SMALL" <=> decoded.room < asked.storage

DecodedWithRoom == decoded # NotDecoded /\ decoded.status # "BUFFER_TOO_SMALL"

\* Validate_Encoded_Message accepts exactly what decoding accepts, and except
\* for a test configuration it names the same status.
ValidationPredictsDecoding ==
    asked.by = "CHECK" /\ DecodedWithRoom =>
        /\ Passed(asked) <=> Passed(decoded)
        /\ wire.header.type # "TEST_CONFIGURATION" => asked.status = decoded.status

\* The documented form: the classification is the same for every family.
ValidationNamesTheSameStatus ==
    asked.by = "CHECK" /\ DecodedWithRoom =>
        asked.status = decoded.status

\* The scanner's comment: a record's payload is bounded by one byte's range.
RecordsFitOneByte ==
    Passed(decoded) /\ decoded.message.type \in RecordFamilies =>
        \A i \in DOMAIN decoded.message.body.records :
            decoded.message.body.records[i].span.size <= 255

\* What was sent agrees with an answer of Encoded_Size.
SizeAgrees(sized) ==
    /\ Passed(sent) => /\ Passed(sized) /\ sent.wire.size = sized.size
                       /\ sent.wire.size <= sent.room
                       /\ sent.wire.size <= sender.max_message
    /\ Passed(sized) /\ Validate_Message(sender, message) = "OK" /\ sent.room >= sized.size
           => Passed(sent)

\* Encoded_Size is the size of the bytes Encode_Message writes; they fit the
\* buffer and the configured limit, and a message that validates and is sized
\* encodes into a buffer of that size.
EncodedSizeIsExact ==
    sent # NotSent /\ ~Received => SizeAgrees(Encoded_Size(sender, message))

=============================================================================
