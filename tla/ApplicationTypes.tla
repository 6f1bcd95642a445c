--------------------------- MODULE ApplicationTypes ---------------------------
(***************************************************************************)
(* Vocabulary of the application-layer message codec                       *)
(* (src/application/*.c): statuses, message families, limits, the codec    *)
(* context, and the representation of encoded bytes the codec modules      *)
(* share.                                                                  *)
(*                                                                         *)
(* Encoded bytes are a MEMORY: a size and a function from the byte offsets *)
(* at which a value was written to the value's width and the value.  The   *)
(* encoder's and the decoder's byte layouts are written down separately,   *)
(* from the encoder and from the decoder; a number is read back only at    *)
(* the offset and the width at which it was written.                       *)
(***************************************************************************)
EXTENDS Integers, Sequences, SequencesExt, Functions, TLC

CONSTANTS
    DigitalInputs, DigitalOutputs,   \* channels of each kind on the rig
    AnalogInputs, AnalogOutputs,
    PwmInputs, PwmOutputs,
    CanChannels, UartChannels, SpiChannels, I2cChannels,
    RecordStructSize,     \* sizeof one decoded operation or capture record
    StorageAlignment,     \* HIL_APPLICATION_DECODE_STORAGE_ALIGNMENT
    AbsoluteMaxMessage,   \* HIL_APPLICATION_ABSOLUTE_MAX_MESSAGE_SIZE
    AbsoluteMaxVariable,  \* HIL_APPLICATION_ABSOLUTE_MAX_VARIABLE_DATA_SIZE
    AbsoluteMaxTicks      \* HIL_APPLICATION_ABSOLUTE_MAX_TICK_COUNT

ASSUME ChannelCounts ==
    /\ {DigitalInputs, DigitalOutputs} \subseteq 1..10
    /\ {AnalogInputs, AnalogOutputs, PwmInputs, PwmOutputs, CanChannels,
        UartChannels, SpiChannels, I2cChannels} \subseteq 1..10
ASSUME StorageUnits == RecordStructSize \in Nat \ {0} /\ StorageAlignment \in Nat \ {0}
ASSUME AbsoluteLimits ==
    {AbsoluteMaxMessage, AbsoluteMaxVariable, AbsoluteMaxTicks} \subseteq Nat \ {0}

-----------------------------------------------------------------------------
(* Statuses, families, contexts *)

Statuses == {"OK", "UNINITIALIZED", "INVALID_ARGUMENT", "BUFFER_TOO_SMALL",
             "INVALID_LENGTH", "INVALID_COUNT", "INVALID_MESSAGE_TYPE",
             "INVALID_SUBTYPE", "INCONSISTENT_TEST_ID", "INCONSISTENT_TICK",
             "MALFORMED_MESSAGE", "TRUNCATED_MESSAGE", "UNSUPPORTED_MESSAGE",
             "INCOMPLETE_DATA",
             "VALIDATION_FAILED", "VERSION_MISMATCH", "NOT_IMPLEMENTED",
             "INTERNAL_ERROR"}

Discovery == {"SYSTEM_INFO_REQUEST", "SYSTEM_INFO_RESPONSE"}
TestBound == {"TEST_CONFIGURATION", "TEST_INSTRUCTION", "UPDATE_INSTRUCTION",
              "FINALIZE_TEST_UPLOAD", "EXECUTION_CONTROL", "TEST_RESULT",
              "VARIABLE_TEST_RESULT", "RUN_REPORT"}
Unbound   == {"RESPONSE", "RIG_STATUS", "ERROR", "ARBITRARY_CONTROL", "ARBITRARY_DATA"}
Families  == Discovery \cup TestBound \cup {"GLOBAL_CONTROL"} \cup Unbound

\* Families whose decoded form holds an array of records in caller storage.
RecordFamilies == {"UPDATE_INSTRUCTION", "VARIABLE_TEST_RESULT"}

HeaderSize         == 23
MinCompleteMessage == 28
OwnVersion         == <<0, 4, 0>>

NoContext == [initialized |-> FALSE, max_message |-> 0, max_variable |-> 0, max_ticks |-> 0]

\* A status with a payload: what every step of the codec returns.
Fail(st)   == [status |-> st]
Passed(r)  == r.status = "OK"

\* The first status of a sequence of checks that is not OK.
FirstFailure(sts) ==
    LET bad == SelectInSeq(sts, LAMBDA st : st # "OK")
    IN  IF bad = 0 THEN "OK" ELSE sts[bad]

\* <<condition that must hold, status when it does not>> in the code's order.
Checks(cs) == FirstFailure([k \in DOMAIN cs |-> IF cs[k][1] THEN "OK" ELSE cs[k][2]])

\* A status, a result, or a result that is subject to a status, after an earlier one.
AndThen(st, next)   == IF st = "OK" THEN next ELSE st
Proceed(st, r)      == IF st = "OK" THEN r ELSE Fail(st)
AndRequire(r, st)   == IF Passed(r) /\ st # "OK" THEN Fail(st) ELSE r

-----------------------------------------------------------------------------
(* Memories *)

Misread  == -1
NoBytes  == <<>>
NoMemory == [size |-> 0, at |-> NoBytes]

PutNumber(p, width, v) ==
    [size |-> p.size + width,
     at   |-> p.at @@ (p.size :> [width |-> width, value |-> v])]

PutBytes(p, n, data) ==
    [size |-> p.size + n,
     at   |-> p.at @@ [o \in {p.size + k : k \in DOMAIN data} |-> data[o - p.size]]]

Number(p, off, width) ==
    IF off \in DOMAIN p.at /\ p.at[off].width = width THEN p.at[off].value ELSE Misread

\* The bytes [off, off + n): whole values, and what is left of a cut one.
Bytes(p, off, n) ==
    [o \in {k \in 0..(n - 1) : off + k \in DOMAIN p.at} |->
        LET c == p.at[off + o]
        IN  IF o + c.width <= n THEN c ELSE [width |-> n - o, value |-> Misread]]

\* The first n bytes of a memory, or the memory followed by zero bytes.
Resize(p, n) ==
    IF n <= p.size THEN [size |-> n, at |-> Bytes(p, 0, n)]
    ELSE PutNumber(p, n - p.size, 0)

-----------------------------------------------------------------------------
(* Layouts: a field's name to <<offset, width>> *)

Packed(fields) ==
    LET place(acc, f) == [next   |-> acc.next + f[2],
                          layout |-> acc.layout @@ (f[1] :> <<acc.next, f[2]>>)]
    IN  FoldLeft(place, [next |-> 0, layout |-> <<>>], fields).layout

Fields(base, layout, r) ==
    LET at(o) == CHOOSE f \in DOMAIN layout : base + layout[f][1] = o
    IN  [o \in {base + layout[f][1] : f \in DOMAIN layout} |->
            [width |-> layout[at(o)][2], value |-> r[at(o)]]]

PutFields(p, layout, size, r) ==
    [size |-> p.size + size, at |-> p.at @@ Fields(p.size, layout, r)]

GetFields(p, base, layout) ==
    [f \in DOMAIN layout |-> Number(p, base + layout[f][1], layout[f][2])]

PutArray(p, layout, size, rs) ==
    FoldLeft(LAMBDA q, r : PutFields(q, layout, size, r), p, rs)

GetArray(p, base, layout, size, n) ==
    [i \in 1..n |-> GetFields(p, base + (i - 1) * size, layout)]

\* A length-prefixed byte span.
Span(n, data) == [size |-> n, data |-> data]
PutSpan(p, prefix, s) == PutBytes(PutNumber(p, prefix, s.size), s.size, s.data)

\* HIL_APPLICATION_Align4_Padding and HIL_APPLICATION_Align_Up_Size.
Align4_Padding(n) == (4 - (n % 4)) % 4
Align_Up(n)       == ((n + StorageAlignment - 1) \div StorageAlignment) * StorageAlignment
=============================================================================
