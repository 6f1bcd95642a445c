----------------------------- MODULE FrameCodec -----------------------------
(***************************************************************************)
(* Frames as bytes: the storage sizes a context computes when it is        *)
(* configured, COBS, and the encoding and decoding of a frame.             *)
(*                                                                         *)
(* The machine's numbers are parameters: RunMax is the longest run of      *)
(* nonzero bytes under one COBS code (254), SizeMax is SIZE_MAX.  Of the   *)
(* header the version and the type are kept; identity and sequences are    *)
(* in TransportTypes.                                                      *)
(***************************************************************************)
EXTENDS Integers, SequencesExt

CONSTANTS
    RunMax,             \* nonzero bytes under one COBS code; RunMax + 1 is the largest byte
    SizeMax,            \* the largest size_t
    RootSize,           \* sizeof( HIL_Transport_Mvp_Root_T )
    ProtocolVersion,    \* the first byte of every frame
    FrameTypes, ApplicationType,   \* the second byte; one type carries a message
    Crc(_)              \* the check byte of a sequence of bytes

ASSUME CodecAssumption ==
    /\ RunMax \in Nat \ {0} /\ SizeMax \in Nat \ {0} /\ RootSize \in Nat
    /\ RootSize <= SizeMax /\ RunMax <= SizeMax
    /\ ApplicationType \in FrameTypes

Bytes == 0 .. RunMax + 1
HeaderSize  == 2
CrcSize     == 1
RawOverhead == HeaderSize + CrcSize

-----------------------------------------------------------------------------
(* Sizes: a sum of size_t wraps unless the code looks first *)

Wrapped(n) == n % (SizeMax + 1)

\* 0 where the code reports a size that cannot be represented.
\* Broken variant: the codes of a body are counted as whole runs only.
COBS_Max_Encoded_Size_floor(n) ==
    IF n > SizeMax - (RunMax - 1) THEN 0 ELSE Wrapped(n + n \div RunMax)

COBS_Max_Encoded_Size(n) ==
    IF n = 0 THEN 1
    ELSE IF n > SizeMax - (RunMax - 1) THEN 0
    ELSE LET blocks == Wrapped(n + (RunMax - 1)) \div RunMax
         IN  IF n > SizeMax - blocks THEN 0 ELSE Wrapped(n + blocks)

Max_Encoded_Size(message) ==
    IF message = 0 \/ message > SizeMax - RawOverhead THEN 0
    ELSE LET cobs == COBS_Max_Encoded_Size(Wrapped(message + RawOverhead))
         IN  IF cobs = 0 \/ cobs = SizeMax THEN 0 ELSE Wrapped(cobs + 1)

\* The regions of the workspace behind the root, in order.
Regions(c) ==
    [submitted |-> c.message, output |-> c.encoded, body |-> c.encoded - 1,
     scratch |-> Wrapped(c.message + RawOverhead), received |-> c.message]

Overflow == -1
Checked_Add(left, right) ==
    IF left = Overflow \/ left > SizeMax - right THEN Overflow ELSE left + right

\* Broken variant: the last region is added without looking.
Total_Size_unchecked(c) ==
    LET r == Regions(c)
        checked == Checked_Add(Checked_Add(Checked_Add(Checked_Add(
                       RootSize, r.submitted), r.output), r.body), r.scratch)
    IN  IF checked = Overflow THEN Overflow ELSE Wrapped(checked + r.received)

Total_Size(c) ==
    LET r == Regions(c)
    IN  Checked_Add(Checked_Add(Checked_Add(Checked_Add(Checked_Add(
            RootSize, r.submitted), r.output), r.body), r.scratch), r.received)

\* The status of a configuration, and its size when it is "OK".
Config_Status(c) ==
    IF c.message = 0 \/ c.encoded = 0 THEN "INVALID_ARGUMENT"
    ELSE IF \/ Max_Encoded_Size(c.message) = 0
            \/ c.encoded < Max_Encoded_Size(c.message)
            \/ Total_Size(c) = Overflow
         THEN "UNSUPPORTED_CONFIGURATION"
    ELSE "OK"

Required_Storage_Size(c) == IF Config_Status(c) = "OK" THEN Total_Size(c) ELSE 0

Init_Status(c, workspace) ==
    IF Config_Status(c) = "OK" /\ workspace < Total_Size(c) THEN "BUFFER_TOO_SMALL"
    ELSE Config_Status(c)

-----------------------------------------------------------------------------
(* COBS *)

\* The size of the encoding, counted byte by byte before anything is written.
Exact_Cobs_Size(raw) ==
    LET Count(acc, i) ==
            IF raw[i] = 0 THEN [size |-> acc.size + 1, run |-> 0]
            ELSE IF acc.run + 1 = RunMax /\ i < Len(raw) THEN [size |-> acc.size + 2, run |-> 0]
            ELSE [size |-> acc.size + 1, run |-> acc.run + 1]
    IN  FoldLeftDomain(Count, [size |-> 1, run |-> 0], raw).size

\* out: the finished blocks; run: the bytes of the open one, whose code is not written yet.
COBS_Encode(raw, room) ==
    LET Block(run) == <<Len(run) + 1>> \o run
        Full(acc)  == Len(acc.out) + 1 + Len(acc.run) >= room
        Next(acc, i) ==
            IF ~ acc.fits \/ Full(acc) THEN [acc EXCEPT !.fits = FALSE]
            ELSE IF raw[i] = 0
            THEN [acc EXCEPT !.out = @ \o Block(acc.run), !.run = <<>>]
            ELSE IF Len(acc.run) + 1 = RunMax /\ i < Len(raw)
            THEN [acc EXCEPT !.out = @ \o Block(Append(acc.run, raw[i])), !.run = <<>>]
            ELSE [acc EXCEPT !.run = Append(@, raw[i])]
        last == FoldLeftDomain(Next, [out |-> <<>>, run |-> <<>>, fits |-> TRUE], raw)
    IN  IF last.fits /\ Len(last.out) < room
        THEN [status |-> "OK", bytes |-> last.out \o Block(last.run)]
        ELSE [status |-> "BUFFER_TOO_SMALL", bytes |-> <<>>]

\* A byte is a code when the block before it is used up (left = 0); the zero that the code
\* stands for is written when another block follows, unless the block was a full run.
\* A body that is refused is not read on: a later overflow would only refuse it under the
\* other name, and both names make it malformed.
\* Broken variant: a full run too is followed by a zero.
Implied_Zero_always(code) == code # 0
Implied_Zero(code) == code \notin {0, RunMax + 1}

COBS_Decode(body, room) ==
    LET Put(acc, b) ==
            IF Len(acc.out) = room THEN [acc EXCEPT !.status = "BUFFER_TOO_SMALL"]
            ELSE [acc EXCEPT !.out = Append(@, b),
                             !.status = IF b = 0 /\ acc.left > 0 THEN "INTERNAL_ERROR" ELSE @]
        Open(acc, b) ==
            IF b = 0 THEN [acc EXCEPT !.status = "INTERNAL_ERROR"]
            ELSE [(IF Implied_Zero(acc.code) THEN Put(acc, 0) ELSE acc)
                    EXCEPT !.left = b - 1, !.code = b]
        Next(acc, i) ==
            IF acc.status # "OK" THEN acc
            ELSE IF acc.left = 0 THEN Open(acc, body[i])
            ELSE [Put(acc, body[i]) EXCEPT !.left = @ - 1]
        last == FoldLeftDomain(Next, [out |-> <<>>, left |-> 0, code |-> 0, status |-> "OK"], body)
    IN  IF last.status = "OK" /\ last.left > 0
        THEN [last EXCEPT !.status = IF Len(last.out) + last.left > room
                                     THEN "BUFFER_TOO_SMALL" ELSE "INTERNAL_ERROR"]
        ELSE last

-----------------------------------------------------------------------------
(* Frames *)

Frame(type, payload) == [type |-> type, payload |-> payload]
NoFrame == Frame(0, <<>>)

Validate_Frame(f, message) ==
    IF f.type \notin FrameTypes THEN "INVALID_ARGUMENT"
    ELSE IF f.type = ApplicationType
    THEN IF f.payload = <<>> THEN "INVALID_ARGUMENT"
         ELSE IF Len(f.payload) > message THEN "MESSAGE_TOO_LARGE" ELSE "OK"
    ELSE IF f.payload # <<>> THEN "INVALID_ARGUMENT" ELSE "OK"

\* The bytes of a frame, with the delimiter, into a buffer of the given size.
Encode_Frame(f, message, scratch, room) ==
    LET checked == <<ProtocolVersion, f.type>> \o f.payload
        raw     == Append(checked, Crc(checked))
        exact   == Exact_Cobs_Size(raw)
        encoded == COBS_Encode(raw, exact)
        Failed(s) == [status |-> s, bytes |-> <<>>]
    IN  IF Validate_Frame(f, message) # "OK" THEN Failed(Validate_Frame(f, message))
        ELSE IF scratch < Len(raw) \/ room < exact + 1 THEN Failed("BUFFER_TOO_SMALL")
        ELSE IF encoded.status # "OK" THEN Failed(encoded.status)
        ELSE IF Len(encoded.bytes) # exact THEN Failed("INTERNAL_ERROR")
        ELSE [status |-> "OK", bytes |-> Append(encoded.bytes, 0)]

\* A body that is no frame is not an error of the call: the result says what it is.
Decode_Frame_View(body, message, scratch) ==
    LET decoded == COBS_Decode(body, scratch)
        raw     == decoded.out
        checked == SubSeq(raw, 1, Len(raw) - CrcSize)
        frame   == Frame(raw[2], SubSeq(raw, HeaderSize + 1, Len(raw) - CrcSize))
        Result(status, result, f) == [status |-> status, result |-> result, frame |-> f]
        Invalid(result) == Result("OK", result, NoFrame)
    IN  IF message > SizeMax - RawOverhead
        THEN Result("UNSUPPORTED_CONFIGURATION", "MALFORMED", NoFrame)
        ELSE IF scratch < message + RawOverhead
        THEN Result("BUFFER_TOO_SMALL", "MALFORMED", NoFrame)
        ELSE IF decoded.status # "OK" \/ Len(raw) < RawOverhead THEN Invalid("MALFORMED")
        ELSE IF raw[Len(raw)] # Crc(checked) THEN Invalid("INTEGRITY_INVALID")
        ELSE IF raw[1] # ProtocolVersion THEN Invalid("SESSION_INCOMPATIBLE")
        ELSE IF Validate_Frame(frame, message) = "OK" THEN Result("OK", "VALID", frame)
        ELSE IF Validate_Frame(frame, message) = "MESSAGE_TOO_LARGE"
        THEN Result("MESSAGE_TOO_LARGE", "MALFORMED", NoFrame)
        ELSE Invalid("MALFORMED")
=============================================================================
