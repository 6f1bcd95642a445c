----------------------------- MODULE Application -----------------------------
(***************************************************************************)
(* The application-layer codec's public functions (application.c) and the  *)
(* common header (application_message.c), as operators from a context and  *)
(* their arguments to the status and the outputs they publish.  Null       *)
(* pointers are outside the model: every argument the code checks for NULL *)
(* is present.                                                             *)
(*                                                                         *)
(* A message is [type, subtype, has_test_id, test_id, body]; test_id 0 is  *)
(* the all-zero identifier.  An encoded message (a wire) is its header, a  *)
(* payload memory, and the number of bytes present.                        *)
(***************************************************************************)
EXTENDS ApplicationDecoding

NoMessage == [type |-> "INVALID"]
NoTestId  == 0

-----------------------------------------------------------------------------
(* Init: the configuration is copied before the context is cleared, so the  *)
(* context's own configuration may be passed; a failure leaves the context  *)
(* uninitialised.                                                           *)

Config_Status(c) ==
    Checks(<< <<c.max_message >= MinCompleteMessage, "BUFFER_TOO_SMALL">>,
              <<c.max_message <= AbsoluteMaxMessage, "INVALID_LENGTH">>,
              <<c.max_variable <= AbsoluteMaxVariable, "INVALID_COUNT">>,
              <<c.max_ticks <= AbsoluteMaxTicks, "INVALID_LENGTH">> >>)

Init_Context(c) ==
    IF Config_Status(c) = "OK" THEN [c EXCEPT !.initialized = TRUE] ELSE NoContext

-----------------------------------------------------------------------------
(* Header and rules common to every family *)

\* Rules on the header fields alone, before any body is known.
Validate_Envelope_Fields(h) ==
    Checks(<< <<h.type \in Families, "INVALID_MESSAGE_TYPE">>,
              <<h.subtype = IF h.type \in Discovery THEN "BASIC" ELSE "NONE", "INVALID_SUBTYPE">>,
              <<h.has_test_id <= 1, "INCONSISTENT_TEST_ID">>,
              <<h.type \in Discovery \cup {"GLOBAL_CONTROL"} => h.has_test_id = 0,
                "INCONSISTENT_TEST_ID">>,
              <<h.type \in TestBound => h.has_test_id = 1, "INCONSISTENT_TEST_ID">> >>)

\* Whether a test identifier goes with what the body says.
TestId_Fits_Body(m) ==
    CASE m.type = "RIG_STATUS" -> HasBit(m.body.flags, ReadyForNewTest) => m.has_test_id = 0
      [] m.type = "RESPONSE"   -> (m.has_test_id = 0) <=> (m.body.scope = ScopeGlobalControl)
      [] m.type = "ERROR"      -> m.body.has_tick_number = 1 => m.has_test_id # 0
      [] OTHER                 -> TRUE

Validate_Common_Message_Fields(m) ==
    AndThen(Validate_Envelope_Fields(m),
            IF TestId_Fits_Body(m) THEN "OK" ELSE "INCONSISTENT_TEST_ID")

Validate_Message(ctx, m) ==
    IF ~ctx.initialized THEN "UNINITIALIZED"
    ELSE AndThen(Validate_Common_Message_Fields(m), Body_validate(ctx, m.type, m.body))

Header_Encoding(m, length) ==
    [major |-> OwnVersion[1], minor |-> OwnVersion[2],
     has_test_id |-> m.has_test_id,
     test_id |-> IF m.has_test_id = 1 THEN m.test_id ELSE NoTestId,
     type |-> m.type, subtype |-> m.subtype, length |-> length]

\* Only discovery may cross protocol versions.
Header_Decoding(w) ==
    LET h     == w.header
        start == Checks(<< <<w.size >= HeaderSize, "TRUNCATED_MESSAGE">>,
                           <<h.has_test_id <= 1, "MALFORMED_MESSAGE">>,
                           <<h.has_test_id = 0 => h.test_id = NoTestId,
                             "INCONSISTENT_TEST_ID">> >>)
    IN  AndThen(start, AndThen(Validate_Envelope_Fields(h),
            IF h.type \in Discovery \/ <<h.major, h.minor>> = SubSeq(OwnVersion, 1, 2)
            THEN "OK" ELSE "VERSION_MISMATCH"))

Validate_Discovery_Envelope_Body(h, b) ==
    IF /\ h.type \in Discovery
       /\ <<h.major, h.minor>> # <<b.application_protocol_major, b.application_protocol_minor>>
    THEN "MALFORMED_MESSAGE" ELSE "OK"

\* Limit, header and total length: the checks every receiving call begins with.
Receive_Checks(ctx, w) ==
    LET limit == Checks(<< <<ctx.initialized, "UNINITIALIZED">>,
                           <<w.size <= ctx.max_message, "INVALID_LENGTH">> >>)
        total == HeaderSize + w.header.length
    IN  AndThen(limit, AndThen(Header_Decoding(w),
            Checks(<< <<total <= w.size, "TRUNCATED_MESSAGE">>,
                      <<total = w.size, "MALFORMED_MESSAGE">> >>)))

-----------------------------------------------------------------------------
(* Sending *)

Size_Answer(ctx, common, sized) ==
    LET total == HeaderSize + sized.size
        st == AndThen(common,
                Checks(<< <<Passed(sized), sized.status>>,
                          <<sized.size <= AbsoluteMaxMessage, "INVALID_LENGTH">>,
                          <<total <= ctx.max_message, "BUFFER_TOO_SMALL">> >>))
    IN  [status |-> st, size |-> IF st = "OK" THEN total ELSE 0]

Encoded_Size(ctx, m) ==
    Size_Answer(ctx, IF ctx.initialized THEN Validate_Common_Message_Fields(m)
                     ELSE "UNINITIALIZED",
                Body_Size(ctx, m))

Wire(m, encoded) ==
    IF ~Passed(encoded) THEN encoded
    ELSE [status |-> "OK",
          wire   |-> [header  |-> Header_Encoding(m, encoded.payload.size),
                      payload |-> encoded.payload,
                      size    |-> HeaderSize + encoded.payload.size]]

Encode_Message(ctx, m, capacity) ==
    LET limit == IF ctx.max_message < capacity THEN ctx.max_message ELSE capacity
    IN  Proceed(Validate_Message(ctx, m),
                IF capacity < HeaderSize THEN Fail("BUFFER_TOO_SMALL")
                ELSE Wire(m, Body_Encode(ctx, m, limit - HeaderSize)))

-----------------------------------------------------------------------------
(* Receiving *)

Decoded_Message(h, b) ==
    [type |-> h.type, subtype |-> h.subtype, has_test_id |-> h.has_test_id,
     test_id |-> h.test_id, body |-> b]

\* A body is held to its header's version, then to the sender's rules.
Validate_Decoded(ctx, h, b) ==
    AndThen(Validate_Discovery_Envelope_Body(h, b), Validate_Message(ctx, Decoded_Message(h, b)))

\* Nothing is published unless every step passed.
Published(st, m, used) ==
    IF st = "OK" THEN [status |-> "OK", message |-> m, used |-> used]
    ELSE [status |-> st, message |-> NoMessage, used |-> 0]

Decode_Body(ctx, w, body) ==
    IF ~Passed(body) THEN Published(body.status, NoMessage, 0)
    ELSE Published(IF body.consumed # w.payload.size THEN "MALFORMED_MESSAGE"
                   ELSE Validate_Decoded(ctx, w.header, body.body),
                   Decoded_Message(w.header, body.body), body.used)

Decode_Message(ctx, w, capacity) ==
    LET entry == Receive_Checks(ctx, w)
    IN  IF entry # "OK" THEN Published(entry, NoMessage, 0)
        ELSE Decode_Body(ctx, w, Body_Decode(ctx, w.header.type, w.payload, capacity))

EnabledI2c(p) ==
    LET i2cAt == ConfigurationFixedSize - 1 - 10 * I2cChannels
    IN  \E i \in 0..(I2cChannels - 1) : Number(p, i2cAt + 10 * i, 1) = 1

\* The structural scan of one family, with the storage decoding it takes.
Storage_Scan(ctx, w) ==
    LET h     == w.header
        p     == w.payload
        fixed == Fixed_Body_Validate_Size(h.type, p)
        discovery == [application_protocol_major |-> Number(p, 2, 2),
                      application_protocol_minor |-> Number(p, 4, 2)]
        identified == [application_protocol_major |-> Number(p, 0, 2),
                       application_protocol_minor |-> Number(p, 2, 2)]
        sized == Proceed(fixed, Scanned(0))
    IN  CASE h.type = "SYSTEM_INFO_REQUEST" ->
                AndRequire(sized, Validate_Discovery_Envelope_Body(h, discovery))
          [] h.type = "SYSTEM_INFO_RESPONSE" ->
                AndRequire(System_Info_Response_Scan(ctx, p),
                      Validate_Discovery_Envelope_Body(h, identified))
          [] h.type = "RESPONSE" ->
                AndRequire(sized, IF (h.has_test_id = 0) <=> (Number(p, 0, 1) = ScopeGlobalControl)
                             THEN "OK" ELSE "INCONSISTENT_TEST_ID")
          [] h.type = "TEST_CONFIGURATION" ->
                AndRequire(Test_Configuration_Scan(ctx, p),
                      IF EnabledI2c(p) THEN "NOT_IMPLEMENTED" ELSE "OK")
          [] h.type = "UPDATE_INSTRUCTION"   -> Update_Instruction_Scan(ctx, p)
          [] h.type = "VARIABLE_TEST_RESULT" -> Variable_Test_Result_Scan(ctx, p)
          [] h.type = "ERROR"                -> Error_Scan(ctx, p)
          [] h.type = "RUN_REPORT"           -> Run_Report_scan(ctx, p)
          [] h.type = "ARBITRARY_DATA"       -> Arbitrary_Data_scan(ctx, p)
          [] OTHER                           -> sized

Storage_Answer(scan) ==
    [status |-> scan.status, storage |-> IF Passed(scan) THEN scan.storage ELSE 0]

Decode_Storage_Size(ctx, w) ==
    Storage_Answer(Proceed(Receive_Checks(ctx, w), Storage_Scan(ctx, w)))

\* Broken variant: a tick without a test is accepted.
Encoded_Error_Status_testless(ctx, h, p) == Error_validate(ctx, Error_body(p))

Encoded_Error_Status(ctx, h, p) ==
    IF Error_body(p).has_tick_number = 1 /\ h.has_test_id = 0 THEN "INCONSISTENT_TEST_ID"
    ELSE Error_validate(ctx, Error_body(p))

\* What Validate_Encoded_Message examines beyond the structural scan.
Encoded_Body_Status(ctx, w) ==
    LET h == w.header
        p == w.payload
        decoded(body) == AndThen(body.status, Validate_Decoded(ctx, h, body.body))
    IN  CASE h.type = "TEST_CONFIGURATION" ->
                Test_Configuration_validate(ctx, Test_Configuration_body(p))
          [] h.type = "SYSTEM_INFO_RESPONSE" ->
                LET info == System_Info_Response_body(p)
                IN  AndThen(Validate_Discovery_Envelope_Body(h, info),
                            System_Info_Response_validate(ctx, info))
          [] h.type = "RUN_REPORT" -> Run_Report_parse(ctx, p)
          [] h.type = "ERROR" -> Encoded_Error_Status(ctx, h, p)
          [] h.type \in RecordFamilies \cup {"ARBITRARY_DATA"} -> "OK"
          [] OTHER -> decoded(Body_Decode(ctx, h.type, p, 0))

\* Broken variant: the storage of the scan is left in place on a failure.
Validated_unreset(scan, st) == [scan EXCEPT !.status = AndThen(scan.status, st)]

Validated(scan, st) ==
    IF Passed(scan) /\ st # "OK" THEN [status |-> st, storage |-> 0] ELSE scan

Validate_Encoded_Message(ctx, w) ==
    Validated(Decode_Storage_Size(ctx, w), Encoded_Body_Status(ctx, w))
=============================================================================
