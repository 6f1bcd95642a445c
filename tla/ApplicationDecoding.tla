------------------------- MODULE ApplicationDecoding -------------------------
(***************************************************************************)
(* The body scanners and body decoders of the application layer            *)
(* (application_decoding.c, the decoding half of application_arbitrary.c). *)
(* A scanner checks a payload without writing and reports the caller       *)
(* storage decoding it takes; a decoder scans (or checks an exact size),   *)
(* checks the caller's storage, and reads.  Layouts are the ones the       *)
(* DECODER reads.                                                          *)
(***************************************************************************)
EXTENDS ApplicationEncoding

Scanned(storage) == [status |-> "OK", storage |-> storage]

\* A decoded body, the payload bytes consumed and the storage bytes used.
Decoded(body, consumed, used) ==
    [status |-> "OK", body |-> body, consumed |-> consumed, used |-> used]

\* size - offset is a size_t subtraction: it wraps when offset has passed size.
HasRoom(p, offset, n) == offset > p.size \/ n <= p.size - offset

-----------------------------------------------------------------------------
(* Scanners *)

FixedFamilies == {"SYSTEM_INFO_REQUEST", "TEST_INSTRUCTION", "EXECUTION_CONTROL",
                  "GLOBAL_CONTROL", "FINALIZE_TEST_UPLOAD", "TEST_RESULT", "RESPONSE",
                  "RIG_STATUS", "ARBITRARY_CONTROL"}

Fixed_Body_Validate_Size(type, p) ==
    IF p.size = FixedSize(type) THEN "OK" ELSE "MALFORMED_MESSAGE"

\* A fixed part, a length of the given width at the given offset, and its bytes.
Tail_Scan(ctx, p, fixed, lengthAt, width) ==
    LET n  == Number(p, lengthAt, width)
        st == Checks(<< <<p.size >= fixed, "MALFORMED_MESSAGE">>,
                        <<p.size = fixed + n, "MALFORMED_MESSAGE">>,
                        <<n <= ctx.max_variable, "VALIDATION_FAILED">> >>)
    IN  Proceed(st, Scanned(n))

Error_Scan(ctx, p)          == Tail_Scan(ctx, p, 12, 11, 1)
Arbitrary_Data_scan(ctx, p) == Tail_Scan(ctx, p, 6, 4, 2)
Test_Configuration_Scan(ctx, p) ==
    Tail_Scan(ctx, p, ConfigurationFixedSize, ConfigurationFixedSize - 1, 1)

Run_Report_scan(ctx, p) ==
    LET n  == Number(p, 176, 1)
        st == Checks(<< <<p.size >= 177, "MALFORMED_MESSAGE">>,
                        <<p.size = 177 + n, "MALFORMED_MESSAGE">>,
                        <<Number(p, 0, 2) = 1, "UNSUPPORTED_MESSAGE">>,
                        <<n <= ctx.max_variable, "VALIDATION_FAILED">> >>)
    IN  Proceed(st, Scanned(n))

System_Info_Response_Scan(ctx, p) ==
    LET diagnostic == Number(p, 12, 1)
        hashAt     == 13 + diagnostic
        hash       == Number(p, hashAt, 1)
        st == Checks(<< <<p.size >= 14, "MALFORMED_MESSAGE">>,
                        <<HasRoom(p, 13, diagnostic), "MALFORMED_MESSAGE">>,
                        <<diagnostic <= ctx.max_variable, "VALIDATION_FAILED">>,
                        <<HasRoom(p, hashAt, 1), "MALFORMED_MESSAGE">>,
                        <<HasRoom(p, hashAt + 1, hash), "MALFORMED_MESSAGE">>,
                        <<hash <= ctx.max_variable, "VALIDATION_FAILED">>,
                        <<hashAt + 1 + hash = p.size, "MALFORMED_MESSAGE">> >>)
    IN  Proceed(st, Scanned(diagnostic + hash))

\* Broken variants: any padding is taken; one byte too many is examined.
PaddingIsZero_unchecked(p, offset, n) == TRUE
PaddingIsZero_offByOne(p, offset, n) == \A k \in 0..n : Number(p, offset + k, 1) = 0

PaddingIsZero(p, offset, n) == \A k \in 0..(n - 1) : Number(p, offset + k, 1) = 0

\* One pass of Aligned_Records_Scan's loop over the record at s.offset.
Record_Scan(ctx, p, type, s) ==
    LET peripheral == Number(p, s.offset, 1)
        channel    == Number(p, s.offset + 1, 1)
        length     == Number(p, s.offset + 2, 2)
        start      == s.offset + RecordHeaderSize
        span       == Span(length, Bytes(p, start, length))
        padding    == Align4_Padding(length)
        header == Checks(<<
            <<HasRoom(p, s.offset, RecordHeaderSize), "MALFORMED_MESSAGE">>,
            <<length # 0, "MALFORMED_MESSAGE">>,
            <<length <= ctx.max_variable, "VALIDATION_FAILED">>,
            <<HasRoom(p, start, length), "MALFORMED_MESSAGE">>,
            <<Record_Pair_Mark(s.seen, peripheral, channel), "VALIDATION_FAILED">> >>)
        end == Checks(<<
            <<HasRoom(p, start + length, padding), "MALFORMED_MESSAGE">>,
            <<PaddingIsZero(p, start + length, padding), "MALFORMED_MESSAGE">> >>)
        st == AndThen(header,
                      AndThen(Record_Fields_validate(type, peripheral, channel, span), end))
    IN  IF s.status # "OK" THEN s
        ELSE [status |-> st, offset |-> start + length + padding,
              total  |-> s.total + length, seen |-> s.seen \cup {<<peripheral, channel>>}]

\* Caller storage of a record array: the structures, then their payloads.
\* Broken variant: the payloads follow the structures without alignment.
Records_Storage_unaligned(count, bytes) == count * RecordStructSize + bytes

Records_Storage(count, bytes) == Align_Up(count * RecordStructSize) + bytes

Records_Scanned(p, count, end) ==
    IF end.status # "OK" THEN Fail(end.status)
    ELSE IF end.offset # p.size THEN Fail("MALFORMED_MESSAGE")
    ELSE Scanned(Records_Storage(count, end.total))

Aligned_Records_Scan(ctx, p, type, count) ==
    LET begin == [status |-> "OK", offset |-> FixedSize(type), total |-> 0, seen |-> {}]
    IN  Records_Scanned(p, count, FoldLeft(LAMBDA s, k : Record_Scan(ctx, p, type, s), begin,
                                           [k \in 1..count |-> k]))

Update_Instruction_Scan(ctx, p) ==
    LET count == Number(p, 4, 1)
        st == Checks(<< <<p.size >= 8, "MALFORMED_MESSAGE">>,
                        <<Number(p, 6, 2) = 0, "MALFORMED_MESSAGE">>,
                        <<Number(p, 0, 4) < ctx.max_ticks, "VALIDATION_FAILED">>,
                        <<Number(p, 5, 1) <= 1, "VALIDATION_FAILED">>,
                        <<count # 0, "VALIDATION_FAILED">> >>)
    IN  Proceed(st, Aligned_Records_Scan(ctx, p, "UPDATE_INSTRUCTION", count))

Variable_Test_Result_Scan(ctx, p) ==
    LET count     == Number(p, 4, 1)
        condition == Number(p, 5, 1)
        st == Checks(<< <<p.size >= 12, "MALFORMED_MESSAGE">>,
                        <<Number(p, 7, 1) = 0, "MALFORMED_MESSAGE">>,
                        <<Number(p, 0, 4) < ctx.max_ticks, "VALIDATION_FAILED">>,
                        <<Number(p, 6, 1) <= 1, "VALIDATION_FAILED">>,
                        <<condition \in ResultConditions, "VALIDATION_FAILED">>,
                        <<condition # ConditionOk \/ Number(p, 8, 4) = 0, "VALIDATION_FAILED">>,
                        <<count # 0 \/ p.size = 12, "MALFORMED_MESSAGE">> >>)
    IN  Proceed(st, IF count = 0 THEN Scanned(0)
                    ELSE Aligned_Records_Scan(ctx, p, "VARIABLE_TEST_RESULT", count))

-----------------------------------------------------------------------------
(* Read layouts *)

RequestRead == [request_firmware_git_hash |-> <<0, 1>>, query |-> <<1, 1>>,
    application_protocol_major |-> <<2, 2>>, application_protocol_minor |-> <<4, 2>>,
    application_protocol_patch |-> <<6, 2>>]
InfoRead == Packed(<<
    <<"application_protocol_major", 2>>, <<"application_protocol_minor", 2>>,
    <<"application_protocol_patch", 2>>, <<"firmware_version_major", 2>>,
    <<"firmware_version_minor", 2>>, <<"firmware_version_patch", 2>> >>)

ConfigurationGlobalsRead == Packed(<<
    <<"tick_duration_us", 4>>, <<"expected_tick_count", 4>>, <<"flags", 4>> >>)
DigitalInputRead  == [enabled |-> <<0, 1>>, voltage_level |-> <<1, 1>>]
DigitalOutputRead == [enabled |-> <<0, 1>>, voltage_level |-> <<1, 1>>,
                      initial_high |-> <<2, 1>>]
AnalogInputRead   == [enabled |-> <<0, 1>>]
AnalogOutputRead  == [enabled |-> <<0, 1>>]
PwmInputRead      == [enabled |-> <<0, 1>>, voltage_level |-> <<1, 1>>]
PwmOutputRead == Packed(<< <<"enabled", 1>>, <<"voltage_level", 1>>,
    <<"initial_period_nanoseconds", 4>>, <<"initial_duty_cycle_permyriad", 2>> >>)
CanRead == Packed(<< <<"enabled", 1>>, <<"bit_rate", 4>>,
    <<"filter_id", 2>>, <<"filter_mask", 2>> >>)
SpiRead == Packed(<< <<"enabled", 1>>, <<"bit_rate", 4>>, <<"role", 1>>,
    <<"data_width", 1>>, <<"bit_order", 1>>, <<"clock_polarity", 1>>, <<"clock_phase", 1>> >>)
\* Broken variant: two fields are read in the wrong order.
UartRead_swapped == Packed(<< <<"enabled", 1>>, <<"baud_rate", 4>>, <<"electrical_mode", 1>>,
    <<"word_length", 1>>, <<"stop_bits", 1>>, <<"parity", 1>>, <<"rx_enabled", 1>>,
    <<"tx_enabled", 1>> >>)

UartRead == Packed(<< <<"enabled", 1>>, <<"baud_rate", 4>>, <<"electrical_mode", 1>>,
    <<"word_length", 1>>, <<"parity", 1>>, <<"stop_bits", 1>>, <<"rx_enabled", 1>>,
    <<"tx_enabled", 1>> >>)
I2cRead == Packed(<< <<"enabled", 1>>, <<"bit_rate", 4>>, <<"role", 1>>,
    <<"own_address_7bit", 2>>, <<"voltage_level", 1>>, <<"pull_up", 1>> >>)

TickRead       == [tick_number |-> <<0, 4>>]
LevelRead      == [high |-> <<0, 1>>]
MicrovoltsRead == [microvolts |-> <<0, 4>>]
PwmSampleRead  == Packed(<< <<"period_nanoseconds", 4>>, <<"duty_cycle_permyriad", 2>> >>)
ResultEndRead  == Packed(<< <<"condition", 1>>, <<"problem_detail", 4>> >>)
OperationsHeaderRead == Packed(<< <<"tick_number", 4>>, <<"count", 1>>, <<"flags", 1>> >>)
\* The reserved byte between flags and problem_detail is skipped.
CapturesHeaderRead == [tick_number |-> <<0, 4>>, count |-> <<4, 1>>, condition |-> <<5, 1>>,
                       flags |-> <<6, 1>>, problem_detail |-> <<8, 4>>]
RecordHeaderRead   == [peripheral_type |-> <<0, 1>>, channel |-> <<1, 1>>]

ControlRead   == Packed(<< <<"command", 1>>, <<"flags", 4>> >>)
FinalizeRead  == [flags |-> <<0, 4>>]
ResponseRead  == [scope |-> <<0, 1>>, outcome |-> <<1, 1>>, reason |-> <<2, 1>>,
    tick_number |-> <<3, 4>>, control_command |-> <<7, 1>>,
    global_control_command |-> <<8, 1>>, detail |-> <<9, 4>>]
ErrorRead == [category |-> <<0, 1>>, recoverable |-> <<1, 1>>, has_tick_number |-> <<2, 1>>,
    tick_number |-> <<3, 4>>, detail |-> <<7, 4>>]
RigStatusRead == [schema_version |-> <<0, 2>>, origin |-> <<2, 1>>, state |-> <<3, 1>>,
    flags |-> <<4, 4>>, failure_source |-> <<8, 1>>, failure_stage |-> <<9, 1>>,
    failure_reason |-> <<10, 2>>]
ArbitraryControlRead == [control_id |-> <<0, 4>>, value |-> <<4, 4>>]
ArbitraryDataRead    == [data_id |-> <<0, 4>>]

ReportRead == [schema_version |-> <<0, 2>>, run_outcome |-> <<2, 1>>,
    execution_outcome |-> <<3, 1>>, result_status |-> <<4, 1>>, failure_source |-> <<5, 1>>,
    failure_stage |-> <<6, 1>>, failure_reason |-> <<8, 2>>, valid_sections |-> <<12, 4>>,
    expected_tick_count |-> <<16, 4>>, tick_period_us |-> <<20, 4>>,
    last_completed_boundary |-> <<24, 4>>, result_ticks_emitted |-> <<28, 4>>]
IsrTimingRead == [sample_count |-> <<32, 4>>, total_cycles |-> <<36, 8>>,
    minimum_cycles |-> <<44, 4>>, maximum_cycles |-> <<48, 4>>, maximum_boundary |-> <<52, 4>>]
InstructionBufferRead == [sample_count |-> <<56, 4>>, minimum_unread_bytes |-> <<60, 4>>,
    minimum_boundary |-> <<64, 4>>]
ResultBufferRead == [committed_record_count |-> <<68, 4>>, committed_bytes |-> <<72, 4>>,
    peak_pending_bytes |-> <<76, 4>>, peak_pending_boundary |-> <<80, 4>>,
    reserve_failure_count |-> <<84, 4>>, commit_failure_count |-> <<88, 4>>]
FlashRead == [result_pages_drained |-> <<92, 4>>, result_bytes_drained |-> <<96, 8>>,
    result_drain_total_cycles |-> <<104, 8>>, result_drain_maximum_cycles |-> <<112, 4>>,
    instruction_pages_refilled |-> <<116, 4>>, instruction_bytes_refilled |-> <<120, 8>>,
    instruction_refill_total_cycles |-> <<128, 8>>,
    instruction_refill_maximum_cycles |-> <<136, 4>>,
    instruction_publish_sample_count |-> <<140, 4>>,
    instruction_publish_total_cycles |-> <<144, 8>>,
    instruction_publish_maximum_cycles |-> <<152, 4>>,
    service_gap_sample_count |-> <<156, 4>>, service_gap_total_cycles |-> <<160, 8>>,
    service_gap_maximum_cycles |-> <<168, 4>>, refill_drain_contention_count |-> <<172, 4>>]

-----------------------------------------------------------------------------
(* Body decoders *)

\* Byte_Span_decode with a one-byte length at offset; empty spans use no storage.
SpanAt(p, offset, prefix) ==
    LET n == Number(p, offset, prefix) IN Span(n, Bytes(p, offset + prefix, n))

\* Scan first, then the caller's storage, then read; the bytes of the body's
\* spans are what the storage is used for.
AfterScan(scan, capacity, p, body, used) ==
    IF ~Passed(scan) THEN scan
    ELSE IF scan.storage > capacity THEN Fail("BUFFER_TOO_SMALL")
    ELSE Decoded(body, p.size, used)

System_Info_Response_body(p) ==
    GetFields(p, 0, InfoRead) @@
    [diagnostic_data |-> SpanAt(p, 12, 1),
     firmware_git_hash |-> SpanAt(p, 13 + Number(p, 12, 1), 1)]

Error_body(p) == GetFields(p, 0, ErrorRead) @@ [diagnostic_data |-> SpanAt(p, 11, 1)]
Arbitrary_Data_body(p) == GetFields(p, 0, ArbitraryDataRead) @@ [payload |-> SpanAt(p, 4, 2)]

Test_Configuration_body(p) ==
    LET digitalOut == 12 + 2 * DigitalInputs
        analogIn   == digitalOut + 3 * DigitalOutputs
        analogOut  == analogIn + AnalogInputs
        pwmIn      == analogOut + AnalogOutputs
        pwmOut     == pwmIn + 2 * PwmInputs
        can        == pwmOut + 8 * PwmOutputs
        spi        == can + 9 * CanChannels
        uart       == spi + 10 * SpiChannels
        i2c        == uart + 11 * UartChannels
    IN  GetFields(p, 0, ConfigurationGlobalsRead) @@
        [digital_in  |-> GetArray(p, 12, DigitalInputRead, 2, DigitalInputs),
         digital_out |-> GetArray(p, digitalOut, DigitalOutputRead, 3, DigitalOutputs),
         analog_in   |-> GetArray(p, analogIn, AnalogInputRead, 1, AnalogInputs),
         analog_out  |-> GetArray(p, analogOut, AnalogOutputRead, 1, AnalogOutputs),
         pwm_in      |-> GetArray(p, pwmIn, PwmInputRead, 2, PwmInputs),
         pwm_out     |-> GetArray(p, pwmOut, PwmOutputRead, 8, PwmOutputs),
         can         |-> GetArray(p, can, CanRead, 9, CanChannels),
         spi         |-> GetArray(p, spi, SpiRead, 10, SpiChannels),
         uart        |-> GetArray(p, uart, UartRead, 11, UartChannels),
         i2c         |-> GetArray(p, i2c, I2cRead, 10, I2cChannels),
         extension_data |-> SpanAt(p, ConfigurationFixedSize - 1, 1)]

Test_Instructions_body(p) ==
    LET analog == 4 + DigitalOutputs
    IN  GetFields(p, 0, TickRead) @@
        [digital_outputs |-> GetArray(p, 4, LevelRead, 1, DigitalOutputs),
         analog_outputs  |-> GetArray(p, analog, MicrovoltsRead, 4, AnalogOutputs),
         pwm_outputs     |-> GetArray(p, analog + 4 * AnalogOutputs, PwmSampleRead, 6, PwmOutputs)]

Test_Result_body(p) ==
    LET analog == 4 + DigitalInputs
        pwm    == analog + 4 * AnalogInputs
    IN  GetFields(p, 0, TickRead) @@ GetFields(p, pwm + 6 * PwmInputs, ResultEndRead) @@
        [digital_inputs |-> GetArray(p, 4, LevelRead, 1, DigitalInputs),
         analog_inputs  |-> GetArray(p, analog, MicrovoltsRead, 4, AnalogInputs),
         pwm_inputs     |-> GetArray(p, pwm, PwmSampleRead, 6, PwmInputs)]

\* The copy pass: it trusts the scan and checks only where it ends.
Record_Copy(p, s) ==
    LET length == Number(p, s.offset + 2, 2)
        start  == s.offset + RecordHeaderSize
    IN  [offset  |-> start + length + Align4_Padding(length),
         copied  |-> s.copied + length,
         records |-> Append(s.records, GetFields(p, s.offset, RecordHeaderRead)
                                       @@ [span |-> Span(length, Bytes(p, start, length))])]

Records_Copied(p, type, count) ==
    FoldLeft(LAMBDA s, k : Record_Copy(p, s),
             [offset |-> FixedSize(type), copied |-> 0, records |-> <<>>],
             [k \in 1..count |-> k])

Records_Decoded(p, header, copied) ==
    IF copied.offset # p.size THEN Fail("INTERNAL_ERROR")
    ELSE Decoded([f \in DOMAIN header \ {"count"} |-> header[f]]
                     @@ [records |-> copied.records], p.size,
                 IF header.count = 0 THEN 0
                 ELSE Align_Up(header.count * RecordStructSize) + copied.copied)

Records_decode(scan, capacity, p, type, header) ==
    IF ~Passed(scan) THEN scan
    ELSE IF scan.storage > capacity THEN Fail("BUFFER_TOO_SMALL")
    ELSE Records_Decoded(p, header, Records_Copied(p, type, header.count))

Rig_Status_decode(p) ==
    IF p.size # 12 THEN Fail("MALFORMED_MESSAGE")
    ELSE IF Number(p, 0, 2) # 1 THEN Fail("UNSUPPORTED_MESSAGE")
    ELSE Decoded(GetFields(p, 0, RigStatusRead), p.size, 0)

Run_Report_body(p) ==
    GetFields(p, 0, ReportRead) @@
    [isr_timing         |-> GetFields(p, 0, IsrTimingRead),
     instruction_buffer |-> GetFields(p, 0, InstructionBufferRead),
     result_buffer      |-> GetFields(p, 0, ResultBufferRead),
     flash              |-> GetFields(p, 0, FlashRead),
     extension_data     |-> SpanAt(p, 176, 1)]

Run_Report_parse(ctx, p) ==
    IF Number(p, 7, 1) # 0 \/ Number(p, 10, 2) # 0 THEN "VALIDATION_FAILED"
    ELSE Body_validate(ctx, "RUN_REPORT", Run_Report_body(p))

Run_Report_decode(ctx, p, capacity) ==
    LET b == Run_Report_body(p)
    IN  AndRequire(AfterScan(Run_Report_scan(ctx, p), capacity, p, b, b.extension_data.size),
                   Run_Report_parse(ctx, p))

FixedBody(type, p) ==
    CASE type = "SYSTEM_INFO_REQUEST"  -> GetFields(p, 0, RequestRead)
      [] type = "TEST_INSTRUCTION"     -> Test_Instructions_body(p)
      [] type \in {"EXECUTION_CONTROL", "GLOBAL_CONTROL"} -> GetFields(p, 0, ControlRead)
      [] type = "FINALIZE_TEST_UPLOAD" -> GetFields(p, 0, FinalizeRead)
      [] type = "TEST_RESULT"          -> Test_Result_body(p)
      [] type = "RESPONSE"             -> GetFields(p, 0, ResponseRead)
      [] type = "ARBITRARY_CONTROL"    -> GetFields(p, 0, ArbitraryControlRead)

Fixed_decode(type, p) ==
    IF Fixed_Body_Validate_Size(type, p) # "OK" THEN Fail("MALFORMED_MESSAGE")
    ELSE Decoded(FixedBody(type, p), p.size, 0)

Body_Decode(ctx, type, p, capacity) ==
    CASE type = "SYSTEM_INFO_RESPONSE" ->
            LET b == System_Info_Response_body(p)
            IN  AfterScan(System_Info_Response_Scan(ctx, p), capacity, p, b,
                          b.diagnostic_data.size + b.firmware_git_hash.size)
      [] type = "TEST_CONFIGURATION" ->
            LET b == Test_Configuration_body(p)
            IN  AfterScan(Test_Configuration_Scan(ctx, p), capacity, p, b, b.extension_data.size)
      [] type = "UPDATE_INSTRUCTION" ->
            Records_decode(Update_Instruction_Scan(ctx, p), capacity, p, type,
                           GetFields(p, 0, OperationsHeaderRead))
      [] type = "VARIABLE_TEST_RESULT" ->
            Records_decode(Variable_Test_Result_Scan(ctx, p), capacity, p, type,
                           GetFields(p, 0, CapturesHeaderRead))
      [] type = "ERROR" ->
            LET b == Error_body(p)
            IN  AfterScan(Error_Scan(ctx, p), capacity, p, b, b.diagnostic_data.size)
      [] type = "ARBITRARY_DATA" ->
            LET b == Arbitrary_Data_body(p)
            IN  AfterScan(Arbitrary_Data_scan(ctx, p), capacity, p, b, b.payload.size)
      [] type = "RIG_STATUS" -> Rig_Status_decode(p)
      [] type = "RUN_REPORT" -> Run_Report_decode(ctx, p, capacity)
      [] OTHER -> Fixed_decode(type, p)
=============================================================================
