------------------------- MODULE ApplicationEncoding -------------------------
(***************************************************************************)
(* The body encoders and the body sizes of the application layer           *)
(* (application_encoding.c, application_size.c, the encoding half of       *)
(* application_arbitrary.c).  Layouts are the ones the ENCODER writes;     *)
(* ApplicationDecoding states, separately, the ones the decoder reads.     *)
(***************************************************************************)
EXTENDS ApplicationValidation

ConfigurationFixedSize ==
    12 + 2 * DigitalInputs + 3 * DigitalOutputs + AnalogInputs + AnalogOutputs
       + 2 * PwmInputs + 8 * PwmOutputs + 9 * CanChannels + 10 * SpiChannels
       + 11 * UartChannels + 10 * I2cChannels + 1
InstructionFixedSize == 4 + DigitalOutputs + 4 * AnalogOutputs + 6 * PwmOutputs
ResultFixedSize      == 4 + DigitalInputs + 4 * AnalogInputs + 6 * PwmInputs + 1 + 4

FixedSize(type) ==
    CASE type = "SYSTEM_INFO_REQUEST"  -> 8
      [] type = "SYSTEM_INFO_RESPONSE" -> 14
      [] type = "TEST_CONFIGURATION"   -> ConfigurationFixedSize
      [] type = "TEST_INSTRUCTION"     -> InstructionFixedSize
      [] type = "UPDATE_INSTRUCTION"   -> 8
      [] type \in {"EXECUTION_CONTROL", "GLOBAL_CONTROL"} -> 5
      [] type = "FINALIZE_TEST_UPLOAD" -> 4
      [] type = "TEST_RESULT"          -> ResultFixedSize
      [] type = "VARIABLE_TEST_RESULT" -> 12
      [] type = "RESPONSE"             -> 13
      [] type = "ERROR"                -> 12
      [] type = "RIG_STATUS"           -> 12
      [] type = "RUN_REPORT"           -> 177
      [] type = "ARBITRARY_CONTROL"    -> 8
      [] type = "ARBITRARY_DATA"       -> 6

RecordHeaderSize == 4

-----------------------------------------------------------------------------
(* Body sizes *)

\* Broken variant: the padding is not counted.
Aligned_Record_size_unpadded(span) == RecordHeaderSize + span.size

Aligned_Record_size(span) == RecordHeaderSize + span.size + Align4_Padding(span.size)

VariableSize(m) ==
    CASE m.type = "SYSTEM_INFO_RESPONSE" ->
            m.body.diagnostic_data.size + m.body.firmware_git_hash.size
      [] m.type \in {"TEST_CONFIGURATION", "RUN_REPORT"} -> m.body.extension_data.size
      [] m.type = "ERROR"          -> m.body.diagnostic_data.size
      [] m.type = "ARBITRARY_DATA" -> m.body.payload.size
      [] m.type \in RecordFamilies ->
            FoldLeft(LAMBDA n, r : n + Aligned_Record_size(r.span), 0, m.body.records)
      [] OTHER -> 0

\* These families' size functions leave the body's values unexamined.
SizedWithoutValidation == {"TEST_CONFIGURATION", "TEST_INSTRUCTION", "TEST_RESULT",
                           "UPDATE_INSTRUCTION", "VARIABLE_TEST_RESULT"}

SizeStatus(ctx, m) ==
    CASE m.type = "TEST_CONFIGURATION" ->
            IF m.body.extension_data.size > 255 THEN "VALIDATION_FAILED" ELSE "OK"
      [] m.type \in SizedWithoutValidation -> "OK"
      [] m.type \in Discovery /\ BodyVersion(m.body) # OwnVersion -> "VERSION_MISMATCH"
      [] OTHER -> Body_validate(ctx, m.type, m.body)

Body_Size(ctx, m) ==
    [status |-> SizeStatus(ctx, m), size |-> FixedSize(m.type) + VariableSize(m)]

-----------------------------------------------------------------------------
(* Written layouts *)

RequestWritten == [request_firmware_git_hash |-> <<0, 1>>, query |-> <<1, 1>>,
    application_protocol_major |-> <<2, 2>>, application_protocol_minor |-> <<4, 2>>,
    application_protocol_patch |-> <<6, 2>>]

InfoWritten == Packed(<<
    <<"application_protocol_major", 2>>, <<"application_protocol_minor", 2>>,
    <<"application_protocol_patch", 2>>, <<"firmware_version_major", 2>>,
    <<"firmware_version_minor", 2>>, <<"firmware_version_patch", 2>> >>)

ConfigurationGlobalsWritten == Packed(<<
    <<"tick_duration_us", 4>>, <<"expected_tick_count", 4>>, <<"flags", 4>> >>)
DigitalInputWritten  == [enabled |-> <<0, 1>>, voltage_level |-> <<1, 1>>]
DigitalOutputWritten == [enabled |-> <<0, 1>>, voltage_level |-> <<1, 1>>,
                         initial_high |-> <<2, 1>>]
AnalogInputWritten   == [enabled |-> <<0, 1>>]
AnalogOutputWritten  == [enabled |-> <<0, 1>>]
PwmInputWritten      == [enabled |-> <<0, 1>>, voltage_level |-> <<1, 1>>]
PwmOutputWritten == Packed(<< <<"enabled", 1>>, <<"voltage_level", 1>>,
    <<"initial_period_nanoseconds", 4>>, <<"initial_duty_cycle_permyriad", 2>> >>)
CanWritten == Packed(<< <<"enabled", 1>>, <<"bit_rate", 4>>,
    <<"filter_id", 2>>, <<"filter_mask", 2>> >>)
SpiWritten == Packed(<< <<"enabled", 1>>, <<"bit_rate", 4>>, <<"role", 1>>,
    <<"data_width", 1>>, <<"bit_order", 1>>, <<"clock_polarity", 1>>, <<"clock_phase", 1>> >>)
UartWritten == Packed(<< <<"enabled", 1>>, <<"baud_rate", 4>>, <<"electrical_mode", 1>>,
    <<"word_length", 1>>, <<"parity", 1>>, <<"stop_bits", 1>>, <<"rx_enabled", 1>>,
    <<"tx_enabled", 1>> >>)
I2cWritten == Packed(<< <<"enabled", 1>>, <<"bit_rate", 4>>, <<"role", 1>>,
    <<"own_address_7bit", 2>>, <<"voltage_level", 1>>, <<"pull_up", 1>> >>)

TickWritten       == [tick_number |-> <<0, 4>>]
LevelWritten      == [high |-> <<0, 1>>]
MicrovoltsWritten == [microvolts |-> <<0, 4>>]
PwmSampleWritten  == Packed(<< <<"period_nanoseconds", 4>>, <<"duty_cycle_permyriad", 2>> >>)
ResultEndWritten  == Packed(<< <<"condition", 1>>, <<"problem_detail", 4>> >>)

OperationsHeaderWritten == Packed(<< <<"tick_number", 4>>, <<"count", 1>>, <<"flags", 1>>,
                                     <<"reserved", 2>> >>)
CapturesHeaderWritten == Packed(<< <<"tick_number", 4>>, <<"count", 1>>, <<"condition", 1>>,
    <<"flags", 1>>, <<"reserved", 1>>, <<"problem_detail", 4>> >>)
RecordHeaderWritten == Packed(<< <<"peripheral_type", 1>>, <<"channel", 1>>, <<"length", 2>> >>)

ControlWritten  == Packed(<< <<"command", 1>>, <<"flags", 4>> >>)
FinalizeWritten == [flags |-> <<0, 4>>]
ResponseWritten == [scope |-> <<0, 1>>, outcome |-> <<1, 1>>, reason |-> <<2, 1>>,
    tick_number |-> <<3, 4>>, control_command |-> <<7, 1>>,
    global_control_command |-> <<8, 1>>, detail |-> <<9, 4>>]
ErrorWritten == [category |-> <<0, 1>>, recoverable |-> <<1, 1>>, has_tick_number |-> <<2, 1>>,
    tick_number |-> <<3, 4>>, detail |-> <<7, 4>>]
RigStatusWritten == [schema_version |-> <<0, 2>>, origin |-> <<2, 1>>, state |-> <<3, 1>>,
    flags |-> <<4, 4>>, failure_source |-> <<8, 1>>, failure_stage |-> <<9, 1>>,
    failure_reason |-> <<10, 2>>]
ArbitraryControlWritten == [control_id |-> <<0, 4>>, value |-> <<4, 4>>]
ArbitraryDataWritten    == [data_id |-> <<0, 4>>]

ReportWritten == [schema_version |-> <<0, 2>>, run_outcome |-> <<2, 1>>,
    execution_outcome |-> <<3, 1>>, result_status |-> <<4, 1>>, failure_source |-> <<5, 1>>,
    failure_stage |-> <<6, 1>>, failure_reason |-> <<8, 2>>, valid_sections |-> <<12, 4>>,
    expected_tick_count |-> <<16, 4>>, tick_period_us |-> <<20, 4>>,
    last_completed_boundary |-> <<24, 4>>, result_ticks_emitted |-> <<28, 4>>]
IsrTimingWritten == [sample_count |-> <<32, 4>>, total_cycles |-> <<36, 8>>,
    minimum_cycles |-> <<44, 4>>, maximum_cycles |-> <<48, 4>>, maximum_boundary |-> <<52, 4>>]
InstructionBufferWritten == [sample_count |-> <<56, 4>>, minimum_unread_bytes |-> <<60, 4>>,
    minimum_boundary |-> <<64, 4>>]
ResultBufferWritten == [committed_record_count |-> <<68, 4>>, committed_bytes |-> <<72, 4>>,
    peak_pending_bytes |-> <<76, 4>>, peak_pending_boundary |-> <<80, 4>>,
    reserve_failure_count |-> <<84, 4>>, commit_failure_count |-> <<88, 4>>]
FlashWritten == [result_pages_drained |-> <<92, 4>>, result_bytes_drained |-> <<96, 8>>,
    result_drain_total_cycles |-> <<104, 8>>, result_drain_maximum_cycles |-> <<112, 4>>,
    instruction_pages_refilled |-> <<116, 4>>, instruction_bytes_refilled |-> <<120, 8>>,
    instruction_refill_total_cycles |-> <<128, 8>>,
    instruction_refill_maximum_cycles |-> <<136, 4>>,
    instruction_publish_sample_count |-> <<140, 4>>,
    instruction_publish_total_cycles |-> <<144, 8>>,
    instruction_publish_maximum_cycles |-> <<152, 4>>,
    service_gap_sample_count |-> <<156, 4>>, service_gap_total_cycles |-> <<160, 8>>,
    service_gap_maximum_cycles |-> <<168, 4>>, refill_drain_contention_count |-> <<172, 4>>]

-----------------------------------------------------------------------------
(* Body encoders *)

System_Info_Response_encode(b) ==
    PutSpan(PutSpan(PutFields(NoMemory, InfoWritten, 12, b), 1, b.diagnostic_data),
            1, b.firmware_git_hash)

Test_Configuration_encode(b) ==
    LET globals == PutFields(NoMemory, ConfigurationGlobalsWritten, 12, b)
        digital == PutArray(PutArray(globals, DigitalInputWritten, 2, b.digital_in),
                            DigitalOutputWritten, 3, b.digital_out)
        analog  == PutArray(PutArray(digital, AnalogInputWritten, 1, b.analog_in),
                            AnalogOutputWritten, 1, b.analog_out)
        pwm     == PutArray(PutArray(analog, PwmInputWritten, 2, b.pwm_in),
                            PwmOutputWritten, 8, b.pwm_out)
        buses   == PutArray(PutArray(pwm, CanWritten, 9, b.can), SpiWritten, 10, b.spi)
        links   == PutArray(PutArray(buses, UartWritten, 11, b.uart), I2cWritten, 10, b.i2c)
    IN  PutSpan(links, 1, b.extension_data)

Test_Instructions_encode(b) ==
    LET levels == PutArray(PutFields(NoMemory, TickWritten, 4, b),
                           LevelWritten, 1, b.digital_outputs)
    IN  PutArray(PutArray(levels, MicrovoltsWritten, 4, b.analog_outputs),
                 PwmSampleWritten, 6, b.pwm_outputs)

Test_Result_encode(b) ==
    LET levels == PutArray(PutFields(NoMemory, TickWritten, 4, b),
                           LevelWritten, 1, b.digital_inputs)
        pwm    == PutArray(PutArray(levels, MicrovoltsWritten, 4, b.analog_inputs),
                           PwmSampleWritten, 6, b.pwm_inputs)
    IN  PutFields(pwm, ResultEndWritten, 5, b)

Aligned_Record_encode(p, r) ==
    LET header == PutFields(p, RecordHeaderWritten, 4, r @@ [length |-> r.span.size])
        filled == PutBytes(header, r.span.size, r.span.data)
    IN  FoldLeft(LAMBDA q, k : PutNumber(q, 1, 0), filled,
                 [k \in 1..Align4_Padding(r.span.size) |-> k])

Records_encode(layout, size, b) ==
    FoldLeft(Aligned_Record_encode,
             PutFields(NoMemory, layout, size, b @@ [count |-> Len(b.records), reserved |-> 0]),
             b.records)

Run_Report_encode(b) ==
    [size |-> 177 + b.extension_data.size,
     at   |-> Fields(0, ReportWritten, b) @@ Fields(0, IsrTimingWritten, b.isr_timing)
              @@ Fields(0, InstructionBufferWritten, b.instruction_buffer)
              @@ Fields(0, ResultBufferWritten, b.result_buffer)
              @@ Fields(0, FlashWritten, b.flash)
              @@ (7 :> [width |-> 1, value |-> 0]) @@ (10 :> [width |-> 2, value |-> 0])
              @@ PutSpan([size |-> 176, at |-> NoBytes], 1, b.extension_data).at]

Body_Bytes(m) ==
    LET b == m.body
    IN  CASE m.type = "SYSTEM_INFO_REQUEST"  -> PutFields(NoMemory, RequestWritten, 8, b)
          [] m.type = "SYSTEM_INFO_RESPONSE" -> System_Info_Response_encode(b)
          [] m.type = "TEST_CONFIGURATION"   -> Test_Configuration_encode(b)
          [] m.type = "TEST_INSTRUCTION"     -> Test_Instructions_encode(b)
          [] m.type = "UPDATE_INSTRUCTION"   -> Records_encode(OperationsHeaderWritten, 8, b)
          [] m.type \in {"EXECUTION_CONTROL", "GLOBAL_CONTROL"} ->
                 PutFields(NoMemory, ControlWritten, 5, b)
          [] m.type = "FINALIZE_TEST_UPLOAD" -> PutFields(NoMemory, FinalizeWritten, 4, b)
          [] m.type = "TEST_RESULT"          -> Test_Result_encode(b)
          [] m.type = "VARIABLE_TEST_RESULT" -> Records_encode(CapturesHeaderWritten, 12, b)
          [] m.type = "RESPONSE"             -> PutFields(NoMemory, ResponseWritten, 13, b)
          [] m.type = "ERROR"                ->
                 PutSpan(PutFields(NoMemory, ErrorWritten, 11, b), 1, b.diagnostic_data)
          [] m.type = "RIG_STATUS"           -> PutFields(NoMemory, RigStatusWritten, 12, b)
          [] m.type = "RUN_REPORT"           -> Run_Report_encode(b)
          [] m.type = "ARBITRARY_CONTROL"    -> PutFields(NoMemory, ArbitraryControlWritten, 8, b)
          [] m.type = "ARBITRARY_DATA"       ->
                 PutSpan(PutFields(NoMemory, ArbitraryDataWritten, 4, b), 2, b.payload)

\* Each encoder compares the size it computed with the room it was given before
\* it writes, and reports INTERNAL_ERROR when what it wrote differs from it.
Body_Written(sized, bytes, capacity) ==
    IF ~Passed(sized) THEN Fail(sized.status)
    ELSE IF capacity < sized.size THEN Fail("BUFFER_TOO_SMALL")
    ELSE IF bytes.size # sized.size THEN Fail("INTERNAL_ERROR")
    ELSE [status |-> "OK", payload |-> bytes]

Body_Encode(ctx, m, capacity) == Body_Written(Body_Size(ctx, m), Body_Bytes(m), capacity)
=============================================================================
