------------------------ MODULE ApplicationValidation ------------------------
(***************************************************************************)
(* The body validators of the application layer                            *)
(* (application_validation.c and the validators of                         *)
(* application_arbitrary.c): for each family, the first rule a body breaks *)
(* in the order the code checks.  Enumerations keep the code's numbers.    *)
(***************************************************************************)
EXTENDS ApplicationTypes

Valid(holds) == IF holds THEN "OK" ELSE "VALIDATION_FAILED"

Boolean_Is_Valid(v) == v \in {0, 1}
HasBit(n, bit)      == (n \div bit) % 2 = 1
AllZero(r, fields)  == \A f \in fields : r[f] = 0

ValidTickPeriods == {10000, 1000, 100, 10}

BodyVersion(b) == <<b.application_protocol_major, b.application_protocol_minor,
                    b.application_protocol_patch>>

Byte_Span_validate(span, limit) == Valid(span.size <= limit)
Byte_Span_U8_validate(ctx, span) ==
    Byte_Span_validate(span, IF ctx.max_variable < 255 THEN ctx.max_variable ELSE 255)

Pwm_Value_Is_Valid(period, duty) == duty <= 10000 /\ (period # 0 \/ duty = 0)

-----------------------------------------------------------------------------
(* Test configuration: a disabled peripheral carries only zeros *)

Config_Voltage_Is_Valid(v) == v \in 1..4
Bus_Role_Is_Valid(r)       == r \in 1..2
Disabled(r)                == r.enabled = 0 /\ AllZero(r, DOMAIN r)

Digital_Input_Config_validate(r) ==
    Valid(Disabled(r) \/ (r.enabled = 1 /\ Config_Voltage_Is_Valid(r.voltage_level)))

Digital_Output_Config_validate(r) ==
    Valid(\/ Disabled(r)
          \/ /\ r.enabled = 1 /\ Boolean_Is_Valid(r.initial_high)
             /\ Config_Voltage_Is_Valid(r.voltage_level))

Analog_Config_validate(r) == Valid(Boolean_Is_Valid(r.enabled))

Pwm_Output_Config_validate(r) ==
    Valid(\/ Disabled(r)
          \/ /\ r.enabled = 1 /\ Config_Voltage_Is_Valid(r.voltage_level)
             /\ Pwm_Value_Is_Valid(r.initial_period_nanoseconds, r.initial_duty_cycle_permyriad))

Can_Config_validate(r) ==
    Valid(\/ Disabled(r)
          \/ r.enabled = 1 /\ r.bit_rate # 0 /\ r.filter_id <= 2047 /\ r.filter_mask <= 2047)

Spi_Config_validate(r) ==
    Valid(\/ Disabled(r)
          \/ /\ r.enabled = 1 /\ r.bit_rate # 0 /\ Bus_Role_Is_Valid(r.role)
             /\ {r.data_width, r.bit_order, r.clock_polarity, r.clock_phase} \subseteq 1..2)

Uart_Config_validate(r) ==
    Valid(\/ Disabled(r)
          \/ /\ r.enabled = 1 /\ r.baud_rate # 0
             /\ {r.electrical_mode, r.parity} \subseteq 1..3
             /\ {r.word_length, r.stop_bits} \subseteq 1..2
             /\ {r.rx_enabled, r.tx_enabled} \subseteq {0, 1}
             /\ 1 \in {r.rx_enabled, r.tx_enabled})

I2c_Config_validate(r) ==
    IF r.enabled = 1 THEN "NOT_IMPLEMENTED" ELSE Valid(Disabled(r))

Each(rs, Validate(_)) == FirstFailure([i \in DOMAIN rs |-> Validate(rs[i])])

Test_Configuration_validate(ctx, b) ==
    FirstFailure(<<
        Valid(b.expected_tick_count \in 1..ctx.max_ticks /\ b.flags = 0),
        Valid(b.tick_duration_us \in ValidTickPeriods),
        Byte_Span_U8_validate(ctx, b.extension_data),
        Each(b.digital_in, Digital_Input_Config_validate),
        Each(b.digital_out, Digital_Output_Config_validate),
        Each(b.analog_in, Analog_Config_validate),
        Each(b.analog_out, Analog_Config_validate),
        Each(b.pwm_in, Digital_Input_Config_validate),
        Each(b.pwm_out, Pwm_Output_Config_validate),
        Each(b.can, Can_Config_validate),
        Each(b.spi, Spi_Config_validate),
        Each(b.uart, Uart_Config_validate),
        Each(b.i2c, I2c_Config_validate) >>)

-----------------------------------------------------------------------------
(* Records of an update instruction and of a variable result *)

PeripheralDigitalInput  == 1
PeripheralDigitalOutput == 2
PeripheralAnalogInput   == 3
PeripheralAnalogOutput  == 4
PeripheralPwmInput      == 5
PeripheralPwmOutput     == 6
PeripheralUart          == 16
PeripheralSpi           == 17
PeripheralI2c           == 18
PeripheralCan           == 19

InSpan(span, off, width) == Number([size |-> span.size, at |-> span.data], off, width)

Digital_Bank_Payload_validate(channel, span) ==
    Valid(channel = 0 /\ span.size = 2 /\ InSpan(span, 0, 2) \in 0..1023)

Pwm_Payload_validate(channel, channels, span) ==
    Valid(/\ channel < channels /\ span.size = 6
          /\ Pwm_Value_Is_Valid(InSpan(span, 0, 4), InSpan(span, 4, 2)))

Can_Payload_validate(channel, span) ==
    LET frames == {f \in 0..(span.size - 1) : f % 12 = 0}
    IN  Valid(/\ channel < CanChannels /\ span.size % 12 = 0
              /\ \A f \in frames : /\ InSpan(span, f, 2) <= 2047
                                   /\ InSpan(span, f + 2, 1) <= 8
                                   /\ InSpan(span, f + 11, 1) = 0)

\* A packet count, that many non-zero packet lengths, and the packets' bytes.
Spi_Payload_validate(channel, span) ==
    LET packets == InSpan(span, 0, 1)
        lengths == [k \in 1..packets |-> InSpan(span, k, 1)]
    IN  Valid(/\ channel < SpiChannels
              /\ packets # 0 /\ span.size > 1 + packets
              /\ \A k \in DOMAIN lengths : lengths[k] # 0
              /\ FoldLeft(LAMBDA s, n : s + n, 0, lengths) = span.size - 1 - packets)

\* False when the pair is out of range or was marked before.
Record_Pair_Mark(seen, peripheral, channel) ==
    /\ peripheral <= PeripheralCan /\ channel < 16
    /\ <<peripheral, channel>> \notin seen

Logical_Operation_Fields_validate(peripheral, channel, span) ==
    CASE peripheral = PeripheralDigitalOutput -> Digital_Bank_Payload_validate(channel, span)
      [] peripheral = PeripheralAnalogOutput  -> Valid(channel < AnalogOutputs /\ span.size = 4)
      [] peripheral = PeripheralPwmOutput     -> Pwm_Payload_validate(channel, PwmOutputs, span)
      [] peripheral = PeripheralUart          -> Valid(channel < UartChannels)
      [] peripheral = PeripheralSpi           -> Spi_Payload_validate(channel, span)
      [] peripheral = PeripheralCan           -> Can_Payload_validate(channel, span)
      [] peripheral = PeripheralI2c           -> "NOT_IMPLEMENTED"
      [] OTHER                                -> "VALIDATION_FAILED"

Captured_Record_Fields_validate(peripheral, channel, span) ==
    CASE peripheral = PeripheralDigitalInput -> Digital_Bank_Payload_validate(channel, span)
      [] peripheral = PeripheralAnalogInput  -> Valid(channel < AnalogInputs /\ span.size = 4)
      [] peripheral = PeripheralPwmInput     -> Pwm_Payload_validate(channel, PwmInputs, span)
      [] peripheral = PeripheralUart         -> Valid(channel < UartChannels)
      [] peripheral = PeripheralSpi          -> Valid(channel < SpiChannels)
      [] peripheral = PeripheralCan          -> Can_Payload_validate(channel, span)
      [] peripheral = PeripheralI2c          -> "NOT_IMPLEMENTED"
      [] OTHER                               -> "VALIDATION_FAILED"

Record_Fields_validate(type, peripheral, channel, span) ==
    IF type = "UPDATE_INSTRUCTION"
    THEN Logical_Operation_Fields_validate(peripheral, channel, span)
    ELSE Captured_Record_Fields_validate(peripheral, channel, span)

Records_validate(ctx, type, rs) ==
    LET seenBefore(i) == {<<rs[j].peripheral_type, rs[j].channel>> : j \in 1..(i - 1)}
    IN  FirstFailure([i \in DOMAIN rs |->
            AndThen(Valid(/\ Record_Pair_Mark(seenBefore(i), rs[i].peripheral_type, rs[i].channel)
                          /\ rs[i].span.size \in 1..ctx.max_variable),
                    Record_Fields_validate(type, rs[i].peripheral_type, rs[i].channel,
                                           rs[i].span))])

ConditionOk      == 0
ResultConditions == 0..2

Update_Instruction_validate(ctx, b) ==
    FirstFailure(<< Valid(b.tick_number < ctx.max_ticks), Valid(b.flags <= 1),
                    Valid(b.records # <<>>),
                    Records_validate(ctx, "UPDATE_INSTRUCTION", b.records) >>)

Variable_Test_Result_validate(ctx, b) ==
    FirstFailure(<< Valid(b.tick_number < ctx.max_ticks), Valid(b.flags <= 1),
                    Valid(b.condition \in ResultConditions),
                    Valid(b.condition # ConditionOk \/ b.problem_detail = 0),
                    Records_validate(ctx, "VARIABLE_TEST_RESULT", b.records) >>)

-----------------------------------------------------------------------------
(* Tick tables *)

Levels_Are_Valid(rs)      == \A i \in DOMAIN rs : Boolean_Is_Valid(rs[i].high)
Pwm_Samples_Are_Valid(rs) ==
    \A i \in DOMAIN rs : Pwm_Value_Is_Valid(rs[i].period_nanoseconds,
                                            rs[i].duty_cycle_permyriad)

Test_Instructions_validate(ctx, b) ==
    Valid(/\ b.tick_number < ctx.max_ticks
          /\ Levels_Are_Valid(b.digital_outputs) /\ Pwm_Samples_Are_Valid(b.pwm_outputs))

Test_Result_validate(ctx, b) ==
    Valid(/\ b.tick_number < ctx.max_ticks
          /\ Levels_Are_Valid(b.digital_inputs) /\ Pwm_Samples_Are_Valid(b.pwm_inputs)
          /\ b.condition \in ResultConditions)

-----------------------------------------------------------------------------
(* Discovery, control, responses, errors, status and reports *)

System_Info_Request_validate(b) ==
    Valid(/\ Boolean_Is_Valid(b.request_firmware_git_hash) /\ b.query = 1
          /\ b.application_protocol_major <= 255 /\ b.application_protocol_minor <= 255)

System_Info_Response_validate(ctx, b) ==
    FirstFailure(<< Valid(b.application_protocol_major <= 255 /\ b.application_protocol_minor <= 255),
                    Byte_Span_U8_validate(ctx, b.firmware_git_hash),
                    Byte_Span_U8_validate(ctx, b.diagnostic_data) >>)

Control_validate(b) == Valid(b.command \in 1..2 /\ b.flags = 0)

ScopeGlobalControl == 5
Response_validate(b) ==
    Valid(/\ b.scope \in 1..5 /\ b.outcome \in 1..4 /\ b.reason \in 0..9
          /\ b.control_command \in 0..2 /\ b.global_control_command \in 0..2)

Error_validate(ctx, b) ==
    LET tickFits == IF b.has_tick_number = 0 THEN b.tick_number = 0
                    ELSE b.tick_number < ctx.max_ticks
    IN  Checks(<< <<b.category \in 1..6 /\ Boolean_Is_Valid(b.recoverable)
                      /\ Boolean_Is_Valid(b.has_tick_number), "VALIDATION_FAILED">>,
                  <<tickFits, "INCONSISTENT_TICK">>,
                  <<Byte_Span_U8_validate(ctx, b.diagnostic_data) = "OK", "VALIDATION_FAILED">> >>)

FailureReasons == (0..2) \cup (16..18) \cup (32..37) \cup (48..49) \cup (64..71)
                  \cup (80..86) \cup (96..101) \cup {112}

\* No failure names neither a source nor a stage; a failure names both.
Failure_validate(source, stage, reason) ==
    Valid(/\ source \in 0..6 /\ stage \in 0..6 /\ reason \in FailureReasons
          /\ IF reason = 0 THEN source = 0 /\ stage = 0 ELSE source # 0 /\ stage # 0)

StateIdle      == 2
ReadyForNewTest == 1
ResetPermitted == 4
Rig_Status_validate(b) ==
    Checks(<< <<b.schema_version = 1, "UNSUPPORTED_MESSAGE">>,
              <<b.origin \in 1..2 /\ b.state \in 1..11 /\ b.flags \in 0..15, "VALIDATION_FAILED">>,
              << HasBit(b.flags, ReadyForNewTest) =>
                   /\ b.state = StateIdle /\ b.flags = ReadyForNewTest + ResetPermitted
                   /\ b.failure_reason = 0, "VALIDATION_FAILED">>,
              <<Failure_validate(b.failure_source, b.failure_stage, b.failure_reason) = "OK",
                "VALIDATION_FAILED">> >>)

Outcome_Is_Coherent(b) ==
    /\ IF b.run_outcome = 1
       THEN /\ b.execution_outcome = 2 /\ b.result_status = 1
            /\ b.result_ticks_emitted = b.expected_tick_count /\ b.failure_reason = 0
       ELSE b.failure_reason # 0
    /\ b.result_status = 1 => b.result_ticks_emitted = b.expected_tick_count
    /\ b.result_status = 2 => b.result_ticks_emitted \in 1..(b.expected_tick_count - 1)
    /\ b.execution_outcome = 1 => b.valid_sections = 1 /\ b.result_ticks_emitted = 0

Boundary_Is_Coherent(b) ==
    IF HasBit(b.valid_sections, 2)
    THEN /\ b.last_completed_boundary <= b.expected_tick_count
         /\ b.execution_outcome = 2 => b.last_completed_boundary = b.expected_tick_count
    ELSE b.last_completed_boundary = 0

\* An absent section is all zeros, an empty count has no measurements under it,
\* and no boundary lies past the last tick.
Sections_Are_Coherent(b) ==
    /\ HasBit(b.valid_sections, 4)  \/ AllZero(b.isr_timing, DOMAIN b.isr_timing)
    /\ HasBit(b.valid_sections, 8)  \/ AllZero(b.instruction_buffer, DOMAIN b.instruction_buffer)
    /\ HasBit(b.valid_sections, 16) \/ AllZero(b.result_buffer, DOMAIN b.result_buffer)
    /\ HasBit(b.valid_sections, 32) \/ AllZero(b.flash, DOMAIN b.flash)
    /\ {b.isr_timing.maximum_boundary, b.instruction_buffer.minimum_boundary,
        b.result_buffer.peak_pending_boundary} \subseteq 0..b.expected_tick_count
    /\ b.isr_timing.sample_count # 0 \/ AllZero(b.isr_timing, DOMAIN b.isr_timing)
    /\ b.instruction_buffer.sample_count # 0
         \/ AllZero(b.instruction_buffer, DOMAIN b.instruction_buffer)
    /\ b.flash.result_pages_drained # 0
         \/ AllZero(b.flash, {"result_bytes_drained", "result_drain_total_cycles",
                              "result_drain_maximum_cycles"})
    /\ b.flash.instruction_pages_refilled # 0
         \/ AllZero(b.flash, {"instruction_bytes_refilled", "instruction_refill_total_cycles",
                              "instruction_refill_maximum_cycles"})
    /\ b.flash.instruction_publish_sample_count # 0
         \/ AllZero(b.flash, {"instruction_publish_total_cycles",
                              "instruction_publish_maximum_cycles"})
    /\ b.flash.service_gap_sample_count # 0
         \/ AllZero(b.flash, {"service_gap_total_cycles", "service_gap_maximum_cycles"})

Run_Report_validate(ctx, b) ==
    FirstFailure(<<
        IF b.schema_version = 1 THEN "OK" ELSE "UNSUPPORTED_MESSAGE",
        Valid(/\ b.run_outcome \in 1..3 /\ b.execution_outcome \in 1..4
              /\ b.result_status \in 1..3
              /\ b.valid_sections \in 0..63 /\ HasBit(b.valid_sections, 1)
              /\ b.expected_tick_count \in 1..AbsoluteMaxTicks
              /\ b.result_ticks_emitted <= b.expected_tick_count),
        Valid(b.tick_period_us \in ValidTickPeriods),
        Failure_validate(b.failure_source, b.failure_stage, b.failure_reason),
        Valid(Outcome_Is_Coherent(b) /\ Boundary_Is_Coherent(b) /\ Sections_Are_Coherent(b)),
        Byte_Span_U8_validate(ctx, b.extension_data) >>)

-----------------------------------------------------------------------------
Body_validate(ctx, type, b) ==
    IF ~ctx.initialized THEN "UNINITIALIZED"
    ELSE CASE type = "SYSTEM_INFO_REQUEST"  -> System_Info_Request_validate(b)
           [] type = "SYSTEM_INFO_RESPONSE" -> System_Info_Response_validate(ctx, b)
           [] type = "TEST_CONFIGURATION"   -> Test_Configuration_validate(ctx, b)
           [] type = "TEST_INSTRUCTION"     -> Test_Instructions_validate(ctx, b)
           [] type = "UPDATE_INSTRUCTION"   -> Update_Instruction_validate(ctx, b)
           [] type \in {"EXECUTION_CONTROL", "GLOBAL_CONTROL"} -> Control_validate(b)
           [] type = "FINALIZE_TEST_UPLOAD" -> Valid(b.flags = 0)
           [] type = "TEST_RESULT"          -> Test_Result_validate(ctx, b)
           [] type = "VARIABLE_TEST_RESULT" -> Variable_Test_Result_validate(ctx, b)
           [] type = "RESPONSE"             -> Response_validate(b)
           [] type = "ERROR"                -> Error_validate(ctx, b)
           [] type = "RIG_STATUS"           -> Rig_Status_validate(b)
           [] type = "RUN_REPORT"           -> Run_Report_validate(ctx, b)
           [] type = "ARBITRARY_CONTROL"    -> "OK"
           [] type = "ARBITRARY_DATA"       -> Byte_Span_validate(b.payload, ctx.max_variable)
=============================================================================
