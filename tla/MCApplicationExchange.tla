------------------------- MODULE MCApplicationExchange -------------------------
(* Instances of ApplicationExchange: one message of each family, with each    *)
(* of its fields varied in turn.                                              *)
EXTENDS ApplicationExchange

Opaque(n) == Span(n, IF n = 0 THEN NoBytes ELSE 0 :> [width |-> n, value |-> 7])
Cells(ws) == PutFields(NoMemory, Packed([k \in DOMAIN ws |-> <<k, ws[k][1]>>]), 0,
                       [k \in DOMAIN ws |-> ws[k][2]]).at

MCStandard == [initialized |-> FALSE, max_message |-> 300, max_variable |-> 40, max_ticks |-> 4]
MCTight    == [MCStandard EXCEPT !.max_variable = 1]
MCShort    == [MCStandard EXCEPT !.max_message = 60, !.max_ticks = 2]
MCTooShort == [MCStandard EXCEPT !.max_message = 20]
MCTooLong  == [MCStandard EXCEPT !.max_message = 400]
MCFewTicks == [MCStandard EXCEPT !.max_ticks = 1]
MCLarge    == [MCStandard EXCEPT !.max_variable = 256]
MCSenderConfigs   == {MCStandard, MCShort, MCTooShort}
MCReceiverConfigs == {MCStandard, MCTight, MCShort, MCTooLong}
MCOneConfig       == {MCStandard}
MCLargeConfig     == {MCLarge}
MCSmallerRig      == {MCStandard, MCFewTicks}
MCFieldValues     == {0, 1, 2, 3, 18}

Own(b)     == b @@ [application_protocol_major |-> 0, application_protocol_minor |-> 4,
                    application_protocol_patch |-> 0]
ZeroOf(layout) == [f \in DOMAIN layout |-> 0]
Same(n, r)     == [i \in 1..n |-> r]

Message(type, has, b) ==
    [type |-> type, subtype |-> IF type \in Discovery THEN "BASIC" ELSE "NONE",
     has_test_id |-> has, test_id |-> 5 * has, body |-> b]

Request  == Message("SYSTEM_INFO_REQUEST", 0, Own([request_firmware_git_hash |-> 1, query |-> 1]))
Info     == Message("SYSTEM_INFO_RESPONSE", 0,
                Own([firmware_version_major |-> 1, firmware_version_minor |-> 2,
                     firmware_version_patch |-> 3, diagnostic_data |-> Opaque(1),
                     firmware_git_hash |-> Opaque(2)]))
Configuration == Message("TEST_CONFIGURATION", 1,
    [tick_duration_us |-> 100, expected_tick_count |-> 2, flags |-> 0,
     digital_in  |-> Same(DigitalInputs, [enabled |-> 1, voltage_level |-> 1]),
     digital_out |-> Same(DigitalOutputs, [enabled |-> 1, voltage_level |-> 2, initial_high |-> 1]),
     analog_in   |-> Same(AnalogInputs, [enabled |-> 1]),
     analog_out  |-> Same(AnalogOutputs, [enabled |-> 0]),
     pwm_in      |-> Same(PwmInputs, [enabled |-> 0, voltage_level |-> 0]),
     pwm_out     |-> Same(PwmOutputs, [enabled |-> 1, voltage_level |-> 1,
                          initial_period_nanoseconds |-> 9, initial_duty_cycle_permyriad |-> 4]),
     can         |-> Same(CanChannels, [enabled |-> 1, bit_rate |-> 7, filter_id |-> 1,
                          filter_mask |-> 2]),
     spi         |-> Same(SpiChannels, [enabled |-> 1, bit_rate |-> 7, role |-> 1, data_width |-> 2,
                          bit_order |-> 1, clock_polarity |-> 2, clock_phase |-> 1]),
     uart        |-> Same(UartChannels, [enabled |-> 1, baud_rate |-> 7, electrical_mode |-> 3,
                          word_length |-> 1, parity |-> 2, stop_bits |-> 1, rx_enabled |-> 0,
                          tx_enabled |-> 1]),
     i2c         |-> Same(I2cChannels, ZeroOf(I2cWritten)),
     extension_data |-> Opaque(2)])

Pwm(p, d)   == [period_nanoseconds |-> p, duty_cycle_permyriad |-> d]
Instruction == Message("TEST_INSTRUCTION", 1,
    [tick_number |-> 1, digital_outputs |-> Same(DigitalOutputs, [high |-> 1]),
     analog_outputs |-> Same(AnalogOutputs, [microvolts |-> 3]),
     pwm_outputs |-> Same(PwmOutputs, Pwm(9, 4))])
TestResult  == Message("TEST_RESULT", 1,
    [tick_number |-> 1, digital_inputs |-> Same(DigitalInputs, [high |-> 1]),
     analog_inputs |-> Same(AnalogInputs, [microvolts |-> 3]),
     pwm_inputs |-> Same(PwmInputs, Pwm(9, 4)), condition |-> 1, problem_detail |-> 6])

Rec(peripheral, channel, ws, n) ==
    [peripheral_type |-> peripheral, channel |-> channel, span |-> Span(n, Cells(ws))]
CanFrame == <<<<2, 5>>, <<1, 8>>, <<8, 7>>, <<1, 0>>>>
Operations(rs) == Message("UPDATE_INSTRUCTION", 1, [tick_number |-> 1, flags |-> 0, records |-> rs])
Captures(rs)   == Message("VARIABLE_TEST_RESULT", 1,
    [tick_number |-> 1, condition |-> 1, flags |-> 1, problem_detail |-> 3, records |-> rs])
Updates == {Operations(<<Rec(2, 0, <<<<2, 3>>>>, 2), Rec(4, 0, <<<<4, 9>>>>, 4),
                         Rec(17, 0, <<<<1, 1>>, <<1, 1>>, <<1, 7>>>>, 3)>>),
            Operations(<<Rec(6, 0, <<<<4, 9>>, <<2, 4>>>>, 6), Rec(16, 0, <<<<5, 7>>>>, 5),
                         Rec(19, 0, CanFrame, 12)>>),
            Operations(<<Rec(16, 0, <<<<4, 7>>>>, 4), Rec(16, 0, <<<<4, 7>>>>, 4)>>),
            Operations(<<>>)}
Results == {Captures(<<>>),
            Captures(<<Rec(1, 0, <<<<2, 3>>>>, 2), Rec(3, 0, <<<<4, 9>>>>, 4),
                       Rec(5, 0, <<<<4, 9>>, <<2, 4>>>>, 6)>>),
            Captures(<<Rec(16, 0, <<<<1, 7>>>>, 1), Rec(17, 0, <<<<2, 7>>>>, 2),
                       Rec(19, 0, CanFrame, 12)>>)}

Control(type, has) == Message(type, has, [command |-> 1, flags |-> 0])
Finalize == Message("FINALIZE_TEST_UPLOAD", 1, [flags |-> 0])
Response == Message("RESPONSE", 1, [scope |-> 2, outcome |-> 1, reason |-> 0, tick_number |-> 3,
                control_command |-> 1, global_control_command |-> 2, detail |-> 6])
Error    == Message("ERROR", 1, [category |-> 2, recoverable |-> 1, has_tick_number |-> 1,
                tick_number |-> 3, detail |-> 6, diagnostic_data |-> Opaque(3)])
EarlyError == Message("ERROR", 0, [category |-> 2, recoverable |-> 0, has_tick_number |-> 0,
                tick_number |-> 0, detail |-> 6, diagnostic_data |-> Opaque(0)])
RigReady == Message("RIG_STATUS", 0, [schema_version |-> 1, origin |-> 2, state |-> 2, flags |-> 5,
                failure_source |-> 0, failure_stage |-> 0, failure_reason |-> 0])
Report   == Message("RUN_REPORT", 1,
    [schema_version |-> 1, run_outcome |-> 2, execution_outcome |-> 3, result_status |-> 2,
     failure_source |-> 2, failure_stage |-> 2, failure_reason |-> 17, valid_sections |-> 55,
     expected_tick_count |-> 4, tick_period_us |-> 1000, last_completed_boundary |-> 3,
     result_ticks_emitted |-> 2,
     isr_timing |-> [sample_count |-> 2, total_cycles |-> 9, minimum_cycles |-> 4,
                     maximum_cycles |-> 5, maximum_boundary |-> 1],
     instruction_buffer |-> ZeroOf(InstructionBufferWritten),
     result_buffer |-> [ZeroOf(ResultBufferWritten) EXCEPT !.peak_pending_boundary = 2],
     flash |-> [f \in DOMAIN FlashWritten |-> 3], extension_data |-> Opaque(1)])
ArbitraryControl == Message("ARBITRARY_CONTROL", 0, [control_id |-> 3, value |-> 8])
ArbitraryData    == Message("ARBITRARY_DATA", 1, [data_id |-> 3, payload |-> Opaque(2)])

\* Good messages, one or two of a family.
Base == {Request, Info, Configuration, Instruction, TestResult, Finalize, Response, Error, EarlyError,
         RigReady, Report, ArbitraryControl, ArbitraryData,
         Control("EXECUTION_CONTROL", 1), Control("GLOBAL_CONTROL", 0)} \cup Updates \cup Results

\* A message with one of its body's numbers replaced, and with another envelope.
Vary(m, fields)       == {[m EXCEPT !.body[f] = v] : f \in fields, v \in MCFieldValues}
VaryIn(m, at, fields) == {[m EXCEPT !.body[at][1][f] = v] : f \in fields, v \in MCFieldValues}
VarySection(m, at, fields) == {[m EXCEPT !.body[at][f] = v] : f \in fields, v \in {0, 9}}
Varied ==
    Vary(Request, DOMAIN RequestWritten) \cup Vary(Info, DOMAIN InfoWritten)
    \cup Vary(Configuration, DOMAIN ConfigurationGlobalsWritten)
    \cup VaryIn(Configuration, "digital_in", DOMAIN DigitalInputWritten)
    \cup VaryIn(Configuration, "pwm_out", DOMAIN PwmOutputWritten)
    \cup VaryIn(Configuration, "uart", DOMAIN UartWritten)
    \cup VaryIn(Configuration, "i2c", DOMAIN I2cWritten)
    \cup Vary(Finalize, {"flags"}) \cup Vary(Response, DOMAIN ResponseWritten)
    \cup Vary(Error, DOMAIN ErrorWritten) \cup Vary(RigReady, DOMAIN RigStatusWritten)
    \cup Vary(Report, DOMAIN ReportWritten)
    \cup VarySection(Report, "isr_timing", DOMAIN IsrTimingWritten)
    \cup VarySection(Report, "instruction_buffer", DOMAIN InstructionBufferWritten)
    \cup VarySection(Report, "flash", DOMAIN FlashWritten)
    \cup {[m EXCEPT !.has_test_id = v] : m \in Base, v \in {0, 1, 2}}
    \cup {[m EXCEPT !.subtype = "RESERVED"] : m \in Base}
    \cup {[Info EXCEPT !.body.diagnostic_data = Opaque(n)] : n \in {0, 40, 41}}
    \cup {[ArbitraryData EXCEPT !.body.payload = Opaque(n)] : n \in {0, 40, 41}}

Setup(senders, receivers, messages, values) ==
    [senders |-> senders, receivers |-> receivers, messages |-> messages,
     damage |-> values # {}, values |-> values]

\* Good messages and what damage makes of them; and varied ones, undamaged.
MCExchanges == [damaged |-> Setup(MCOneConfig, MCReceiverConfigs, Base, MCFieldValues),
                varied  |-> Setup(MCSenderConfigs, MCOneConfig, Base \cup Varied, {})]
\* A damaged configuration before a rig with a smaller limit.
MCSmallRig == [small |-> Setup(MCOneConfig, MCSmallerRig, {Configuration}, MCFieldValues)]
\* Records beyond one byte's range between ends whose limits allow them.
MCLongRecord == [long |-> Setup(MCLargeConfig, MCLargeConfig,
                       {Operations(<<Rec(16, 0, <<<<n, 7>>>>, n)>>) : n \in {4, 256}}, {})]
=============================================================================
