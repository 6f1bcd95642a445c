SPECIFICATION Spec
CONSTANTS
    DigitalInputs = 2  DigitalOutputs = 2
    AnalogInputs = 1   AnalogOutputs = 1
    PwmInputs = 1      PwmOutputs = 1
    CanChannels = 1    UartChannels = 1
    SpiChannels = 1    I2cChannels = 1
    RecordStructSize = 24
    StorageAlignment = 16
    AbsoluteMaxMessage = 320
    AbsoluteMaxVariable = 300
    AbsoluteMaxTicks = 4
    Setups <- MCLongRecord
INVARIANT
    RecordsFitOneByte
