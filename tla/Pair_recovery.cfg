SPECIFICATION LiveSpec
CONSTANTS
    SequenceModulus = 4
    InitialSequence = 3
    MaxSessionId = 3
    MaxRetries = 1
    EventCapacity = 2
    NoMessage = 0
    ChannelCapacity = 2
    Messages <- MCMessages
    Scenarios <- MCRecovery
PROPERTIES
    ConvergesAfterHardRecovery
