SPECIFICATION LiveSpec
CONSTANTS
    SequenceModulus = 4
    InitialSequence = 3
    MaxSessionId = 6
    MaxRetries = 1
    EventCapacity = 2
    NoMessage = 0
    ChannelCapacity = 2
    Messages <- MCMessages
    Scenarios <- MCFaults
INVARIANTS
    HostSessionWasJoined
    Fresh
PROPERTIES
    HostToRigService
    ConvergesUnlessUnnoticed
    OutcomeIsDecided
