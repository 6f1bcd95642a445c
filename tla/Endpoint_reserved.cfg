SPECIFICATION Spec
CONSTANTS
    SequenceModulus = 4
    InitialSequence = 3
    MaxSessionId = 2
    MaxRetries = 1
    EventCapacity = 2
    NoMessage = NoMessage
    m1 = m1
    m2 = m2
    Messages <- MCMessages
    Ids = {1, 2}
    OpeningSeqs = {3, 1}
    ConfirmSeqs = {0}
    ApplicationSeqs = {0, 1, 2}
    Acks = {3, 0}
    Inputs <- MCInputs
PROPERTY
    ReservedIdentityIsMalformed
