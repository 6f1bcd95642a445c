SPECIFICATION FairSpec
CONSTANTS
    SequenceModulus = 4
    InitialSequence = 3
    MaxSessionId = 2
    MaxRetries = 2
    NoMessage = NoMessage
    m1 = m1
    Messages <- MCMessages
    Offered <- MCOffered
    Acknowledgements <- MCAcknowledgements
    TimeModulus = 4
    RetransmitTimeout = 2
INVARIANTS
    TypeOK
    NeverFaults
    PinnedUnchanged
    TransmissionBound
    TimeoutExact
    ResetBarrier
PROPERTIES
    CompletionWasTransmitted
    StarvedOnlyByControl
