SPECIFICATION Spec
CONSTANTS
    NonzeroBytes <- MCNonzeroBytes
    Capacity = 3
    MaxSegment = 5
INVARIANTS
    TypeOK
PROPERTY
    ImplementsSegmentStream
