SPECIFICATION Spec
CONSTANTS
    RunMax = 3
    SizeMax = 63
    RootSize = 3
    ProtocolVersion = 1
    FrameTypes <- MCFrameTypes
    ApplicationType = 4
    Crc <- MCCrc
    Configs <- MCConfigs
    Workspaces <- MCWorkspaces
    Frames <- MCFrames
    MaxFrames = 3
    MaxBodies = 2
    MaxChunk = 2
    MaxFaults = 1
    NewBytes = {0, 2}
INVARIANTS
    TypeOK
    LayoutFits
    NothingFaults
    UndamagedArrivesInOrder
    DamageStaysLocal
    NoInputBlocks
