SPECIFICATION Spec
CONSTANTS
    Experts = 2
    NL = 2
    MaxAf = 28
    Tokens = 2
    Requests = 2
    MaskBits = 4
    BatchMax = 8
    DeviceBatch = 5
    CbatchN = 4
    DefaultSlots = 2
    Positions = 4
    LanePositions = 2
    Jobs <- MCJobs
INVARIANT PromotedAreResident
