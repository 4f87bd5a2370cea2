SPECIFICATION Spec
CONSTANTS
    Tokens <- Vocabulary
    W = 2
    MaxSeq = 8
    Jobs <- MCJobs
    Table <- MCTable
    B = 2
    R = 3
    Reps = 2
    BenchReps = 2
    BenchWarm = 1
    MaxSpec = 4
    PChunk = 3
    Cap <- MCCap
    Window = 6
    MoeMaxPos = 8
    CbMaxPos = 6
    BatchMax = 6
    GateWarm = 1
    Eos = {2}
    Garbled = Garbled
INVARIANT TypeOK
INVARIANT ReadsOwnContext
INVARIANT AnswersComplete
PROPERTY ImplementsGreedy
PROPERTY Terminates
