SPECIFICATION VSpec
CONSTANTS
    B = 2
    R = 3
    PfB = 3
    LastArrival = 4
    BatchMax = 3
    MaxPos = 4
    Gates <- MCGates
    Lanes = 1
    VerifyBudget = 3
    Workloads <- MCWorkloads
    MaxRuns = 2
    MaxAsked = 2
INVARIANT TypeOK
INVARIANT AttendsOwnContext
INVARIANT ResourcesFit
INVARIANT AnswersComplete
INVARIANT EmitsFreshLogits
INVARIANT ShadowLanesHold
PROPERTY ChangeIsAnswered
PROPERTY ImplementsEpochServing
CHECK_DEADLOCK FALSE
