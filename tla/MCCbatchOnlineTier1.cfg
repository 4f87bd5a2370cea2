SPECIFICATION VSpec
CONSTANTS
    B = 2
    R = 3
    PfB = 3
    LastArrival = 4
    BatchMax = 3
    MaxPos = 4
    Gates <- MCTier1Gates
    Lanes = 1
    VerifyBudget = 3
    Workloads <- MCWorkloads
    MaxRuns = 2
    MaxAsked = 2
INVARIANT OneWeightPolicy
CHECK_DEADLOCK FALSE
