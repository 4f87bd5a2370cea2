SPECIFICATION Spec
CONSTANTS
    NThreads = 4
    Outs = {2, 7}
    GenMod = 2
INVARIANT TypeOK
INVARIANT EveryRowOnce
PROPERTY JobStableWhileRead
PROPERTY ImplementsForkJoin
PROPERTY StopCompletes
CHECK_DEADLOCK FALSE
