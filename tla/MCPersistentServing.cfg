SPECIFICATION Spec
CONSTANTS
    Callers = {a, b}
    Kinds = {"direct", "policy", "adaptive"}
    Low = Low
    High = High
    Parts = 2
    MaxCalls = 2
    MaxTimeouts = 1
    MaxCrashes = 1
    MaxRestarts = 1
    None = None
CHECK_DEADLOCK FALSE
INVARIANT TypeOK
INVARIANT AnswersAsAdmitted
PROPERTY NoInheritedCommand
PROPERTY ServedOnce
PROPERTY EveryCallEnds
