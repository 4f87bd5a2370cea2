SPECIFICATION Spec
CONSTANTS
    Callers = {a, b}
    Kinds = {"adaptive"}
    Low = Low
    High = High
    Parts = 2
    MaxCalls = 2
    MaxTimeouts = 1
    MaxCrashes = 0
    MaxRestarts = 0
    None = None
CHECK_DEADLOCK FALSE
INVARIANT BasePassAtBase
