SPECIFICATION Spec
CONSTANTS
    a = a
    b = b
    Targets = {a, b}
    Widths = {5, 9}
    Lines <- MCLines
    Demotions = {{}, {a}}
    MaxTxns = 2
    MaxCrashes = 1
    None = None
INVARIANT TypeOK
INVARIANT AckIsRuntimeState
INVARIANT BindingsAreRecorded
PROPERTY AppliedToSeenPolicy
PROPERTY CommandIsAnswered
CHECK_DEADLOCK FALSE
