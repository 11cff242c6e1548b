SPECIFICATION Spec
CONSTANTS
    MaxCalls = 3
    Spaced = TRUE
    Preempted = TRUE
INVARIANT
    MessageHasEnd
