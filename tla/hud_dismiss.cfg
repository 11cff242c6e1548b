SPECIFICATION Spec
CONSTANTS
    MaxCalls = 3
    Spaced = FALSE
    Preempted = FALSE
INVARIANT
    DismissHides
