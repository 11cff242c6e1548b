SPECIFICATION Spec
CONSTANTS
    MaxCalls = 3
    Spaced = FALSE
    Preempted = FALSE
INVARIANTS
    TypeOK
    WindowRestored
    MessageHasEnd
