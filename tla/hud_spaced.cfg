SPECIFICATION FairSpec
CONSTANTS
    MaxCalls = 4
    Spaced = TRUE
    Preempted = FALSE
INVARIANTS
    OnlyLoadingRemains
    ArmedIsRegistered
PROPERTY
    MessageEnds
