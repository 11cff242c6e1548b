SPECIFICATION Spec
CONSTANTS
    Step = 20
    MaxPulls = 4
    Patient = FALSE
    Faults = {"network"}
INVARIANTS
    TypeOK
    SpinnerHasCause
    LoadMoreExclusive
    TopIsCached
