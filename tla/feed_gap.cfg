SPECIFICATION Spec
CONSTANTS
    Step = 20
    MaxPulls = 4
    Patient = TRUE
    Faults = {"network"}
INVARIANT
    ContinuesIndexing
