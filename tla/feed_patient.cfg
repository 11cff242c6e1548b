SPECIFICATION Spec
CONSTANTS
    Step = 20
    MaxPulls = 5
    Patient = TRUE
    Faults = {}
PROPERTY
    RefinesPagedFeed
