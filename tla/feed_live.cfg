SPECIFICATION FairSpec
CONSTANTS
    Step = 20
    MaxPulls = 3
    Patient = FALSE
    Faults = {"network", "storage"}
PROPERTIES
    SpinnerStops
    FirstPageArrives
