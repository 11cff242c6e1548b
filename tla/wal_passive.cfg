CONSTANTS
    a = a
    b = b
    Handles = {a, b}
    Readers = {a}
    Writers = {a}
    Checkpointers = {b}
    NPages = 1
    NSlots = 1
    Modes <- MCPassive
    MaxFrames = 2
    MaxTxns = 2
    MaxCrashes = 0
    Nobody = Nobody
SPECIFICATION Spec
INVARIANTS
    Snapshot
