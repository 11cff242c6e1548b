CONSTANTS
    a = a
    b = b
    Handles = {a, b}
    Readers = {a, b}
    Writers = {a}
    Checkpointers = {a, b}
    NPages = 2
    NSlots = 1
    Modes <- MCModes
    MaxFrames = 2
    MaxTxns = 2
    MaxCrashes = 1
    Nobody = Nobody
SPECIFICATION Spec
INVARIANTS
    TypeOK
    Snapshot
    NothingLost
    NotOvertaken
