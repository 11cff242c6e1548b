SPECIFICATION Spec
CONSTANTS
    small = small
    large = large
    Keys = {k1, k2}
    Objects = {small, large}
    Size <- MCSize
    NoKey = NoKey
    NoObject = NoObject
    Broken = Broken
    Queues = {"sync"}
    Expiries <- MCExpiries
    NoExpiry = NoExpiry
    MemoryExpiry <- MCMemoryExpiry
    DiskExpiry <- MCDiskExpiry
    MaxSize = 4
    MaxTime = 1
SYMMETRY MCSymmetry
INVARIANTS
    TypeOK
    Coherent
    FileOutlives
    KeysCover
    OkMeansDone
PROPERTIES
    NothingResurfaces
