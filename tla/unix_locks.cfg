SPECIFICATION Spec
CONSTANTS
    a = a
    b = b
    c = c
    d = d
    Files = {a, b, c, d}
    Procs = {"app", "extension"}
    Owner <- MCOwner
    Main = {c}
    Writers = {a, b}
    MaxStale = 1
SYMMETRY MCSymmetry
INVARIANTS
    TypeOK
    InodeAgrees
    LockBacked
    SleepersQueued
    HeadWaits
    WokenWhenUnlocked
PROPERTIES
    RefinesFileLock
