CONSTANTS
    s1 = s1
    s2 = s2
    n1 = n1
    n2 = n2
    n3 = n3
    RootSec = RootSec
    RootNext = RootNext
    Garbage = Garbage
    SecIds <- MCSecIds
    NextIds <- MCNextIds
    MaxAttr = 1
    MkdirMayFail = TRUE
SPECIFICATION Spec
SYMMETRY MCSymmetry
INVARIANT NoOrphanNext
