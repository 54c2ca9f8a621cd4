SPECIFICATION Spec
CONSTANTS
    t1 = t1
    f1 = f1
    f2 = f2
    Threads <- MCThreads
    Forks <- MCForks
    MaxHead = 2
    SectionSize = 1
    ULC = TRUE
    Nil = Nil
    Err = Err
SYMMETRY Symmetry
INVARIANT TypeOK
INVARIANT ChainDbClosedLast
INVARIANT NodeInfoIsLowerBound
CHECK_DEADLOCK FALSE
