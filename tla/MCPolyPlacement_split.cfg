\* A thread registering while the scheduler promotes a slow task: the
\* split point of two fast tasks (one of them the main thread) is exceeded.
SPECIFICATION Spec
CONSTANTS
    m = m  t1 = t1  t2 = t2
    Main = m
    Threads <- MCThreads
    SplitPoint = 2
    LowThrput = 1
INVARIANT FastWithinSplit
SYMMETRY MCThreadsSym
