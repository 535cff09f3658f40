\* The main thread, registered at init, and two threads starting, doing
\* I/O and exiting while the scheduler walks the task list; a split point
\* of two fast tasks, so that registration picks both devices.
SPECIFICATION Spec
CONSTANTS
    m = m  t1 = t1  t2 = t2
    Main = m
    Threads <- MCThreads
    SplitPoint = 2
    LowThrput = 1
INVARIANT TypeOK UsageAccounting
SYMMETRY MCThreadsSym
