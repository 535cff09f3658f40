\* Two threads: one opens a path while the other closes and unlinks it.
SPECIFICATION Spec
CONSTANTS
    t1 = t1  t2 = t2  A = A  B = B
    None = None  Orphan = Orphan
    Threads <- MCTwo
    Paths = {A, B}
    MaxIno = 3
    MaxOps = 3
    Calls <- MCCallsUnlink
INVARIANT OpenFilesLive

CHECK_DEADLOCK FALSE
