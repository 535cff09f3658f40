\* One application thread: open, write, close, rename and unlink, racing
\* the cache flusher.
SPECIFICATION Spec
CONSTANTS
    t1 = t1  t2 = t2  A = A  B = B
    None = None  Orphan = Orphan
    Threads <- MCOne
    Paths = {A, B}
    MaxIno = 2
    MaxOps = 4
    Calls <- MCCallsSeq
INVARIANT TypeOK OpenFilesLive UserMapAgrees

CHECK_DEADLOCK FALSE
