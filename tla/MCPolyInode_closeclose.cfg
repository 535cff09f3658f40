\* Two threads share a path: a close of the last reference and an unlink
\* (or two closes) each test refcount and reclaim in the library before
\* the kernel acts, so neither drops the cache and the kernel frees the
\* inode with its interval still holding a buffer.
SPECIFICATION Spec
CONSTANTS
    t1 = t1  t2 = t2  A = A  B = B
    None = None  Orphan = Orphan
    Threads <- MCTwo
    Paths = {A}
    MaxIno = 2
    MaxOps = 4
    Calls <- MCCallsUnlink
PROPERTY FreedInodeCacheDropped
CHECK_DEADLOCK FALSE
