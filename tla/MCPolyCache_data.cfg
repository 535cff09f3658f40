\* A sparse file whose second node is cached: two tasks on different
\* devices fill the first node's hole, rewrite and read across the
\* boundary against dispatch, write-back and reload, then the library exits.
CONSTANTS
    Threads = {t1, t2}
    Pool = {p1, p2}
    t1 = t1  t2 = t2  p1 = p1  p2 = p2
    NQueues = 2
    NodeSize = 2
    NodeNr = 2
    MaxIndexNode = 2
    FlushBegin = 1
    FlushEnd = 1
    Reqs <- MCReqsMixed
    MaxOps = 2
    TaskPlacement <- MCPlacement
    InitNodes = {1}
    Zero = Zero  Garbage = Garbage  NoBuf = NoBuf  None = None
SPECIFICATION Spec
INVARIANT TypeOK
INVARIANT CachedDataCoherent
INVARIANT ListMembershipSound
INVARIANT DurableAtExit
CHECK_DEADLOCK FALSE
