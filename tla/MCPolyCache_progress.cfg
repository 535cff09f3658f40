\* Liveness: a writer across the node boundary and a reader, with dispatch
\* and write-back racing them; every call returns, every victim is evicted.
CONSTANTS
    Threads = {t1, t2}
    Pool = {p1, p2}
    t1 = t1  t2 = t2  p1 = p1  p2 = p2
    NQueues = 2
    NodeSize = 2
    NodeNr = 2
    MaxIndexNode = 2
    FlushBegin = 1
    FlushEnd = 1
    Reqs <- MCReqsProgress
    MaxOps = 2
    TaskPlacement <- MCPlacement
    InitNodes = {0, 1}
    Zero = Zero  Garbage = Garbage  NoBuf = NoBuf  None = None
SPECIFICATION Spec
PROPERTY FileRefined
PROPERTY VictimsEventuallyEvicted
PROPERTY OperationsComplete
CHECK_DEADLOCK FALSE
