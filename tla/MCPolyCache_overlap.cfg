\* Two tasks write the same uncovered node of an empty file.
CONSTANTS
    Threads = {t1, t2}
    Pool = {p1, p2}
    t1 = t1  t2 = t2  p1 = p1  p2 = p2
    NQueues = 2
    NodeSize = 2
    NodeNr = 2
    MaxIndexNode = 2
    FlushBegin = 1
    FlushEnd = 1
    Reqs <- MCReqsSameHole
    MaxOps = 1
    TaskPlacement <- MCPlacement
    InitNodes = {}
    Zero = Zero  Garbage = Garbage  NoBuf = NoBuf  None = None
SPECIFICATION Spec
INVARIANT IndexNonOverlap
CHECK_DEADLOCK FALSE
