\* One writer on the fast device and a reader of the slow and fast nodes:
\* the direct engine implements the byte file, intervals never share
\* physical bytes, and every call returns.
CONSTANTS
    Threads = {t1, t2}
    t1 = t1  t2 = t2
    NodeSize = 4
    NodeNr = 3
    MaxIndexNode = 3
    Reqs <- MCReqsOneWriter
    MaxOps = 3
    TaskPlacement <- MCPlacement
    InitNodes <- MCInitNodes
    Zero = Zero  Old = Old  None = None
SPECIFICATION Spec
INVARIANT TypeOK
INVARIANT PhysicalDisjoint
PROPERTY FileRefined
PROPERTY CallsReturn
CHECK_DEADLOCK FALSE
