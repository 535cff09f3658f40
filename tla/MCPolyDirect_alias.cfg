\* Two tasks on the fast device each fill a new node past the end of the
\* file: both read the end of the physical file before either writes.
CONSTANTS
    Threads = {t1, t2}
    t1 = t1  t2 = t2
    NodeSize = 4
    NodeNr = 3
    MaxIndexNode = 3
    Reqs <- MCReqsTwoHoles
    MaxOps = 1
    TaskPlacement <- MCSameDevice
    InitNodes <- MCInitNodes
    Zero = Zero  Old = Old  None = None
SPECIFICATION Spec
INVARIANT PhysicalDisjoint
CHECK_DEADLOCK FALSE
