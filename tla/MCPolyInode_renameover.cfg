\* One thread renames a path onto another path that has an inode.
SPECIFICATION Spec
CONSTANTS
    t1 = t1  t2 = t2  A = A  B = B
    None = None  Orphan = Orphan
    Threads <- MCOne
    Paths = {A, B}
    MaxIno = 3
    MaxOps = 4
    Calls <- MCCallsRename
INVARIANT OnePathOneInode

CHECK_DEADLOCK FALSE
