\* Two threads opening, writing and closing one path concurrently.
SPECIFICATION Spec
CONSTANTS
    t1 = t1  t2 = t2  A = A  B = B
    None = None  Orphan = Orphan
    Threads <- MCTwo
    Paths = {A, B}
    MaxIno = 3
    MaxOps = 4
    Calls <- MCCallsOpen
INVARIANT OnePathOneInode RefcountAccounting
SYMMETRY MCThreadsSym
CHECK_DEADLOCK FALSE
