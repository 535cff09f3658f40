----------------------------- MODULE MCPolyCache -----------------------------
(* Instantiation of PolyCache for TLC: two foreground tasks, two flushing   *)
(* queues served by a pool of two threads, nodes of two bytes, and a cache *)
(* high-water mark of one node so that the second admitted interval        *)
(* triggers a dispatch.                                                    *)
EXTENDS PolyCache, TLC

CONSTANTS t1, t2, p1, p2

W(o, n) == [op |-> "write", off |-> o, cnt |-> n]
R(o, n) == [op |-> "read", off |-> o, cnt |-> n]
A(o, n) == [op |-> "append", off |-> o, cnt |-> n]
S(o, w) == [op |-> "seek", off |-> o, cnt |-> 1, whence |-> w]

MCThreads == {t1, t2}
MCPool == {p1, p2}
MCPlacement == [t \in MCThreads |-> IF t = t1 THEN "fast" ELSE "slow"]

\* For the liveness run: a write across the node boundary,
\* a seek to the last node and an append there, and a read of the file.
MCReqsProgress == [t \in MCThreads |->
                     IF t = t1 THEN {W(1, 2), S(-2, "end"), A(-1, 2)} ELSE {R(0, 4)}]

\* A sparse file written only in its second node and flushed: t1 fills the
\* hole of the first node, by a write or by an append at its position, and
\* rewrites the cached one; t2 rewrites the last byte of the cached node
\* and reads the whole file across the boundary.
MCReqsMixed == [t \in MCThreads |->
                  IF t = t1 THEN {W(0, 2), A(-1, 2), W(2, 2)} ELSE {W(3, 1), R(0, 4)}]

\* Violation scenario: both tasks write the same new node.
MCReqsSameHole == [t \in MCThreads |-> {W(0, 2)}]

\* foreground tasks with the same requests and device are interchangeable,
\* and so are the pool threads
MCSymmetry == Permutations(MCThreads) \cup Permutations(MCPool)
MCSameDevice == [t \in MCThreads |-> "fast"]
====
