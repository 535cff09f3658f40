----------------------------- MODULE MCPolyDirect -----------------------------
(* Instantiation of PolyDirect for TLC: nodes of four bytes, a file range   *)
(* of three nodes, and a first node written to the slow device earlier.   *)
EXTENDS PolyDirect, TLC

CONSTANTS t1, t2

W(o, n) == [op |-> "write", off |-> o, cnt |-> n]
R(o, n) == [op |-> "read", off |-> o, cnt |-> n]
A(o, n) == [op |-> "append", off |-> o, cnt |-> n]

MCThreads == {t1, t2}
MCInitNodes == [n \in {0} |-> "slow"]

\* One writer on the fast device and one reader: t1 writes across the end
\* of node 0 into a new partly filled node 1, writes the start of node 2
\* (leaving node 1 missing if it comes first), and appends at the size;
\* t2 reads the first two nodes and the last two while t1 runs.
MCPlacement == [t \in MCThreads |-> IF t = t1 THEN "fast" ELSE "slow"]
MCReqsOneWriter == [t \in MCThreads |->
                      IF t = t1 THEN {W(2, 6), W(8, 2), A(-1, 2)}
                      ELSE {R(0, 8), R(4, 8)}]

\* Two writers on the fast device, each filling a node of its own past the
\* end of the file.
MCSameDevice == [t \in MCThreads |-> "fast"]
MCReqsTwoHoles == [t \in MCThreads |-> IF t = t1 THEN {W(4, 4)} ELSE {W(8, 4)}]
====
