------------------------------ MODULE PolyDirect ------------------------------
(***************************************************************************)
(* The direct I/O engine of PolyStore for one inode (io_direct.c): a read  *)
(* or write walks the intervals of the index overlapping its range under   *)
(* the tree read lock and moves each piece with one pread or pwrite on the *)
(* physical file of the interval's device; a write then fills the hole at  *)
(* the end of its range with new intervals, each placed at the end of the  *)
(* physical file (lseek SEEK_END, rounded up to a node), written, and      *)
(* inserted under the tree write lock; last it raises the inode size with  *)
(* no lock.  An append holds the write lock from its lookup, which starts  *)
(* at the inode size, to its size update.                                  *)
(*                                                                         *)
(* The size field of an interval is left out: only ftruncate reads it.    *)
(* Data is one value per byte: a writer writes its own thread id; bytes of *)
(* the file before the run hold Old; a sparse physical file reads Zero.    *)
(***************************************************************************)
EXTENDS Integers, FiniteSets

CONSTANTS
    Threads,        \* tasks issuing I/O on the inode
    NodeSize,       \* POLY_INDEX_NODE_SIZE, scaled
    NodeNr,         \* number of nodes of the file range modelled
    MaxIndexNode,   \* MAX_POLY_INDEX_NODE_NR, scaled
    Reqs,           \* [Threads -> set of requests a thread may issue]
    MaxOps,         \* bound on the requests issued per thread
    TaskPlacement,  \* [Threads -> Devices]: task_ctx->placement
    InitNodes,      \* [nodes -> Devices]: intervals written before the run
    Zero, Old, None

Devices == {"fast", "slow"}
FileBytes == 0 .. NodeSize * NodeNr - 1
EntryIds == 1 .. MaxIndexNode
PhysBytes == 0 .. NodeSize * MaxIndexNode - 1
MaxCnt == NodeSize * NodeNr
BufIdx == 0 .. MaxCnt - 1
Vals == Threads \cup {Zero, Old}

ASSUME \A t \in Threads : \A r \in Reqs[t] :
         r.op \in {"read", "write", "append"} /\ r.cnt \in 1 .. MaxCnt
         /\ (r.off = -1 \/ r.off \in FileBytes)
ASSUME DOMAIN InitNodes \subseteq 0 .. NodeNr - 1

VARIABLES
    index,      \* set of entries inserted in the interval tree
    nextNo,     \* next_avail_it_node_no
    ent,        \* [EntryIds -> [node, dev, off]] struct it_node_entry
    phys,       \* [Devices -> [PhysBytes -> Vals]] the physical files
    physLen,    \* [Devices -> Nat] their lengths (what lseek SEEK_END returns)
    inodeSize,  \* inode->size
    readers,    \* threads holding it_tree_lock for reading
    writer,     \* the thread holding it for writing, or None
    pc, req, start, end, copied, cur, snap, pos, nops,
    rbuf        \* [Threads -> [BufIdx -> Vals \cup {None}]] the caller's buffer

vars == <<index, nextNo, ent, phys, physLen, inodeSize, readers, writer,
          pc, req, start, end, copied, cur, snap, pos, nops, rbuf>>

-----------------------------------------------------------------------------
(* Helpers *)

Larger(a, b) == IF a > b THEN a ELSE b
Smaller(a, b) == IF a < b THEN a ELSE b
Base(e) == ent[e].node * NodeSize
Last(e) == Base(e) + NodeSize - 1

\* interval_tree_iter_first / _next: the first interval overlapping
\* [start, end] after the one last visited, in tree order (start, then entry)
Overlapping(s, l) == {e \in index : Base(e) <= l /\ Last(e) >= s}
Precedes(e, f) == ent[e].node < ent[f].node \/ (ent[e].node = ent[f].node /\ e <= f)
Follows(f, e) == e = None \/ (f # e /\ Precedes(e, f))
NextOverlap(t) ==
    LET c == {f \in Overlapping(start[t], end[t]) : Follows(f, cur[t])}
    IN  {e \in c : \A f \in c : Precedes(e, f)}

\* it_buf_start, it_buf_count and the next start of the walk
ChunkStart(t, e) == start[t] - Base(e)
\* the offset of the pread or pwrite: unchecked, so a hole before the
\* interval (ChunkStart < 0) moves it into the bytes placed before it
PhysStart(t, e) == ent[e].off + ChunkStart(t, e)
\* mutant: the piece not clamped to the end of the range
ChunkCountNoClamp(t, e) == Last(e) - start[t] + 1
ChunkCount(t, e) == IF Last(e) < end[t] THEN Last(e) - start[t] + 1 ELSE end[t] - start[t] + 1
NextStart(t, e) == IF Last(e) < end[t] THEN Last(e) + 1 ELSE end[t] + 1
Advance(t, n) == IF req[t].off < 0 THEN pos[t] + n ELSE pos[t]

\* pread returns the bytes of [p, p + n) that lie before the end of the file
PreadCount(d, p, n) == IF p >= physLen[d] THEN 0 ELSE Smaller(n, physLen[d] - p)
\* pwrite of n bytes of value v at p
Pwrite(d, p, n, v) ==
    /\ phys' = [phys EXCEPT ![d] = [b \in PhysBytes |-> IF p <= b /\ b < p + n THEN v ELSE @[b]]]
    /\ physLen' = [physLen EXCEPT ![d] = Larger(@, p + n)]

\* the offset of a new interval: lseek(SEEK_END) rounded up to a node
\* mutant: the end of the file taken as the offset, not rounded up
NodeEnd(p) == p
CeilNode(p) == IF p % NodeSize = 0 THEN p ELSE (p \div NodeSize + 1) * NodeSize

NoReq == [op |-> "read", off |-> 0, cnt |-> 1]
NoEntry == [node |-> 0, dev |-> "fast", off |-> 0]
EmptyBuf == [i \in BufIdx |-> None]

\* a call returns: its locals go out of scope
Return(t) ==
    /\ pc' = [pc EXCEPT ![t] = "idle"]
    /\ req' = [req EXCEPT ![t] = NoReq]
    /\ start' = [start EXCEPT ![t] = 0]
    /\ end' = [end EXCEPT ![t] = 0]
    /\ copied' = [copied EXCEPT ![t] = 0]
    /\ cur' = [cur EXCEPT ![t] = None]
    /\ snap' = [snap EXCEPT ![t] = 0]

-----------------------------------------------------------------------------
(* Init: a file whose InitNodes were written earlier, in node order, each   *)
(* at the end of the physical file of its device                           *)

InitList == DOMAIN InitNodes
InitId(n) == Cardinality({m \in InitList : m <= n})
InitOff(n) == NodeSize * Cardinality({m \in InitList : m < n /\ InitNodes[m] = InitNodes[n]})
InitCount(d) == Cardinality({n \in InitList : InitNodes[n] = d})

Init ==
    /\ index = {InitId(n) : n \in InitList}
    /\ nextNo = Cardinality(InitList) + 1
    /\ ent = [e \in EntryIds |->
                IF \E n \in InitList : InitId(n) = e
                THEN LET n == CHOOSE n \in InitList : InitId(n) = e
                     IN  [node |-> n, dev |-> InitNodes[n], off |-> InitOff(n)]
                ELSE NoEntry]
    /\ phys = [d \in Devices |-> [b \in PhysBytes |-> IF b < NodeSize * InitCount(d) THEN Old ELSE Zero]]
    /\ physLen = [d \in Devices |-> NodeSize * InitCount(d)]
    /\ inodeSize = IF InitList = {} THEN 0 ELSE NodeSize * (CHOOSE n \in InitList : \A m \in InitList : m <= n) + NodeSize
    /\ readers = {}
    /\ writer = None
    /\ pc = [t \in Threads |-> "idle"]
    /\ req = [t \in Threads |-> NoReq]
    /\ start = [t \in Threads |-> 0]
    /\ end = [t \in Threads |-> 0]
    /\ copied = [t \in Threads |-> 0]
    /\ cur = [t \in Threads |-> None]
    /\ snap = [t \in Threads |-> 0]
    /\ pos = [t \in Threads |-> 0]
    /\ nops = [t \in Threads |-> 0]
    /\ rbuf = [t \in Threads |-> EmptyBuf]

-----------------------------------------------------------------------------
(* A call enters the engine (polystore_write_generic / _read_generic with  *)
(* placement BOTH): a read or write sets its range from the file offset or *)
(* the position given and takes the tree lock for reading; an append takes *)
(* it for writing and starts its range at the inode size.                  *)

\* polystore_io_set_range: the file offset for a sequential call, the
\* position given otherwise; an append passes the inode size as position
SetRange(t, r) ==
    CASE r.op = "append" -> inodeSize
      [] r.off < 0 -> pos[t]
      [] OTHER -> r.off

Begin(t) ==
    /\ pc[t] = "idle"
    /\ nops[t] < MaxOps
    /\ writer = None
    /\ \E r \in Reqs[t] :
         LET s == SetRange(t, r)
         IN  /\ s + r.cnt - 1 \in FileBytes
             /\ IF r.op = "append"
                THEN readers = {} /\ writer' = t /\ UNCHANGED readers
                ELSE readers' = readers \cup {t} /\ UNCHANGED writer
             /\ pc' = [pc EXCEPT ![t] = r.op]
             /\ req' = [req EXCEPT ![t] = r]
             /\ start' = [start EXCEPT ![t] = s]
             /\ end' = [end EXCEPT ![t] = s + r.cnt - 1]
    /\ copied' = [copied EXCEPT ![t] = 0]
    /\ cur' = [cur EXCEPT ![t] = None]
    /\ rbuf' = [rbuf EXCEPT ![t] = EmptyBuf]
    /\ nops' = [nops EXCEPT ![t] = @ + 1]
    /\ UNCHANGED <<index, nextNo, ent, phys, physLen, inodeSize, snap, pos>>

\* One iteration of the walk of polystore_read_iter: one pread of the piece
\* of the next interval into the buffer at copied; a short count does not
\* stop the walk, and the range still advances to the next node.
ReadChunk(t) ==
    /\ pc[t] = "read"
    /\ \E e \in NextOverlap(t) :
         LET d == ent[e].dev
             p == PhysStart(t, e)
             n == PreadCount(d, p, ChunkCount(t, e))
         IN  /\ p >= 0
             /\ rbuf' = [rbuf EXCEPT ![t] =
                           [i \in BufIdx |-> IF copied[t] <= i /\ i < copied[t] + n
                                             THEN phys[d][p + i - copied[t]] ELSE @[i]]]
             /\ copied' = [copied EXCEPT ![t] = @ + n]
             /\ pos' = [pos EXCEPT ![t] = Advance(t, n)]
             /\ start' = [start EXCEPT ![t] = NextStart(t, e)]
             /\ cur' = [cur EXCEPT ![t] = e]
    /\ UNCHANGED <<index, nextNo, ent, phys, physLen, inodeSize, readers, writer,
                   pc, req, end, snap, nops>>

\* One iteration of the walks of polystore_write_iter and _append_iter:
\* one pwrite of the piece of the next interval.
PwriteChunk(t) ==
    /\ \E e \in NextOverlap(t) :
         LET n == ChunkCount(t, e)
             p == PhysStart(t, e)
         IN  /\ p >= 0
             /\ Pwrite(ent[e].dev, p, n, t)
             /\ copied' = [copied EXCEPT ![t] = @ + n]
             /\ pos' = [pos EXCEPT ![t] = Advance(t, n)]
             /\ start' = [start EXCEPT ![t] = NextStart(t, e)]
             /\ cur' = [cur EXCEPT ![t] = e]
    /\ UNCHANGED <<index, nextNo, ent, inodeSize, readers, writer, pc, req, end,
                   snap, nops, rbuf>>

WriteChunk(t) == pc[t] = "write" /\ PwriteChunk(t)
AppendChunk(t) == pc[t] = "append" /\ PwriteChunk(t)

\* mutant: a write keeps the read lock into its hole loop
EndWalkKeepLock(t) ==
    CASE pc[t] = "read" ->
             /\ readers' = readers \ {t}
             /\ Return(t)
      [] pc[t] = "write" ->
             /\ pc' = [pc EXCEPT ![t] = "wr_hole"]
             /\ UNCHANGED <<readers, req, start, end, copied, cur, snap>>
      [] OTHER ->
             /\ pc' = [pc EXCEPT ![t] = "ap_hole"]
             /\ UNCHANGED <<readers, req, start, end, copied, cur, snap>>

\* The walk ends: a read releases the lock and returns; a write releases
\* it and goes on to the hole; an append keeps it.
EndWalk(t) ==
    CASE pc[t] = "read" ->
             /\ readers' = readers \ {t}
             /\ Return(t)
      [] pc[t] = "write" ->
             /\ readers' = readers \ {t}
             /\ pc' = [pc EXCEPT ![t] = "wr_hole"]
             /\ UNCHANGED <<req, start, end, copied, cur, snap>>
      [] OTHER ->
             /\ pc' = [pc EXCEPT ![t] = "ap_hole"]
             /\ UNCHANGED <<readers, req, start, end, copied, cur, snap>>

\* no interval is left to visit
WalkDone(t) ==
    /\ pc[t] \in {"read", "write", "append"}
    /\ NextOverlap(t) = {}
    /\ EndWalk(t)
    /\ UNCHANGED <<index, nextNo, ent, phys, physLen, inodeSize, writer, pos,
                   nops, rbuf>>

\* the pread or pwrite at offset + it_buf_start fails when that offset is
\* negative (a hole before an interval placed at the start of its file),
\* and the walk breaks out of its loop
WalkBreak(t) ==
    /\ pc[t] \in {"read", "write", "append"}
    /\ \E e \in NextOverlap(t) : PhysStart(t, e) < 0
    /\ EndWalk(t)
    /\ UNCHANGED <<index, nextNo, ent, phys, physLen, inodeSize, writer, pos,
                   nops, rbuf>>

-----------------------------------------------------------------------------
(* The hole loop: while start < end a new interval is allocated for the    *)
(* node of start, placed, written and inserted.  A write runs it with no   *)
(* lock and takes the write lock only around the insert; an append runs it *)
(* under the write lock it holds.                                          *)

HoleCount(t) == Smaller(end[t] - start[t] + 1, NodeSize)

\* polystore_index_entry_allocate (a node number past MAX_POLY_INDEX_NODE_NR
\* breaks the loop to the size update at pc brk), the fields of the new
\* interval, and its offset: the end of the physical file of the task's
\* device, rounded up to a node; then pc wrt
NewEntry(t, brk, wrt) ==
    /\ start[t] < end[t]
    /\ nextNo' = nextNo + 1
    /\ IF nextNo > MaxIndexNode
       THEN /\ pc' = [pc EXCEPT ![t] = brk]
            /\ UNCHANGED <<ent, cur>>
       ELSE LET d == TaskPlacement[t]
            IN  /\ ent' = [ent EXCEPT ![nextNo] =
                             [node |-> start[t] \div NodeSize, dev |-> d,
                              off |-> CeilNode(physLen[d])]]
                /\ cur' = [cur EXCEPT ![t] = nextNo]
                /\ pc' = [pc EXCEPT ![t] = wrt]
    /\ UNCHANGED <<index, phys, physLen, inodeSize, readers, writer, req, start,
                   end, copied, snap, pos, nops, rbuf>>

HoleAlloc(t) == pc[t] = "wr_hole" /\ NewEntry(t, "wr_size", "wr_hwrite")
AppendHoleAlloc(t) == pc[t] = "ap_hole" /\ NewEntry(t, "ap_size", "ap_hwrite")

\* the piece is written at the interval's offset, without it_buf_start
HolePwrite(t) == Pwrite(ent[cur[t]].dev, ent[cur[t]].off, HoleCount(t), t)
HoleAdvance(t) ==
    /\ index' = index \cup {cur[t]}
    /\ copied' = [copied EXCEPT ![t] = @ + HoleCount(t)]
    /\ pos' = [pos EXCEPT ![t] = Advance(t, HoleCount(t))]
    /\ start' = [start EXCEPT ![t] = @ + HoleCount(t)]

HoleWrite(t) ==
    /\ pc[t] = "wr_hwrite"
    /\ HolePwrite(t)
    /\ pc' = [pc EXCEPT ![t] = "wr_hins"]
    /\ UNCHANGED <<index, nextNo, ent, inodeSize, readers, writer, req, start,
                   end, copied, cur, snap, pos, nops, rbuf>>

\* polystore_index_insert under a write lock taken and released around it
HoleInsert(t) ==
    /\ pc[t] = "wr_hins"
    /\ readers = {} /\ writer = None
    /\ HoleAdvance(t)
    /\ pc' = [pc EXCEPT ![t] = "wr_hole"]
    /\ UNCHANGED <<nextNo, ent, phys, physLen, inodeSize, readers, writer, req,
                   end, cur, snap, nops, rbuf>>

\* the append writes and inserts under the write lock it holds
AppendHoleWrite(t) ==
    /\ pc[t] = "ap_hwrite"
    /\ HolePwrite(t)
    /\ HoleAdvance(t)
    /\ pc' = [pc EXCEPT ![t] = "ap_hole"]
    /\ UNCHANGED <<nextNo, ent, inodeSize, readers, writer, req, end, cur, snap,
                   nops, rbuf>>

SizePc == [wr_hole |-> "wr_size", ap_hole |-> "ap_size"]
HoleDone(t) ==
    /\ pc[t] \in {"wr_hole", "ap_hole"}
    /\ start[t] >= end[t]
    /\ pc' = [pc EXCEPT ![t] = SizePc[pc[t]]]
    /\ UNCHANGED <<index, nextNo, ent, phys, physLen, inodeSize, readers, writer,
                   req, start, end, copied, cur, snap, pos, nops, rbuf>>

\* inode->size = max(end + 1, inode->size) with no lock: a load, then a
\* store of the maximum of what was loaded
SizeLoad(t) ==
    /\ pc[t] = "wr_size"
    /\ snap' = [snap EXCEPT ![t] = inodeSize]
    /\ pc' = [pc EXCEPT ![t] = "wr_store"]
    /\ UNCHANGED <<index, nextNo, ent, phys, physLen, inodeSize, readers, writer,
                   req, start, end, copied, cur, pos, nops, rbuf>>

\* mutant: the size raised by the count written
SizeStoreAdd(t) ==
    /\ pc[t] = "wr_store"
    /\ inodeSize' = snap[t] + req[t].cnt
    /\ Return(t)
    /\ UNCHANGED <<index, nextNo, ent, phys, physLen, readers, writer, pos, nops,
                   rbuf>>

SizeStore(t) ==
    /\ pc[t] = "wr_store"
    /\ inodeSize' = Larger(end[t] + 1, snap[t])
    /\ Return(t)
    /\ UNCHANGED <<index, nextNo, ent, phys, physLen, readers, writer, pos, nops,
                   rbuf>>

\* the append updates the size and releases the write lock
AppendSize(t) ==
    /\ pc[t] = "ap_size"
    /\ inodeSize' = Larger(end[t] + 1, inodeSize)
    /\ writer' = None
    /\ Return(t)
    /\ UNCHANGED <<index, nextNo, ent, phys, physLen, readers, pos, nops, rbuf>>

-----------------------------------------------------------------------------

\* the steps of a call in progress
Running(t) ==
    \/ ReadChunk(t) \/ WriteChunk(t) \/ AppendChunk(t) \/ WalkDone(t)
    \/ WalkBreak(t) \/ HoleAlloc(t) \/ AppendHoleAlloc(t) \/ HoleWrite(t) \/ HoleInsert(t) \/ AppendHoleWrite(t)
    \/ HoleDone(t) \/ SizeLoad(t) \/ SizeStore(t) \/ AppendSize(t)

Next == \E t \in Threads : Begin(t) \/ Running(t)

\* a thread in a call keeps being scheduled; nothing makes it issue one
Fairness == \A t \in Threads : WF_vars(Running(t))

Spec == Init /\ [][Next]_vars /\ Fairness

-----------------------------------------------------------------------------
(* Properties *)

PcSet == {"idle", "read", "write", "append", "wr_hole", "ap_hole", "wr_hwrite",
          "ap_hwrite", "wr_hins", "wr_size", "ap_size", "wr_store"}

TypeOK ==
    /\ index \subseteq EntryIds
    /\ ent \in [EntryIds -> [node : 0 .. NodeNr - 1, dev : Devices, off : Nat]]
    /\ phys \in [Devices -> [PhysBytes -> Vals]]
    /\ physLen \in [Devices -> 0 .. NodeSize * MaxIndexNode]
    /\ inodeSize \in 0 .. NodeSize * NodeNr
    /\ readers \subseteq Threads /\ writer \in Threads \cup {None}
    /\ pc \in [Threads -> PcSet]
    /\ rbuf \in [Threads -> [BufIdx -> Vals \cup {None}]]

\* No two intervals of the index hold the same bytes of a physical file:
\* the hole loop of polystore_write_iter reads the end of the physical file
\* (lseek SEEK_END) and writes there later, with no lock, so a write of
\* one interval must never land in the bytes of another.
PhysicalDisjoint ==
    \A e, f \in index :
        e # f /\ ent[e].dev = ent[f].dev =>
            ent[e].off + NodeSize <= ent[f].off \/ ent[f].off + NodeSize <= ent[e].off

\* The bytes of the file as a caller sees them: through the first interval
\* of the index holding the offset, from its physical file; Zero where no
\* interval holds it.
Content(o) ==
    LET c == {e \in index : Base(e) <= o /\ o <= Last(e)}
        e == CHOOSE e \in c : \A f \in c : Precedes(e, f)
    IN  IF c = {} THEN Zero ELSE phys[ent[e].dev][ent[e].off + o - Base(e)]

InCall(t) == pc[t] # "idle"
RangeBase(t) == end[t] - req[t].cnt + 1
\* a read has advanced its range past bytes it did not copy
ShortRead(t) == req[t].op = "read" /\ start[t] - RangeBase(t) > copied[t]

\* The refinement mapping: a call is in progress from Begin to its Return;
\* its range starts where the request put it and what is left of it starts
\* at start, or is empty once a read has copied less than a piece; a
\* read's buffer is the caller's.
File == INSTANCE PolyFile WITH
    content <- [o \in FileBytes |-> Content(o)],
    size <- inodeSize,
    op <- [t \in Threads |-> IF InCall(t) THEN req[t].op ELSE "idle"],
    lo <- [t \in Threads |-> IF ~InCall(t) THEN 0
                             ELSE IF ShortRead(t) THEN end[t] + 1 ELSE start[t]],
    hi <- [t \in Threads |-> IF InCall(t) THEN end[t] ELSE 0],
    base <- [t \in Threads |-> IF InCall(t) THEN RangeBase(t) ELSE 0],
    got <- rbuf,
    MaxCnt <- MaxCnt, Vals <- Vals

\* The direct engine implements the byte file of spec.md: every step of a
\* call moves a front piece of its range atomically, every byte a read
\* copies is the byte the file holds at that offset and lands at its place
\* in the caller's buffer, once a read copies less than a piece it copies
\* nothing more, no step changes a byte outside the range of the write
\* taking it, and the size covers every write returned.  How much a read
\* returns is not checked: the abstract Return may end a call at any point,
\* as the walk does when a pread or pwrite fails (WalkBreak).
FileRefined == File!Spec

\* Every call returns: an append waits for the readers to leave, a hole
\* insert for the append and the readers, and nothing waits in a cycle.
CallsReturn == \A t \in Threads : InCall(t) ~> ~InCall(t)
====
