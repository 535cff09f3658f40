------------------------------ MODULE PolyCache ------------------------------
(***************************************************************************)
(* The cached I/O engine of PolyStore for one inode (io_buffered.c) and    *)
(* the interval cache it drives (cache.c): foreground threads read and     *)
(* write through the per-inode interval index, admitting intervals to the  *)
(* cache; a writer that finds the cache above the high-water mark wins the *)
(* flushing indicator and dispatches victims from the cold LRU list to the *)
(* flushing queues; pool threads write dirty victims back to the physical  *)
(* file of their device and free their buffers.                            *)
(*                                                                         *)
(* Data is abstracted to one value per byte: a writer writes its own       *)
(* thread id, a fresh buffer holds Garbage, a sparse physical file Zero.   *)
(* Sizes are counted in bytes of a scaled NodeSize; cache sizes in nodes.  *)
(***************************************************************************)
EXTENDS Integers, Sequences, FiniteSets

SX == INSTANCE SequencesExt

CONSTANTS
    Threads,        \* foreground tasks issuing I/O on the inode
    Pool,           \* flushing pool threads (thpool of poly_cache_flushing_thread_nr)
    NQueues,        \* poly_cache_flushing_thread_nr, a power of two
    NodeSize,       \* POLY_INDEX_NODE_SIZE, scaled
    NodeNr,         \* number of nodes of the file range modelled
    MaxIndexNode,   \* MAX_POLY_INDEX_NODE_NR, scaled
    FlushBegin,     \* poly_cache_flushing_begin, in nodes
    FlushEnd,       \* poly_cache_flushing_end, in nodes
    Reqs,           \* [Threads -> set of requests a thread may issue]
    MaxOps,         \* bound on the requests issued per thread
    TaskPlacement,  \* [Threads -> Devices]: task_ctx->placement
    InitNodes,      \* nodes already in the index (and on disk) at Init
    Zero, Garbage, NoBuf, None

Devices == {"fast", "slow"}
Queues == 0 .. NQueues - 1
Bytes == 0 .. NodeSize - 1
FileBytes == 0 .. NodeSize * NodeNr - 1
EntryIds == 1 .. MaxIndexNode
\* one node more than the entries can use, for write-backs past a node
PhysBytes == 0 .. NodeSize * (MaxIndexNode + 1) - 1
Vals == Threads \cup {Zero, Garbage}
MaxCnt == NodeSize * NodeNr
BufIdx == 0 .. MaxCnt - 1

ASSUME NQueues \in {1, 2, 4} /\ NodeSize \in {2, 4}
ASSUME FlushEnd <= FlushBegin /\ MaxOps \in Nat
ASSUME \A t \in Threads : \A r \in Reqs[t] :
         \/ r.op \in {"read", "write", "append"} /\ r.cnt >= 1 /\ (r.off = -1 \/ r.off \in FileBytes)
         \/ r.op = "seek" /\ r.whence \in {"set", "cur", "end"} /\ r.off \in Int

VARIABLES
    \* per-inode state (struct poly_inode)
    index,        \* set of entries inserted in the interval tree
    nextNo,       \* next_avail_it_node_no
    ent,          \* [EntryIds -> entry record] (struct it_node_entry)
    phys,         \* [Devices -> [PhysBytes -> Vals]] fast and slow physical files
    devOff,       \* [Devices -> Nat] cache_fast_offset, cache_slow_offset
    inodeSize,    \* inode->size
    placement,    \* inode->placement: "tbd" until the first write, then "both"
    readers,      \* threads holding it_tree_lock for reading
    \* cache engine (cache.c globals)
    cold,         \* interval_cold_list
    queue,        \* [Queues -> Seq(EntryIds)] poly_cache_flushing_queue
    gauge,        \* poly_cache_size, in nodes
    indicator,    \* poly_cache_flushing_indicator
    coldHolder,   \* holder of lru_cold_list_lock across a dispatch, or None
    qHolder,      \* [Queues -> Pool \cup {None}] poly_cache_flushing_queue_mutex
    mtx,          \* [EntryIds -> Threads \cup {None}] it_entry->lock
    pending,      \* [Queues -> Nat] thpool jobs not yet taken
    wq,           \* [Pool -> Queues \cup {None}] queue a pool thread works on
    wlocked,      \* [Pool -> BOOLEAN] the pool thread holds its queue mutex
    \* foreground threads
    pc, req, start, end, copied, cur, snap, pos, nops, dsnap, rr,
    \* the bytes the callers asked to be written, by file offset
    ghost,
    rbuf          \* [Threads -> [BufIdx -> Vals \cup {None}]] the callers' read buffers

fileVars == <<index, nextNo, ent, phys, devOff, inodeSize, placement, readers>>
cacheVars == <<cold, queue, gauge, indicator, coldHolder, qHolder, mtx,
               pending, wq, wlocked>>
threadVars == <<pc, req, start, end, copied, cur, snap, pos, nops, dsnap, rr>>
vars == <<fileVars, cacheVars, threadVars, ghost, rbuf>>

-----------------------------------------------------------------------------
(* Helpers *)

Larger(a, b) == IF a > b THEN a ELSE b
Smaller(a, b) == IF a < b THEN a ELSE b
Base(e) == ent[e].node * NodeSize
Last(e) == Base(e) + NodeSize - 1
InSeq(e, s) == \E i \in 1 .. Len(s) : s[i] = e
Queued == {e \in EntryIds : \E q \in Queues : InSeq(e, queue[q])}

\* polystore_index_lookup / _lookup_next: interval_tree_iter_first yields
\* the first interval of the tree overlapping [s, l], interval_tree_iter_next
\* the first one after the interval last visited; the tree is ordered by
\* start, and intervals with equal starts by entry (insertion goes right)
Overlapping(s, l) == {e \in index : Base(e) <= l /\ Last(e) >= s}
Follows(f, e) == e = None \/ ent[f].node > ent[e].node \/ (ent[f].node = ent[e].node /\ f > e)
Precedes(e, f) == ent[e].node < ent[f].node \/ (ent[e].node = ent[f].node /\ e <= f)
NextOverlap(t) ==
    LET c == {f \in Overlapping(start[t], end[t]) : Follows(f, cur[t])}
    IN  {e \in c : \A f \in c : Precedes(e, f)}

\* the bytes [a, a + n) of buffer b replaced by v (memcpy of a user buffer)
CopyIn(b, a, n, v) == [i \in Bytes |-> IF a <= i /\ i < a + n THEN v ELSE b[i]]
\* memcpy(buf + copied, buf_addr + it_buf_start, it_buf_count) of a read:
\* bytes past the node buffer are whatever memory follows it
\* mutant: every piece is copied to the start of the caller's buffer
CopyOutNoAdvance(t, b, a, n) ==
    [i \in BufIdx |-> IF i < n
                      THEN IF a + i \in Bytes THEN b[a + i] ELSE Garbage
                      ELSE rbuf[t][i]]
CopyOut(t, b, a, n) ==
    [i \in BufIdx |-> IF copied[t] <= i /\ i < copied[t] + n
                      THEN IF a + i - copied[t] \in Bytes THEN b[a + i - copied[t]] ELSE Garbage
                      ELSE rbuf[t][i]]
GhostWrite(s, n, v) == [o \in FileBytes |-> IF s <= o /\ o < s + n THEN v ELSE ghost[o]]

\* poly_cache_admit, interval mode: load an absent interval from its
\* physical file, mark a write dirty and grow the size to the end written,
\* and count the interval in the cache if it was not counted
\* mutant: the absent interval is marked present without being read
LoadSkipRead(r) == [r EXCEPT !.present = TRUE]
Load(r) ==
    IF r.present THEN r
    ELSE [r EXCEPT !.buf = [i \in Bytes |-> IF i < r.size
                                           THEN phys[r.dev][r.off + i] ELSE r.buf[i]],
                   !.present = TRUE]
\* mutants: a write not marked dirty; the cache size counted per admission
AdmitNoDirty(r, last, rw) ==
    LET l == Load(r)
        w == IF rw = "write" THEN [l EXCEPT !.size = Larger(last + 1, l.size)] ELSE l
    IN  [w EXCEPT !.csize = 1]
AdmitRecount(r, last, rw) ==
    LET l == Load(r)
        w == IF rw = "write"
             THEN [l EXCEPT !.dirty = TRUE, !.size = Larger(last + 1, l.size)]
             ELSE l
    IN  [w EXCEPT !.csize = @ + 1]
Admit(r, last, rw) ==
    LET l == Load(r)
        w == IF rw = "write"
             THEN [l EXCEPT !.dirty = TRUE, !.size = Larger(last + 1, l.size)]
             ELSE l
    IN  [w EXCEPT !.csize = 1]
AdmitGauge(r) == IF r.csize = 0 THEN gauge + 1 ELSE gauge

\* the cold list after an access: an interval given a fresh buffer joins
\* its tail (poly_cache_add_lru_cold_list)
RelistAlways(e, fresh) == Append(cold, e)
Relist(e, fresh) == IF fresh THEN Append(cold, e) ELSE cold

\* poly_cache_evict: a dirty interval is written back, size bytes from its
\* buffer to its offset; bytes past the buffer are whatever memory follows
WriteBack(p, r) ==
    IF r.dirty
    THEN [p EXCEPT ![r.dev] =
            [o \in PhysBytes |->
                IF r.off <= o /\ o < r.off + r.size
                THEN IF o - r.off < NodeSize THEN r.buf[o - r.off] ELSE Garbage
                ELSE p[r.dev][o]]]
    ELSE p

\* the chunk of [start, end] that falls in entry e (it_buf_start, it_buf_count)
ChunkStart(t, e) == start[t] - Base(e)
ChunkCount(t, e) == IF Last(e) < end[t] THEN Last(e) - start[t] + 1 ELSE end[t] - start[t] + 1
NextStart(t, e) == IF Last(e) < end[t] THEN Last(e) + 1 ELSE end[t] + 1
\* polystore_read_iter_polycache clamps the chunk of a partly filled interval
ReadCount(t, e) ==
    IF ent[e].size < NodeSize
    THEN IF end[t] - start[t] + 1 < ent[e].size
         THEN end[t] - start[t] + 1 ELSE ent[e].size - ChunkStart(t, e)
    ELSE ChunkCount(t, e)
\* the read's check it_buf_start >= it_entry->size compares an off_t with a
\* size_t: a negative start in the interval (a hole before it) converts to
\* a huge unsigned value, and the read stops there as past the filled size
ReadBeyond(t, e) == ChunkStart(t, e) < 0 \/ ChunkStart(t, e) >= ent[e].size
Advance(t, n) == IF req[t].off < 0 THEN pos[t] + n ELSE pos[t]

NoReq == [op |-> "read", off |-> 0, cnt |-> 1]

\* an append holds it_tree_lock for writing from its lookup to its size update
AppendPcs == {"ap_iter", "ap_body", "ap_hole", "ap_size"}
TreeWriteHeld == \E u \in Threads : pc[u] \in AppendPcs

\* a call returns: the thread's locals go out of scope
Return(t) ==
    /\ pc' = [pc EXCEPT ![t] = "idle"]
    /\ req' = [req EXCEPT ![t] = NoReq]
    /\ start' = [start EXCEPT ![t] = 0]
    /\ end' = [end EXCEPT ![t] = 0]
    /\ copied' = [copied EXCEPT ![t] = 0]
    /\ cur' = [cur EXCEPT ![t] = None]
    /\ snap' = [snap EXCEPT ![t] = 0]
    /\ dsnap' = [dsnap EXCEPT ![t] = 0]
    /\ rr' = [rr EXCEPT ![t] = 0]
Locals == <<req, start, end, copied, cur, snap, dsnap, rr>>

EmptyEntry == [node |-> 0, size |-> 0, dev |-> "fast", off |-> 0, buf |-> NoBuf,
               present |-> FALSE, dirty |-> FALSE, csize |-> 0]

-----------------------------------------------------------------------------
(* Init: a file whose InitNodes were written and flushed earlier *)

InitIds == {e \in EntryIds : e <= Cardinality(InitNodes)}
InitNodeOf(e) == CHOOSE n \in InitNodes :
                   Cardinality({m \in InitNodes : m < n}) = e - 1

Init ==
    /\ index = InitIds
    /\ nextNo = Cardinality(InitNodes) + 1
    /\ ent = [e \in EntryIds |->
                IF e \in InitIds
                THEN [EmptyEntry EXCEPT !.node = InitNodeOf(e), !.size = NodeSize,
                                        !.off = (e - 1) * NodeSize]
                ELSE EmptyEntry]
    /\ phys = [d \in Devices |-> [o \in PhysBytes |-> Zero]]
    /\ devOff = [d \in Devices |-> IF d = "fast" THEN Cardinality(InitNodes) * NodeSize ELSE 0]
    /\ inodeSize = IF InitNodes = {} THEN 0 ELSE NodeSize * NodeNr
    /\ placement = IF InitNodes = {} THEN "tbd" ELSE "both"
    /\ readers = {}
    /\ cold = << >>
    /\ queue = [q \in Queues |-> << >>]
    /\ gauge = 0
    /\ indicator = FALSE
    /\ coldHolder = None
    /\ qHolder = [q \in Queues |-> None]
    /\ mtx = [e \in EntryIds |-> None]
    /\ pending = [q \in Queues |-> 0]
    /\ wq = [w \in Pool |-> None]
    /\ wlocked = [w \in Pool |-> FALSE]
    /\ pc = [t \in Threads |-> "idle"]
    /\ req = [t \in Threads |-> NoReq]
    /\ start = [t \in Threads |-> 0]
    /\ end = [t \in Threads |-> 0]
    /\ copied = [t \in Threads |-> 0]
    /\ cur = [t \in Threads |-> None]
    /\ snap = [t \in Threads |-> 0]
    /\ pos = [t \in Threads |-> 0]
    /\ nops = [t \in Threads |-> 0]
    /\ dsnap = [t \in Threads |-> 0]
    /\ rr = [t \in Threads |-> 0]
    /\ ghost = [o \in FileBytes |-> Zero]
    /\ rbuf = [t \in Threads |-> [i \in BufIdx |-> None]]

-----------------------------------------------------------------------------
(* Foreground threads: polystore_read_generic / polystore_write_generic *)

\* A call enters the engine: the range is set from the file offset or the
\* position given, and it_tree_lock is taken, for writing by a write to a
\* file opened O_APPEND (polystore_append_iter_polycache), for reading
\* otherwise.  A write to an inode still in placement TBD switches it to
\* BOTH first; a read of it returns 0 without touching the index.
IterPc == [read |-> "rd_iter", write |-> "wr_iter", append |-> "ap_iter"]
BodyPc == [rd_iter |-> "rd_body", wr_iter |-> "wr_body", ap_iter |-> "ap_body"]
IterOf == [rd_body |-> "rd_iter", wr_body |-> "wr_iter", ap_body |-> "ap_iter"]
Begin(t) ==
    /\ pc[t] = "idle"
    /\ nops[t] < MaxOps
    /\ \E r \in Reqs[t] :
         LET s == IF r.off < 0 THEN pos[t] ELSE r.off
         IN  /\ r.op # "seek"
             /\ s + r.cnt - 1 \in FileBytes
             /\ IF r.op = "read" /\ placement = "tbd"
                THEN UNCHANGED <<placement, readers, pc, req, start, end, copied, cur, rbuf>>
                ELSE /\ ~TreeWriteHeld
                     /\ r.op = "append" => readers = {}
                     /\ placement' = "both"
                     /\ readers' = IF r.op = "append" THEN readers ELSE readers \cup {t}
                     /\ pc' = [pc EXCEPT ![t] = IterPc[r.op]]
                     /\ req' = [req EXCEPT ![t] = r]
                     /\ start' = [start EXCEPT ![t] = s]
                     /\ end' = [end EXCEPT ![t] = s + r.cnt - 1]
                     /\ copied' = [copied EXCEPT ![t] = 0]
                     /\ cur' = [cur EXCEPT ![t] = None]
                     /\ rbuf' = [rbuf EXCEPT ![t] = [i \in BufIdx |-> None]]
    /\ nops' = [nops EXCEPT ![t] = @ + 1]
    /\ UNCHANGED <<index, nextNo, ent, phys, devOff, inodeSize, cacheVars,
                   snap, pos, dsnap, rr, ghost>>

\* polystore_lseek sets the file position from the offset, the current
\* position or the inode size, read with no lock; the position is not
\* checked against the file or against zero.
Lseek(t) ==
    /\ pc[t] = "idle"
    /\ nops[t] < MaxOps
    /\ \E r \in Reqs[t] :
         /\ r.op = "seek"
         /\ pos' = [pos EXCEPT ![t] = CASE r.whence = "cur" -> pos[t] + r.off
                                         [] r.whence = "end" -> inodeSize + r.off
                                         [] OTHER -> r.off]
    /\ nops' = [nops EXCEPT ![t] = @ + 1]
    /\ UNCHANGED <<fileVars, cacheVars, pc, req, start, end, copied, cur, snap,
                   dsnap, rr, ghost, rbuf>>

\* The iterator yields the next interval overlapping [start, end]; the
\* thread takes its lock.  With no interval left the tree lock is released:
\* a write goes on to fill the hole at the end of the range, a read returns.
IterLock(t) ==
    /\ pc[t] \in {"wr_iter", "rd_iter", "ap_iter"}
    /\ \E e \in NextOverlap(t) :
         /\ pc[t] = "rd_iter" => ~ReadBeyond(t, e)
         /\ mtx[e] = None
         /\ mtx' = [mtx EXCEPT ![e] = t]
         /\ cur' = [cur EXCEPT ![t] = e]
         /\ pc' = [pc EXCEPT ![t] = BodyPc[pc[t]]]
    /\ UNCHANGED <<fileVars, cold, queue, gauge, indicator, coldHolder, qHolder,
                   pending, wq, wlocked, req, start, end, copied, snap, pos,
                   nops, dsnap, rr, ghost, rbuf>>

IterDone(t) ==
    /\ pc[t] \in {"wr_iter", "rd_iter", "ap_iter"}
    /\ \/ NextOverlap(t) = {}
       \* a read stops at the first interval it would read past the size of,
       \* or that a hole precedes (ReadBeyond)
       \/ /\ pc[t] = "rd_iter"
          /\ \E e \in NextOverlap(t) : ReadBeyond(t, e)
    /\ readers' = readers \ {t}
    /\ CASE pc[t] = "wr_iter" -> pc' = [pc EXCEPT ![t] = "wr_hole"] /\ UNCHANGED Locals
         [] pc[t] = "ap_iter" -> pc' = [pc EXCEPT ![t] = "ap_hole"] /\ UNCHANGED Locals
         [] OTHER -> Return(t)
    /\ UNCHANGED <<index, nextNo, ent, phys, devOff, inodeSize, placement,
                   cacheVars, pos, nops, ghost, rbuf>>

\* The body of one iteration, under the interval lock: an interval with no
\* buffer gets one and joins the cold list (under its spinlock); it is
\* admitted; the chunk is copied; the lock is released and the range
\* advances to the next node.  The read, write and append walks share it.
Access(t) ==
    /\ LET e == cur[t]
           wr == pc[t] # "rd_body"
           a == ChunkStart(t, e)
           n == IF wr THEN ChunkCount(t, e) ELSE ReadCount(t, e)
           fresh == ent[e].buf = NoBuf
           r0 == IF fresh THEN [ent[e] EXCEPT !.buf = [i \in Bytes |-> Garbage]] ELSE ent[e]
           r1 == Admit(r0, a + n - 1, IF wr THEN "write" ELSE "read")
       IN  /\ fresh => coldHolder = None
           /\ cold' = Relist(e, fresh)
           /\ gauge' = AdmitGauge(r0)
           /\ ent' = [ent EXCEPT ![e] = IF wr THEN [r1 EXCEPT !.buf = CopyIn(r1.buf, a, n, t)]
                                              ELSE r1]
           /\ ghost' = IF wr THEN GhostWrite(start[t], n, t) ELSE ghost
           /\ rbuf' = IF wr THEN rbuf ELSE [rbuf EXCEPT ![t] = CopyOut(t, r1.buf, a, n)]
           /\ mtx' = [mtx EXCEPT ![e] = None]
           /\ copied' = [copied EXCEPT ![t] = @ + n]
           /\ pos' = [pos EXCEPT ![t] = Advance(t, n)]
           /\ start' = [start EXCEPT ![t] = NextStart(t, e)]
           /\ pc' = [pc EXCEPT ![t] = IterOf[pc[t]]]
    /\ UNCHANGED <<index, nextNo, phys, devOff, inodeSize, placement, readers,
                   queue, indicator, coldHolder, qHolder, pending, wq, wlocked,
                   req, end, cur, snap, nops, dsnap, rr>>

ReadBody(t) == pc[t] = "rd_body" /\ Access(t)
WriteBody(t) == pc[t] = "wr_body" /\ Access(t)
AppendBody(t) == pc[t] = "ap_body" /\ Access(t)

\* polystore_index_entry_allocate: the node number is taken with a
\* fetch-and-add before the bound is checked
IndexExhausted(no) == no > MaxIndexNode

\* The chunk one pass of a hole loop copies, and the entry it sets up:
\* present and dirty on a zeroed buffer, placed on the task's device,
\* admitted, filled from the start of its buffer, and given the next
\* node-sized offset of its device file (a fetch-and-add).
HoleCount(t) == Smaller(end[t] - start[t] + 1, NodeSize)
HoleEntry(t) ==
    LET a == start[t] % NodeSize
        n == HoleCount(t)
        d == TaskPlacement[t]
        r0 == [EmptyEntry EXCEPT !.node = start[t] \div NodeSize, !.dev = d,
                                 !.buf = [i \in Bytes |-> Zero],
                                 !.present = TRUE, !.dirty = TRUE]
        r1 == Admit(r0, a + n - 1, "write")
    IN  [r1 EXCEPT !.buf = CopyIn(r1.buf, 0, n, t), !.off = devOff[d]]
NextDevOff(t) == [devOff EXCEPT ![TaskPlacement[t]] = @ + NodeSize]

\* One pass of the hole loop of polystore_write_iter_polycache, outside the
\* tree lock: a new entry is taken from the index (the counter is consumed
\* even when the index is full, and the loop then stops) and set up.
HoleAlloc(t) ==
    /\ pc[t] = "wr_hole"
    /\ start[t] < end[t]
    /\ nextNo' = nextNo + 1
    /\ IF IndexExhausted(nextNo)
       THEN /\ pc' = [pc EXCEPT ![t] = "wr_size"]
            /\ UNCHANGED <<ent, devOff, gauge, cur, ghost>>
       ELSE /\ ent' = [ent EXCEPT ![nextNo] = HoleEntry(t)]
            /\ devOff' = NextDevOff(t)
            /\ gauge' = AdmitGauge(EmptyEntry)
            /\ ghost' = GhostWrite(start[t], HoleCount(t), t)
            /\ cur' = [cur EXCEPT ![t] = nextNo]
            /\ pc' = [pc EXCEPT ![t] = "wr_hole_lru"]
    /\ UNCHANGED <<index, phys, inodeSize, placement, readers, cold, queue,
                   indicator, coldHolder, qHolder, mtx, pending, wq, wlocked,
                   req, start, end, copied, snap, pos, nops, dsnap, rr, rbuf>>

\* The new entry joins the cold list under its spinlock.
HoleLru(t) ==
    /\ pc[t] = "wr_hole_lru"
    /\ coldHolder = None
    /\ cold' = Append(cold, cur[t])
    /\ pc' = [pc EXCEPT ![t] = "wr_hole_insert"]
    /\ UNCHANGED <<fileVars, queue, gauge, indicator, coldHolder, qHolder, mtx,
                   pending, wq, wlocked, req, start, end, copied, cur, snap,
                   pos, nops, dsnap, rr, ghost, rbuf>>

\* It is inserted in the tree under the write lock, and the range advances
\* by the count copied.
HoleInsert(t) ==
    /\ pc[t] = "wr_hole_insert"
    /\ readers = {} /\ ~TreeWriteHeld
    /\ index' = index \cup {cur[t]}
    /\ LET n == HoleCount(t)
       IN  /\ copied' = [copied EXCEPT ![t] = @ + n]
           /\ pos' = [pos EXCEPT ![t] = Advance(t, n)]
           /\ start' = [start EXCEPT ![t] = @ + n]
    /\ pc' = [pc EXCEPT ![t] = "wr_hole"]
    /\ UNCHANGED <<nextNo, ent, phys, devOff, inodeSize, placement, readers,
                   cacheVars, req, end, cur, snap, nops, dsnap, rr, ghost, rbuf>>

\* The loop runs while start < end.
HoleDone(t) ==
    /\ pc[t] = "wr_hole"
    /\ start[t] >= end[t]
    /\ pc' = [pc EXCEPT ![t] = "wr_size"]
    /\ UNCHANGED <<fileVars, cacheVars, req, start, end, copied, cur, snap,
                   pos, nops, dsnap, rr, ghost, rbuf>>

\* The hole loop of polystore_append_iter_polycache runs under the tree
\* write lock; one pass sets up the entry as the write path does, adds it
\* to the cold list under its spinlock and inserts it in the tree.
AppendHole(t) ==
    /\ pc[t] = "ap_hole"
    /\ start[t] < end[t]
    /\ nextNo' = nextNo + 1
    /\ IF IndexExhausted(nextNo)
       THEN /\ pc' = [pc EXCEPT ![t] = "ap_size"]
            /\ UNCHANGED <<index, ent, devOff, gauge, cold, copied, pos, start, ghost>>
       ELSE /\ coldHolder = None
            /\ ent' = [ent EXCEPT ![nextNo] = HoleEntry(t)]
            /\ devOff' = NextDevOff(t)
            /\ gauge' = AdmitGauge(EmptyEntry)
            /\ ghost' = GhostWrite(start[t], HoleCount(t), t)
            /\ cold' = Append(cold, nextNo)
            /\ index' = index \cup {nextNo}
            /\ copied' = [copied EXCEPT ![t] = @ + HoleCount(t)]
            /\ pos' = [pos EXCEPT ![t] = Advance(t, HoleCount(t))]
            /\ start' = [start EXCEPT ![t] = @ + HoleCount(t)]
            /\ UNCHANGED pc
    /\ UNCHANGED <<phys, inodeSize, placement, readers, queue, indicator,
                   coldHolder, qHolder, mtx, pending, wq, wlocked, req, end,
                   cur, snap, nops, dsnap, rr, rbuf>>

AppendHoleDone(t) ==
    /\ pc[t] = "ap_hole"
    /\ start[t] >= end[t]
    /\ pc' = [pc EXCEPT ![t] = "ap_size"]
    /\ UNCHANGED <<fileVars, cacheVars, req, start, end, copied, cur, snap,
                   pos, nops, dsnap, rr, ghost, rbuf>>

\* The append updates the size still holding the write lock, releases it
\* and goes on to the flushing check of the write path.
AppendSize(t) ==
    /\ pc[t] = "ap_size"
    /\ inodeSize' = Larger(end[t] + 1, inodeSize)
    /\ pc' = [pc EXCEPT ![t] = "wr_flush"]
    /\ UNCHANGED <<index, nextNo, ent, phys, devOff, placement, readers,
                   cacheVars, req, start, end, copied, cur, snap, pos, nops,
                   dsnap, rr, ghost, rbuf>>

\* inode->size = max(end + 1, inode->size), with no lock held: the load and
\* the store are two steps another writer can come between.
SizeLoad(t) ==
    /\ pc[t] = "wr_size"
    /\ snap' = [snap EXCEPT ![t] = inodeSize]
    /\ pc' = [pc EXCEPT ![t] = "wr_size_store"]
    /\ UNCHANGED <<fileVars, cacheVars, req, start, end, copied, cur, pos,
                   nops, dsnap, rr, ghost, rbuf>>

SizeStore(t) ==
    /\ pc[t] = "wr_size_store"
    /\ inodeSize' = Larger(end[t] + 1, snap[t])
    /\ pc' = [pc EXCEPT ![t] = "wr_flush"]
    /\ UNCHANGED <<index, nextNo, ent, phys, devOff, placement, readers,
                   cacheVars, req, start, end, copied, cur, snap, pos, nops,
                   dsnap, rr, ghost, rbuf>>

\* Above the high-water mark, the writer that wins the test-and-set of the
\* flushing indicator dispatches; the others return.
FlushCheck(t) ==
    /\ pc[t] = "wr_flush"
    /\ IF gauge > FlushBegin /\ ~indicator
       THEN /\ indicator' = TRUE
            /\ pc' = [pc EXCEPT ![t] = "disp_begin"]
            /\ UNCHANGED Locals
       ELSE /\ Return(t)
            /\ UNCHANGED indicator
    /\ UNCHANGED <<fileVars, cold, queue, gauge, coldHolder, qHolder, mtx,
                   pending, wq, wlocked, pos, nops, ghost, rbuf>>

-----------------------------------------------------------------------------
(* poly_cache_flushing_dispatch, run by the writer that won the indicator *)

\* The gauge is read into a snapshot and the cold-list spinlock is taken.
DispBegin(t) ==
    /\ pc[t] = "disp_begin"
    /\ coldHolder = None
    /\ coldHolder' = t
    /\ dsnap' = [dsnap EXCEPT ![t] = gauge]
    /\ rr' = [rr EXCEPT ![t] = 0]
    /\ pc' = [pc EXCEPT ![t] = "disp_loop"]
    /\ UNCHANGED <<fileVars, cold, queue, gauge, indicator, qHolder, mtx,
                   pending, wq, wlocked, req, start, end, copied, cur, snap,
                   pos, nops, ghost, rbuf>>

\* The head of the cold list moves to queue rr & (nr - 1), under that
\* queue's mutex; its cache size comes off the snapshot, and the walk stops
\* once the snapshot is below the low-water mark.
DispVictim(t) ==
    /\ pc[t] = "disp_loop"
    /\ cold # << >>
    /\ LET v == Head(cold)
           q == rr[t] % NQueues
           left == dsnap[t] - ent[v].csize
       IN  /\ qHolder[q] = None
           /\ cold' = Tail(cold)
           /\ queue' = [queue EXCEPT ![q] = Append(@, v)]
           /\ rr' = [rr EXCEPT ![t] = @ + 1]
           /\ dsnap' = [dsnap EXCEPT ![t] = left]
           /\ pc' = [pc EXCEPT ![t] = IF left < FlushEnd THEN "disp_end" ELSE "disp_loop"]
    /\ UNCHANGED <<fileVars, gauge, indicator, coldHolder, qHolder, mtx,
                   pending, wq, wlocked, req, start, end, copied, cur, snap,
                   pos, nops, ghost, rbuf>>

DispListEnd(t) ==
    /\ pc[t] = "disp_loop"
    /\ cold = << >>
    /\ pc' = [pc EXCEPT ![t] = "disp_end"]
    /\ UNCHANGED <<fileVars, cacheVars, req, start, end, copied, cur, snap,
                   pos, nops, dsnap, rr, ghost, rbuf>>

\* thpool_add_work of one flushing job per queue
LaunchFirstOnly(p) == [q \in Queues |-> IF q = 0 THEN p[q] + 1 ELSE p[q]]
Launch(p) == [q \in Queues |-> p[q] + 1]

\* mutant: the cold-list spinlock is not released
DispEndKeepSpin(t) ==
    /\ pc[t] = "disp_end"
    /\ gauge' = FlushEnd
    /\ pending' = Launch(pending)
    /\ indicator' = FALSE
    /\ Return(t)
    /\ UNCHANGED <<fileVars, cold, queue, coldHolder, qHolder, mtx, wq, wlocked,
                   pos, nops, ghost, rbuf>>

\* The spinlock is released, the gauge reset to the low-water mark, one job
\* per queue handed to the pool, and the indicator released.
DispEnd(t) ==
    /\ pc[t] = "disp_end"
    /\ coldHolder' = None
    /\ gauge' = FlushEnd
    /\ pending' = Launch(pending)
    /\ indicator' = FALSE
    /\ Return(t)
    /\ UNCHANGED <<fileVars, cold, queue, qHolder, mtx, wq, wlocked, pos,
                   nops, ghost, rbuf>>

-----------------------------------------------------------------------------
(* poly_cache_flushing_worker, on the pool threads *)

\* An idle pool thread takes a queued job.
WorkerTake(w) ==
    /\ wq[w] = None
    /\ \E q \in Queues :
         /\ pending[q] > 0
         /\ pending' = [pending EXCEPT ![q] = @ - 1]
         /\ wq' = [wq EXCEPT ![w] = q]
    /\ UNCHANGED <<fileVars, cold, queue, gauge, indicator, coldHolder, qHolder,
                   mtx, wlocked, threadVars, ghost, rbuf>>

\* The job holds its queue's mutex for its whole walk.
WorkerLock(w) ==
    /\ wq[w] # None
    /\ ~wlocked[w]
    /\ qHolder[wq[w]] = None
    /\ qHolder' = [qHolder EXCEPT ![wq[w]] = w]
    /\ wlocked' = [wlocked EXCEPT ![w] = TRUE]
    /\ UNCHANGED <<fileVars, cold, queue, gauge, indicator, coldHolder, mtx,
                   pending, wq, threadVars, ghost, rbuf>>

\* Each victim is evicted under its interval lock: written back if dirty,
\* marked clean and absent, its buffer freed, its cache size reset, and
\* taken off the queue.
WorkerEvict(w) ==
    /\ wlocked[w]
    /\ queue[wq[w]] # << >>
    /\ LET v == Head(queue[wq[w]])
       IN  /\ mtx[v] = None
           /\ phys' = WriteBack(phys, ent[v])
           /\ ent' = [ent EXCEPT ![v] = [@ EXCEPT !.dirty = FALSE, !.present = FALSE,
                                                  !.buf = NoBuf, !.csize = 0]]
           /\ queue' = [queue EXCEPT ![wq[w]] = Tail(@)]
    /\ UNCHANGED <<index, nextNo, devOff, inodeSize, placement, readers, cold,
                   gauge, indicator, coldHolder, qHolder, mtx, pending, wq,
                   wlocked, threadVars, ghost, rbuf>>

WorkerRelease(w) ==
    /\ wlocked[w]
    /\ queue[wq[w]] = << >>
    /\ qHolder' = [qHolder EXCEPT ![wq[w]] = None]
    /\ wlocked' = [wlocked EXCEPT ![w] = FALSE]
    /\ wq' = [wq EXCEPT ![w] = None]
    /\ UNCHANGED <<fileVars, cold, queue, gauge, indicator, coldHolder, mtx,
                   pending, threadVars, ghost, rbuf>>

-----------------------------------------------------------------------------
(* poly_cache_exit, from the destructor polystore_exit *)

\* poly_cache_free walks the intervals overlapping [0, size - 1] in tree
\* order; each one is written back by poly_cache_evict, so a later write-back
\* of the same bytes overwrites an earlier one
FreeOrder == SX!SetToSortSeq(Overlapping(0, inodeSize - 1),
                             LAMBDA e, f : e # f /\ Precedes(e, f))
FreeRelease(r) == [r EXCEPT !.dirty = FALSE, !.present = FALSE, !.csize = 0, !.buf = NoBuf]

\* mutant: the intervals are released without being written back
ExitNoEvict ==
    /\ \A t \in Threads : pc[t] = "idle"
    /\ \A q \in Queues : pending[q] = 0
    /\ \A w \in Pool : wq[w] = None
    /\ LET F == SX!Range(FreeOrder)
       IN  /\ ent' = [e \in EntryIds |-> IF e \in F THEN FreeRelease(ent[e]) ELSE ent[e]]
           /\ cold' = SelectSeq(cold, LAMBDA e : e \notin F)
    /\ pc' = [t \in Threads |-> "exited"]
    /\ UNCHANGED <<index, nextNo, phys, devOff, inodeSize, placement, readers,
                   queue, gauge, indicator, coldHolder, qHolder, mtx, pending,
                   wq, wlocked, req, start, end, copied, cur, snap, pos, nops,
                   dsnap, rr, ghost, rbuf>>

\* Once the application's threads are done, thpool_wait returns when no
\* flushing job is queued or running; poly_cache_free then, under the tree
\* write lock, writes every interval of the range back if dirty, clears its
\* dirty and present flags and cache size, frees its buffer and takes it off
\* the LRU list (the cold list: the queues are empty once the pool is
\* idle).  The cache size counter is not decremented.  Nothing runs after.
Exit ==
    /\ \A t \in Threads : pc[t] = "idle"
    /\ \A q \in Queues : pending[q] = 0
    /\ \A w \in Pool : wq[w] = None
    /\ LET F == SX!Range(FreeOrder)
       IN  /\ phys' = SX!FoldLeft(LAMBDA p, e : WriteBack(p, ent[e]), phys, FreeOrder)
           /\ ent' = [e \in EntryIds |-> IF e \in F THEN FreeRelease(ent[e]) ELSE ent[e]]
           /\ cold' = SelectSeq(cold, LAMBDA e : e \notin F)
    /\ pc' = [t \in Threads |-> "exited"]
    /\ UNCHANGED <<index, nextNo, devOff, inodeSize, placement, readers,
                   queue, gauge, indicator, coldHolder, qHolder, mtx, pending,
                   wq, wlocked, req, start, end, copied, cur, snap, pos, nops,
                   dsnap, rr, ghost, rbuf>>

-----------------------------------------------------------------------------

\* every step of a thread inside a call; Begin is the caller's choice
Running(t) ==
    \/ IterLock(t) \/ IterDone(t)
    \/ ReadBody(t) \/ WriteBody(t) \/ AppendBody(t)
    \/ HoleAlloc(t) \/ HoleLru(t) \/ HoleInsert(t) \/ HoleDone(t)
    \/ AppendHole(t) \/ AppendHoleDone(t) \/ AppendSize(t)
    \/ SizeLoad(t) \/ SizeStore(t) \/ FlushCheck(t)
    \/ DispBegin(t) \/ DispVictim(t) \/ DispListEnd(t) \/ DispEnd(t)

Worker(w) == WorkerTake(w) \/ WorkerLock(w) \/ WorkerEvict(w) \/ WorkerRelease(w)

Next ==
    \/ \E t \in Threads : Begin(t) \/ Lseek(t) \/ Running(t)
    \/ \E w \in Pool : Worker(w)
    \/ Exit

\* Threads are OS threads: one inside a call keeps being scheduled, and so
\* do the pool threads; whether a caller issues another call is its choice.
Fairness ==
    /\ \A t \in Threads : WF_vars(Running(t))
    /\ \A w \in Pool : WF_vars(Worker(w))

Spec == Init /\ [][Next]_vars /\ Fairness

-----------------------------------------------------------------------------
(* Properties *)

PcSet == {"idle", "wr_iter", "wr_body", "rd_iter", "rd_body", "wr_hole",
          "wr_hole_lru", "wr_hole_insert", "wr_size", "wr_size_store",
          "wr_flush", "disp_begin", "disp_loop", "disp_end", "exited"} \cup AppendPcs
Entry == [node : 0 .. NodeNr - 1, size : 0 .. 2 * NodeSize - 1, dev : Devices,
          off : PhysBytes \cup {NodeSize * (MaxIndexNode + 1)},
          buf : [Bytes -> Vals] \cup {NoBuf},
          present : BOOLEAN, dirty : BOOLEAN, csize : {0, 1}]

TypeOK ==
    /\ index \subseteq EntryIds
    /\ nextNo \in Nat \ {0}
    /\ ent \in [EntryIds -> Entry]
    /\ phys \in [Devices -> [PhysBytes -> Vals]]
    /\ placement \in {"tbd", "both"}
    /\ readers \subseteq Threads
    /\ cold \in Seq(EntryIds)
    /\ queue \in [Queues -> Seq(EntryIds)]
    /\ gauge \in Nat /\ indicator \in BOOLEAN
    /\ coldHolder \in Threads \cup {None}
    /\ qHolder \in [Queues -> Pool \cup {None}]
    /\ mtx \in [EntryIds -> Threads \cup {None}]
    /\ pending \in [Queues -> Nat]
    /\ wq \in [Pool -> Queues \cup {None}] /\ wlocked \in [Pool -> BOOLEAN]
    /\ pc \in [Threads -> PcSet]
    /\ ghost \in [FileBytes -> Vals]
    /\ rbuf \in [Threads -> [BufIdx -> Vals \cup {None}]]

\* entries a reader can reach, and the new entry of a hole fill in flight
Live == index \cup {cur[t] : t \in {u \in Threads : pc[u] \in {"wr_hole_lru", "wr_hole_insert"}}}
\* the byte i of entry e as a reader would get it: from the cache buffer
\* while present, else from its physical file
Content(e, i) == IF ent[e].present THEN ent[e].buf[i] ELSE phys[ent[e].dev][ent[e].off + i]
Holds(e, o) == Base(e) <= o /\ o - Base(e) < ent[e].size /\ o - Base(e) < NodeSize

\* Whatever the interleaving of writers, readers, the dispatcher and the
\* flushing workers, every byte an interval holds is the byte last written
\* at that file offset, whether it sits in the cache buffer or was written
\* back by poly_cache_evict; and no byte a write copied is held by no
\* interval.  Breaks if admission forgets to load an evicted interval, a
\* write is not marked dirty, or eviction drops a dirty buffer.
CachedDataCoherent ==
    /\ \A e \in Live : \A o \in FileBytes : Holds(e, o) => Content(e, o - Base(e)) = ghost[o]
    /\ \A o \in FileBytes : ghost[o] # Zero => \E e \in Live : Holds(e, o)

Occurrences(e, s) == Cardinality({i \in 1 .. Len(s) : s[i] = e})
ListCount(e) == Occurrences(e, cold) + Cardinality({q \in Queues : InSeq(e, queue[q])})

\* The list_head cache_lru links an interval into at most one list, the
\* cold list or one flushing queue, and only while it has a cache buffer:
\* an interval linked twice corrupts both lists, and a linked interval
\* without a buffer would be evicted from a freed buffer.
ListMembershipSound ==
    \A e \in EntryIds :
        /\ ListCount(e) <= 1
        /\ \A q \in Queues : Occurrences(e, queue[q]) <= 1
        /\ ListCount(e) = 1 => ent[e].buf # NoBuf

\* An interval dispatched to a flushing queue is eventually evicted: the
\* dispatcher launches a job for every queue it may have filled.
VictimsEventuallyEvicted == \A e \in EntryIds : (e \in Queued) ~> (e \notin Queued)

\* Every read or write call returns: no cycle of waits between the tree
\* lock, the interval locks, the cold-list spinlock and the queue mutexes.
InCall(t) == pc[t] \notin {"idle", "exited"}
OperationsComplete == \A t \in Threads : InCall(t) ~> ~InCall(t)

\* Two intervals of the index never overlap (spec, testable properties:
\* non-overlap invariant).  Intervals are node-aligned, so two overlap
\* exactly when they cover the same node.  The hole loop of
\* polystore_write_iter_polycache allocates and fills outside the tree lock
\* and takes it only to insert, so two writers of the same hole race.
IndexNonOverlap == \A e, f \in index : e # f => ent[e].node # ent[f].node

\* Once polystore_exit has run, every byte the application wrote is in the
\* physical file of an interval of the index that holds it, and no interval
\* is left with the only copy in a cache buffer: poly_cache_free writes back
\* every dirty interval it finds before freeing the buffer.  Relates the
\* device files after exit to every write of the run, through dispatches,
\* evictions by the pool and reloads in between.
Exited == \E t \in Threads : pc[t] = "exited"
DurableAtExit ==
    Exited =>
        \A o \in FileBytes : ghost[o] # Zero =>
            \E e \in index : /\ Holds(e, o)
                            /\ ~ent[e].present
                            /\ phys[ent[e].dev][ent[e].off + o - Base(e)] = ghost[o]
-----------------------------------------------------------------------------
(* Refinement of the byte file PolyFile *)

\* The byte at offset o as a call sees it: through the first interval of the
\* index whose node holds o (the one the lookup yields), from its buffer
\* while present or else from its physical file; Zero where no interval is.
FileByte(o) ==
    LET c == {e \in index : Base(e) <= o /\ o <= Last(e)}
        e == CHOOSE e \in c : \A f \in c : Precedes(e, f)
    IN  IF c = {} THEN Zero ELSE Content(e, o - Base(e))

\* A call is in the engine from Begin to the store of its size (a write) or
\* the end of its walk (a read); the flushing check and a dispatch the
\* writer runs after that change no byte and no size.
CallPcs == {"rd_iter", "rd_body", "wr_iter", "wr_body", "wr_hole", "wr_hole_lru",
            "wr_hole_insert", "wr_size", "wr_size_store"} \cup AppendPcs
InFileCall(t) == pc[t] \in CallPcs
RangeBase(t) == end[t] - req[t].cnt + 1
\* a read has advanced its range past bytes it did not copy
ShortRead(t) == req[t].op = "read" /\ start[t] - RangeBase(t) > copied[t]

\* A write to a file opened O_APPEND takes its range from the file position,
\* not from the size (see the hazard at io_buffered.c:217), so it is the
\* byte file's positioned write.
File == INSTANCE PolyFile WITH
    content <- [o \in FileBytes |-> FileByte(o)],
    size <- inodeSize,
    op <- [t \in Threads |-> IF ~InFileCall(t) THEN "idle"
                             ELSE IF req[t].op = "read" THEN "read" ELSE "write"],
    lo <- [t \in Threads |-> IF ~InFileCall(t) THEN 0
                             ELSE IF ShortRead(t) THEN end[t] + 1 ELSE start[t]],
    hi <- [t \in Threads |-> IF InFileCall(t) THEN end[t] ELSE 0],
    base <- [t \in Threads |-> IF InFileCall(t) THEN RangeBase(t) ELSE 0],
    got <- rbuf

\* The cached engine implements the same byte file as the direct one:
\* through admission, dispatch, write-back by the pool and reload, every
\* byte a read copies into the caller's buffer is the byte the file holds
\* at that offset, each interval's piece is moved atomically under its
\* mutex, no step but a write's copy changes a byte, and the size covers
\* every write that returned.
FileRefined == File!Spec
====
