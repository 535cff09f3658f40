# TLA+ models of PolyStore

This directory holds TLA+ models of PolyStore (`src/polylib`) and the TLC
configurations that check them. PolyStore is a user-level file layer that
spreads each file over a fast and a slow device. `PROJECT.json` lists:

- every component, and which module models it;
- the lines of C each definition stands for (`map`);
- the runs, and the mutants that show each passing property can fail;
- the findings, and the hazards the code is exposed to.

## The system

A file opened through PolyStore has a **poly inode**. Part of its state is
shared with the kernel controller PolyOS, and part lives in userspace.

**IntervalIndex** (`indexing.c`, `polystore.h`)
- Each inode keeps an interval tree of entries. An entry covers one
  node-aligned range of `POLY_INDEX_NODE_SIZE` bytes.
- An entry records its device, its offset in that device's physical file, the
  bytes it holds (`size`), and its cache fields: buffer, `present`, `dirty`,
  `cache_size`, `removed`, LRU link and a mutex.
- Entries are numbered by the per-inode counter `next_avail_it_node_no`, which
  is bounded by `MAX_POLY_INDEX_NODE_NR`.
- The rwlock `it_tree_lock` guards the tree.

**IOEngine.** Two backends are chosen at compile time.
- The cached backend (`io_buffered.c`):
  1. walks the intervals overlapping a request;
  2. locks each interval, gives it a buffer if it has none, admits it and copies;
  3. fills any hole at the end of the range with new entries;
  4. raises `inode->size`, and may start a flush.
- A read or write holds the tree read lock only during the walk. An `O_APPEND`
  write holds the write lock from the walk to the size update.
- The direct backend (`io_direct.c`) does the same walk with one `pread` or
  `pwrite` per interval on the device's physical file. It places a new
  interval at the end of that file (`lseek(SEEK_END)`, rounded up to a node)
  instead of at the cache's offset counters.
- `polystore_ftruncate_iter` (`opedata.c`) enlarges a file through the direct
  backend's `polystore_write_iter` in either build.

**CacheEngine** (`cache.c`)
- Admission loads an absent interval, marks a write dirty, and counts the
  interval once in the gauge `poly_cache_size`. A new buffer joins the cold
  LRU list.
- A writer that sees the gauge above `poly_cache_flushing_begin` test-and-sets
  the flushing indicator. The winner dispatches:
  - it moves cold-list victims round-robin to the flushing queues until a
    snapshot of the gauge falls below `poly_cache_flushing_end`;
  - it resets the gauge and gives the thread pool one job per queue.
- A pool job holds its queue's mutex for its whole walk. Under each victim's
  interval lock it writes the buffer back if dirty, frees it, clears the
  flags, and unlinks the victim.
- At exit, the destructor `polystore_exit` calls `poly_cache_exit`. It waits
  for the pool, then `poly_cache_free` writes back and releases every interval
  of every inode.

**Metadata operations** (`opemetadata.c`) and **PolyOS** (`polyos/`)
- `open`, `close`, `unlink` and `rename` go through ioctls to the kernel.
- The kernel keeps an inode hashtable, reference counts and a `reclaim` flag.
- The library keeps maps of files and inodes. It increments the reference
  count itself. It drops an inode's cache when it reads the count as the
  last reference, before the kernel step that frees the inode.
- The kernel frees the inode but never its index. `free_poly_index` is
  passed `inode->index` where it expects the inode. It reads entry 0 of the
  index, which is never allocated and stays zeroed, and returns at once.

**Task context and placement** (`context.c`, `placement.c`, `polyos/taskctx.c`)
- Each thread registers a task context. The first `split_point` tasks get FAST.
- A 200 ms `SIGPROF` handler runs the placement handler. The dynamic
  scheduler, which promotes and demotes tasks and maintains
  `sched_fastdev_usage`, is installed only in builds with
  `POLYSTORE_DYNAMIC_PLACEMENT` (`polystore.c:168-172`). The default build
  installs a handler that only gathers statistics and never promotes.
  `PolyPlacement` models the dynamic build.
- A hole an I/O call fills goes to the device of the calling task.

## Modules

Each module models one component, with the state of its C structures as
variables and one action per step between two points where another thread can
observe or block. Steps are merged only where a lock held by the code makes
the merged part invisible to others.

### PolyCache.tla: the cached engine and the cache it drives

The model covers one inode, with foreground threads `Threads`, pool threads
`Pool` and `NQueues` flushing queues.

**State.** Per inode:

| variable | stands for |
|---|---|
| `index` | the entries in the tree |
| `ent` | the entries (`struct it_node_entry`) |
| `nextNo` | the node counter |
| `phys` | the two physical files, byte by byte |
| `devOff` | `cache_fast_offset`, `cache_slow_offset` |
| `inodeSize` | `inode->size` |
| `placement` | `inode->placement` |
| `readers` | the holders of the tree read lock |

For the cache:

| variable | stands for |
|---|---|
| `cold` | the cold list |
| `queue` | the flushing queues |
| `gauge` | `poly_cache_size`, in nodes |
| `indicator` | the flushing indicator |
| `coldHolder` | the holder of the cold-list spinlock |
| `qHolder` | the holders of the queue mutexes |
| `mtx` | the holders of the interval mutexes |
| `pending` | jobs not yet taken by the pool |
| `wq`, `wlocked` | the pool threads' state |

Each thread has:
- a program counter `pc`;
- the locals of the C functions (`start`, `end`, `copied`, the current entry
  `cur`, and the size and dispatch snapshots);
- its file position `pos` (`file->off`);
- the caller's read buffer `rbuf`, filled by the `memcpy` of each read piece
  (`CopyOut`); a byte copied from past the node buffer is `Garbage`.

The history variable `ghost` holds, for each file offset, the value last
written there. The write lock of an append is a `pc` in `AppendPcs`.

**Data.** A writer writes its own thread id. A fresh buffer holds `Garbage`,
because `posix_memalign` does not clear it. A sparse physical file holds `Zero`.

**Actions**

| action(s) | code |
|---|---|
| `Begin` | placement switch of `polystore_read_generic` / `_write_generic`; `O_APPEND` dispatch; `polystore_io_set_range`; taking the tree lock |
| `Lseek` | `polystore_lseek`; SEEK_END reads `inode->size` unlocked |
| `IterLock`, `IterDone` | one step of the walk: take the next interval's mutex; or end the walk. A read ends at an interval it would start past the filled size of (`ReadBeyond`), which includes a hole before the interval: the negative `it_buf_start` is compared with a `size_t` and converts to a huge value |
| `ReadBody`, `WriteBody`, `AppendBody` | the bodies of the three walks, sharing `Access`: allocate and link to the cold list, `poly_cache_admit`, `memcpy`, unlock, advance |
| `HoleAlloc`, `HoleLru`, `HoleInsert`, `HoleDone` | one pass of the write path's hole loop |
| `AppendHole`, `AppendHoleDone` | the append's hole loop, under the write lock |
| `AppendSize` | the append's size update, under the write lock |
| `SizeLoad`, `SizeStore` | the write path's unlocked `inode->size = max(...)`, as a separate load and store |
| `FlushCheck` | the threshold test and test-and-set |
| `DispBegin`, `DispVictim`, `DispListEnd`, `DispEnd` | `poly_cache_flushing_dispatch` |
| `WorkerTake`, `WorkerLock`, `WorkerEvict`, `WorkerRelease` | `poly_cache_flushing_worker`, with `poly_cache_evict` |
| `Exit` | `poly_cache_exit` then `poly_cache_free`: write back every interval overlapping `[0, size - 1]` in tree order; clear its flags; free its buffer; unlink it from the cold list |

**Properties**

- `CachedDataCoherent`: every byte an interval holds is the last byte written
  at that offset, whether it sits in the buffer or on the device after
  write-back. No written byte is left without an interval.
- `ListMembershipSound`: an entry is linked at most once, into the cold list or
  one queue, and only while it has a buffer.
- `DurableAtExit`: after `polystore_exit`, every byte written is in the
  physical file of an interval that holds it, and no interval is still present
  in the cache.
- `VictimsEventuallyEvicted`: every dispatched victim leaves its queue.
- `OperationsComplete`: every call returns, so there is no cycle of waits
  among the tree lock, the interval mutexes, the cold-list spinlock and the
  queue mutexes.
- `FileRefined`: `PolyCache` implements `PolyFile`, with the same mapping
  as `PolyDirect` (below). A byte's content is what the first interval holding
  it holds, in its buffer if present, else on its device. A call's remaining
  range starts at `start`, or is empty once a read copied less than it walked.
  The read buffer is `rbuf`.
- `IndexNonOverlap`: the spec's rule that intervals never overlap. The code
  violates it.

### PolyInode.tla: inode life cycle across the library and the kernel

**State**

| variable(s) | stands for |
|---|---|
| `ktab`, `nextIno`, `ist` | the kernel's path-hash table, inode counter and inode state (unused, live, freed); `Free` frees only the inode, as the code does, so the index stays mapped |
| `refcount`, `reclaim`, `ipath` | the shared inode fields |
| `umap` | the library's inode map |
| `fd` | each thread's poly-file |
| `ent` | the inode's interval, as the cache sees it: has a buffer, removed, linked on a list |

**Actions.** Each library call is split at its ioctl and its unlocked steps:
- `OpenSearch`, `OpenInsert`, `OpenFinish`;
- `CloseUser` (it copies the path hash into the command), `CloseKernel`;
- `UnlinkUser`, `UnlinkKernel`;
- `RenameKernel`, `RenameUser`;
- `Write` (the cache touching the interval);
- `Flush` (the flusher unlinking the interval).

**Properties**

- `OnePathOneInode`: the kernel table has at most one inode per path.
- `UserMapAgrees`: between calls, the library's map agrees with the kernel's table.
- `RefcountAccounting`: a live inode's count equals its poly-files plus the
  closers that have yet to decrement.
- `OpenFilesLive`: no descriptor refers to a freed inode.
- `FreedInodeCacheDropped` (action property): no step frees an inode whose
  interval still has a buffer. The code violates it (`close_unlink_race`).

### PolyPlacement.tla: task contexts and the dynamic scheduler

**State**
- `kTasks`: the kernel's task hashtable.
- The context fields `placement`, `thr`, `lastThr` and `lowTic`.
- `cnt`: `task_ctx_active_cnt`.
- `usage`: `sched_fastdev_usage`.
- `list`: the task list.
- The scheduler's position in its walk (`sched`).

`Init` is the state `polystore_init` leaves: the split point, and the main
thread registered, FAST when the split point is positive.

**Actions**

| action(s) | code |
|---|---|
| `RegIoctl`, `Count`, `Place`, `Link` | registration, step by step: the kernel ioctl, the FAST decision on `cnt < split`, the usage increment, the link under the list's write lock |
| `Unlink`, `Unplace`, `Uncount` | deletion, step by step |
| `Io` | the `throughput +=` of the I/O paths |
| `EpochBegin`, `Sample`, `Decide` | one walk of `polystore_placement_dynamic`, with promotion, the low-throughput streak and demotion |

**Properties**
- `UsageAccounting`: `usage` equals the number of registered tasks on FAST.
- `FastWithinSplit`: `usage` never exceeds the split point. The code violates it.

### PolyFile.tla and PolyDirect.tla: the direct engine and what it promises

`PolyFile` is the abstract specification of an I/O engine for one file, written
from spec.md's IOEngine section. The file is a row of bytes and a size.
- `Call` fixes a range; an append's range starts at the size.
- `Move` moves a front piece of the range atomically. A write stores the
  caller's value; a read copies the bytes to their place in the caller's
  buffer, and stops when it copies less than a piece (the filled end of an
  interval, read as end of file).
- `Return` ends the call; a write or append leaves the size covering its range.

`PolyDirect` models `io_direct.c` for one inode and two devices.

| variable | code |
|---|---|
| `index`, `ent`, `nextNo` | the interval tree, the entries (node, `placement`, `offset`), `next_avail_it_node_no` |
| `phys`, `physLen` | the bytes and the length of the fast and slow physical files |
| `inodeSize` | `inode->size` |
| `readers`, `writer` | holders of `it_tree_lock` |
| `pc`, `req`, `start`, `end`, `copied`, `cur`, `snap` | each call's locals; `snap` is the size it loaded |
| `pos`, `rbuf` | `file->off` and the read buffer |

| action | code |
|---|---|
| `Begin` | `polystore_io_set_range` and the lock: read lock for read and write, write lock and a range from `inode->size` for append |
| `ReadChunk`, `WriteChunk`, `AppendChunk` | one iteration of the walk: a `pread` or `pwrite` of the piece, `copied` and `start` advanced |
| `WalkBreak` | a negative physical offset `offset + it_buf_start` (`PhysStart`), which fails the syscall and breaks the walk. The offset is not checked otherwise: with a hole before the interval, a non-negative `PhysStart` reads or writes the bytes before the interval in its device file |
| `WalkDone`, `EndWalk` | the lookup finds no more intervals; the read and write paths unlock |
| `HoleAlloc`, `AppendHoleAlloc` | `polystore_index_entry_allocate` and the offset from `lseek(SEEK_END)` rounded up |
| `HoleWrite`, `HoleInsert` | the unlocked `pwrite`, then the insert under the write lock (`write_iter`) |
| `AppendHoleWrite` | the `pwrite` and insert of `append_iter`, still under the write lock |
| `HoleDone`, `SizeLoad`, `SizeStore` | the end of the hole loop and the unlocked `max` size update as a load and a store |
| `AppendSize` | the size update and unlock of `append_iter` |

`Init` is an inode whose intervals (`InitNodes`) were written earlier, in
node order, each at the end of its device's file.

**Refinement.** `PolyDirect` instantiates `PolyFile` with this mapping:
- a byte's content is the physical byte behind the first interval holding it
  (the one the lookup finds), or `Zero`;
- the size is `inodeSize`;
- a call's remaining range starts at `start`, or is empty once a read has
  copied less than it walked;
- the read buffer is `rbuf`.

**Properties**
- `PhysicalDisjoint`: no two intervals on one device share physical bytes.
- `FileRefined`: `PolyDirect` implements `PolyFile` (a PROPERTY). It checks
  what each piece moves: every byte a read copies is the file's byte at that
  moment and lands in its place, and every write lands in its own range. It
  does not check how much a read returns. `PolyFile`'s `Return` may end a
  call at any point, as the code does when a `pread` or `pwrite` fails. So
  in `direct_data`, `W(8, 2)` then `R(4, 8)` returns 0 bytes mid-file (the
  walk breaks at a negative physical offset), and the property still holds.
  The short-read shift and the size race are outside the run (see Findings).
- `CallsReturn`: every call returns, under weak fairness of each thread's steps.

## Runs

| run | cfg | expect | what it shows |
|---|---|---|---|
| cache_data | MCPolyCache_data.cfg | pass, 611,538 states, about 45 s | Two tasks on different devices work on a sparse 2-node file whose second node is on disk. One fills the first node's hole, by a write or an `O_APPEND` write, and rewrites the second node. The other rewrites a byte and reads across the boundary. Dispatch and two pool threads run throughout, then the library exits. `TypeOK`, `CachedDataCoherent`, `ListMembershipSound` and `DurableAtExit` hold. |
| cache_progress | MCPolyCache_progress.cfg | pass, 90,900 states, about 2.5 min | A write across the boundary, a seek to the end, an append holding the tree write lock, and a whole-file read, all with dispatch and eviction. The cached engine implements `PolyFile` (`FileRefined`): every byte a read copies is the file's byte at that offset at the moment it is copied, and every write lands. Every call returns and every victim is evicted. |
| hole_overlap_race | MCPolyCache_overlap.cfg | violation | Two writers of the same uncovered node both insert an interval for it. |
| inode_seq | MCPolyInode_seq.cfg | pass, 350 states | One thread opens, writes, closes, renames and unlinks while the flusher runs. The library map agrees with the kernel, descriptors stay live, . |
| inode_open | MCPolyInode_open.cfg | pass, 1,235 states | Two threads open, write and close one path. There is one inode per path and the reference counts are exact. |
| unlink_open_race | MCPolyInode_unlinkopen.cfg | violation | An unlink between the open ioctl and the library's increment frees the inode the opener keeps. |
| close_unlink_race | MCPolyInode_closeclose.cfg | violation | A close of the last reference and an unlink of the same file both test the count in the library before the kernel acts. The unlink reads 1 and the close reads `reclaim` 0, so neither drops the cache, and the kernel unlink frees the inode while its interval holds a buffer. Two closes of an unlinked file race the same way. |
| rename_over_existing | MCPolyInode_renameover.cfg | violation | Renaming onto a path that has an inode leaves two inodes under one hash. |
| placement | MCPolyPlacement_sched.cfg | pass, 139,549 states | The main thread and two threads start, do I/O and exit while the scheduler promotes and demotes. The usage counter stays exact. |
| direct_data | MCPolyDirect_data.cfg | pass, 7,117 states, about 20 s | One task on the fast device writes across a hole, writes the tail and appends; another on the slow device reads across the boundaries. `TypeOK`, `PhysicalDisjoint`, `FileRefined` and `CallsReturn` hold. |
| direct_phys_alias | MCPolyDirect_alias.cfg | violation | Two tasks on one device fill holes at once. Both take the same end of the physical file from `lseek`, and their intervals share physical bytes. |
| split_overshoot | MCPolyPlacement_split.cfg | violation | A registration between its FAST decision and its increment lets the scheduler promote past the split point. |

Each passing property has a mutant in `PROJECT.json`: a plausible bug in the
definition it depends on, under which TLC finds the property violated. For
example, `Exit` without `poly_cache_evict` (`ExitNoEvict`) breaks
`DurableAtExit`, and `Unplace` without the decrement breaks `UsageAccounting`.

### Bounds

**PolyCache**
- Two tasks; two pool threads and two queues (the code's default
  `poly_cache_flushing_thread_nr = 2`).
- Nodes of 2 bytes over a 2-node file. A node of 2 bytes keeps every case of a
  real node: within one node, across the boundary, a partial interval, an
  unaligned start.
- High- and low-water marks of 1 node. The second admitted interval starts a
  dispatch, and the dispatch runs to its end.
- At most 2 calls per task.
- The passing data run starts every hole on a node boundary with at least two
  bytes. The two sequential hole bugs (see Findings) would mask everything else.
- `FileRefined` is checked in the progress run, whose file has no hole. Added
  to the data run, whose first node is a hole, it also holds (624,737 states),
  but that takes four and a half minutes, so it is not kept there.
- With 2-byte nodes a partly filled interval holds one byte, so the read
  clamp's overrun (see Findings) cannot occur; it needs nodes of 3 bytes.

**PolyDirect**
- Nodes of 4 bytes over a 3-node file, one earlier interval on the slow device,
  and room for 3 entries, as many as the file has nodes.
- One writer and one reader. Two growing writers first meet the shared
  physical offset (`direct_phys_alias`) and the hole overlap already shown for
  the cached engine, which would mask everything else.
- The writer writes node 1 whole. A partly filled interval followed by another
  triggers the short-read shift (see Findings).

**PolyInode**
- One or two threads, two paths, and 2 or 3 inode numbers.
- At most 3 or 4 calls per thread. That is enough for every open, close,
  unlink and rename order on one path, and for a rename onto a second path.

**PolyPlacement**
- The main thread and two threads, with a split point of 2, so that
  registration chooses both devices.
- A low-throughput threshold of 1, so that a demotion takes two idle epochs.
- Three threads besides main take minutes and add no new kind of step.

### Fairness and deadlock

`cache_progress` and `direct_data` assume weak fairness of every step of a thread inside a call
(`Running`), and, in the cache, of every pool thread (`Worker`):
- these are OS threads that keep being scheduled;
- a thread blocks only on the locks the model represents;
- starting a new call is the application's choice, and is not fair.

The PolyCache, PolyDirect and PolyInode runs set `CHECK_DEADLOCK FALSE`. The program
legitimately stops when the application stops calling, or after exit, and
blocking cycles are caught by `OperationsComplete`. The placement runs check
deadlock, because the main thread's I/O and the scheduler can always step.

## Findings

The violation runs each reproduce a bug. `PROJECT.json` gives its source line.
- **Cached write path** (`polystore_write_iter_polycache`): `hole_overlap_race`.
- **Direct write path** (`polystore_write_iter`): `direct_phys_alias`. The
  `lseek(SEEK_END)` that places a new interval is taken before the `pwrite`
  that extends the file, with no lock, so two tasks get the same offset.
- **Library-versus-kernel protocol**: `unlink_open_race`, `close_unlink_race`
  and `rename_over_existing`.
- **Placement**: `split_overshoot`, where the split point the spec promises is
  exceeded (dynamic-placement build).
- **The kernel leaks every freed inode's index.** See the system description
  above: `free_poly_index` returns without unmapping or freeing, while the
  spec says the index is freed with the inode. The model's `Free` follows
  the code. The leak is not a property, because the model does not count
  kernel memory.

More disagreements found while modelling are recorded as hazards in
`PROJECT.json` and not as runs of their own: each is shown by a single
sequential call or by a passing property from another starting state, or is
in code that is not modelled.

- **Cached hole loop, one call at a time.** A one-byte hole at the end of a
  range is never written (`while (start < end)`), and the call returns one
  byte short. A hole starting inside a node is copied to the start of the new
  buffer. Both were violation runs in an earlier version of this project.
- **Direct reads shift after a short `pread`.** A read that meets the filled
  end of an interval does not stop; the next interval's bytes land in the
  buffer at the wrong place. `FileRefined` is violated by `W(8, 2)`, then
  `W(2, 4)` on one device, then `R(4, 8)`. spec.md says such a read stops.

- **The size race loses data at exit.** The write path stores
  `inode->size = max(end + 1, size)` unlocked, so a writer with a stale load
  lowers the size. `poly_cache_free` writes back only intervals overlapping
  `[0, size - 1]`, so a dirty tail beyond the lowered size is never written.
  - TLC finds `DurableAtExit` violated when an empty file gets `W(0, 4)` and
    `W(0, 2)`, with no dispatch in between.
  - `cache_data` starts at full size, where this cannot happen.
- **`O_APPEND` writes at the file position.** An append takes its range from
  `file->off` or the offset given, never from `inode->size`. Two descriptors
  appending to one file therefore overwrite each other. The spec says an
  append always goes beyond the current size.
- **Enlarging `ftruncate` writes stack bytes.** `memset(buf, 4096, '0')`
  has its arguments swapped, so only 48 bytes of the buffer are zeroed. The
  spec says enlargement fills with zeroes. It is not modelled.
- **Shrinking `ftruncate` is narrow.** It shortens only the first interval
  found and cuts the physical file at the file offset, not at the interval's
  offset in it, which destroys other intervals placed past that offset. It
  never updates `inode->size`, so later reads and `lseek(SEEK_END)` still see
  the old size. The spec admits the narrowness. It is not modelled (see below).
- **Reads stop at a hole.** In the cached read path, a hole before the first
  interval found makes `it_buf_start` negative. The check
  `it_buf_start >= it_entry->size` converts it to unsigned, so the read returns
  only the bytes before the hole. In the direct engine, the same negative start
  is added to the interval's physical offset without a check. The `pread` or
  `pwrite` fails only if the sum is negative; otherwise it reads or
  overwrites the bytes before the interval in the device file. The models
  follow both paths. The passing runs reach only the stopping cases.
- **The cached read clamp overruns.** For a partly filled interval the count
  is `end - start + 1` whenever that is below the filled size. It ignores
  `it_buf_start` and the node end, so a read starting inside the interval can
  copy past the filled bytes; the code only prints "read overflow".

## Not modelled, and why

- **`ftruncate`**. The enlarging branch goes through the direct engine's
  `polystore_write_iter`, even in the cached build. Modelling it in the cached
  build would compose PolyCache and PolyDirect over one physical file, with two
  placement schemes (the cache's offset counters and `lseek(SEEK_END)`) that
  can hand out the same bytes; that is listed as a hazard. The shrinking
  branch is a narrow special case.
- **The interval `size` field in the direct engine.** Only `ftruncate` reads it.
- **The SHM buffer allocator** (`cache_mm.c` under `POLYSTORE_POLYCACHE_SHM`).
  The default build uses `posix_memalign`, which the model's fresh `Garbage`
  buffer stands for.
- **Compiled out**: the page-granularity cache (`_HETERO_CACHE_PG`), the hot
  list (`#if 0`), and the FILECOPY hook.
- **The `FAST_READ_NOT_ADMIT` cache policy** (mmap of the physical file). The
  model fixes the default policy, EQUAL.
- **`poly_cache_fsync`**, which has no caller. `polystore_fsync` returns 0.
- **Abstracted away**: statistics (`ref_count`, access counters), logging, and
  data values, which are reduced to writer ids.
- **`capacity_stoul`** (`util.c`), the environment parser. It would be a pure
  operator checked against a reference parse. It is listed as a hazard: it
  drops the last digit of a plain byte count.
- **Out of TLC's reach, or not part of the system**: the syscall shim's
  forwarding, the kernel's page mapping (`mm.c`), ioctl marshalling, and the
  benchmarks, tools and tests.
