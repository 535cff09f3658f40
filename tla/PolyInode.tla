------------------------------ MODULE PolyInode ------------------------------
(***************************************************************************)
(* The life cycle of poly-inodes, split between the PolyOS kernel          *)
(* controller (polyos/operation.c, polyos/inode.c) and the user library    *)
(* (opemetadata.c, context.c), and its interaction with the interval      *)
(* cache (cache.c):                                                        *)
(*                                                                         *)
(*  - the kernel keeps a hashtable from path hash to inode, the inode      *)
(*    number counter, and frees an inode when the last close of an         *)
(*    unlinked file drops the reference count, or on unlink when no one    *)
(*    holds it; its index is never freed (see Free);                       *)
(*  - the library keeps the poly-file of every descriptor, its own map     *)
(*    from path hash to inode, increments the reference count after the    *)
(*    open ioctl returns, and drops the cache of an inode before asking    *)
(*    the kernel to free it;                                               *)
(*  - the cache links intervals of every inode on its LRU lists and        *)
(*    unlinks them lazily when it flushes them.                            *)
(*                                                                         *)
(* Both sides run concurrently: the ioctls take no global lock, and the    *)
(* reference count is shared memory guarded by inode->spinlock.  A path    *)
(* is a model value standing for its hash; an inode has one interval.      *)
(***************************************************************************)
EXTENDS Integers, Sequences, FiniteSets

CONSTANTS
    Threads,    \* application threads calling into the library
    Paths,      \* path hashes
    MaxIno,     \* MAX_POLY_INODE_NR, scaled
    Calls,      \* [Threads -> set of calls a thread may make]
    MaxOps,     \* bound on the calls made per thread
    None,       \* no inode, no descriptor
    Orphan      \* a descriptor open() returned without a poly-file

Inos == 0 .. MaxIno
\* the index region has room for MAX_POLY_INODE_NR indexes: 0 .. MAX-1
Mappable(i) == i < MaxIno

ASSUME \A t \in Threads : \A c \in Calls[t] :
         c.op \in {"open", "close", "write", "unlink", "rename"} /\
         c.p \in Paths /\ c.q \in Paths /\ (c.op = "rename" => c.p # c.q)

VARIABLES
    \* PolyOS kernel controller
    ktab,       \* [Paths -> Seq(Inos)] i_hashtable bucket chains, head first
    nextIno,    \* next_avail_inode_no, saturated at MaxIno + 1
    ist,        \* [Inos -> {"unused", "live", "freed"}] the vmalloc'd inode
    \* struct poly_inode, shared by kernel and library
    refcount,   \* inode->refcount
    reclaim,    \* inode->reclaim
    ipath,      \* inode->path_hash
    ent,        \* [Inos -> interval record] the interval of the inode's index
    \* the library
    umap,       \* [Paths -> Inos \cup {None}] poly_inode_hashmap
    fd,         \* [Threads -> Inos \cup {None, Orphan}] the thread's descriptor
                \* and the inode of its poly-file (poly_file_hashmap)
    pc, arg, cur, nops

kernelVars == <<ktab, nextIno, ist>>
inodeVars == <<refcount, reclaim, ipath, ent>>
threadVars == <<pc, arg, cur, nops>>
vars == <<kernelVars, inodeVars, umap, fd, threadVars>>

-----------------------------------------------------------------------------
(* The interval of an inode: whether it exists, has a cache buffer, is     *)
(* marked removed, and how many times it is linked on the cache lists      *)
(* (list_add on a node already linked links it twice).                     *)

NoEntry == [exists |-> FALSE, buf |-> FALSE, removed |-> FALSE, links |-> 0]
Entry == [exists : BOOLEAN, buf : BOOLEAN, removed : BOOLEAN, links : Nat]

\* polystore_write_iter_polycache on the inode's one interval: a hole gets a
\* new interval with a buffer, linked on the cold list; an interval without
\* a buffer gets one and is added to the cold list again.
Touch(e) ==
    IF ~e.exists
    THEN [exists |-> TRUE, buf |-> TRUE, removed |-> FALSE, links |-> e.links + 1]
    ELSE IF ~e.buf THEN [e EXCEPT !.buf = TRUE, !.links = @ + 1]
    ELSE e

\* poly_cache_drop: free every buffer and mark every interval removed,
\* leaving it linked for the flusher to unlink.
Drop(e) == IF e.exists THEN [e EXCEPT !.buf = FALSE, !.removed = TRUE] ELSE e

-----------------------------------------------------------------------------
(* Kernel hashtable *)

\* i_hashtable_search: the first inode of the bucket with this path hash
KSearch(p) == IF ktab[p] = <<>> THEN None ELSE Head(ktab[p])

\* i_hashtable_delete: unlink the first node with this path hash
KDelete(p) == [ktab EXCEPT ![p] = Tail(@)]

\* free_poly_index(inode->index) then free_poly_inode(inode).  The first is
\* passed the index where it expects the inode: it reads the inode's index
\* field from entry 0 of the index, which is never allocated and stays
\* zeroed, and returns at once; so only the inode is freed, and the index
\* and the entries linked from the cache lists stay mapped.
Free(i) == ist' = [ist EXCEPT ![i] = "freed"]

Return(t) ==
    /\ pc' = [pc EXCEPT ![t] = "idle"]
    /\ cur' = [cur EXCEPT ![t] = None]

\* alloc_poly_inode and alloc_poly_index: a zeroed inode with this path
\* hash, reference count 0, not reclaimed, and an empty index.
AllocInode(ino, p) ==
    /\ ist' = [ist EXCEPT ![ino] = "live"]
    /\ refcount' = [refcount EXCEPT ![ino] = 0]
    /\ reclaim' = [reclaim EXCEPT ![ino] = FALSE]
    /\ ipath' = [ipath EXCEPT ![ino] = p]
    /\ ent' = [ent EXCEPT ![ino] = NoEntry]

-----------------------------------------------------------------------------
(* The library's maps *)

\* polystore_inode_hashmap_add: HASH_REPLACE_INT under inode->path_hash
HashmapAdd(i) == [umap EXCEPT ![ipath[i]] = i]

\* polystore_inode_hashmap_delete: remove whatever entry inode->path_hash
\* keys, which need not be this inode's
HashmapDelete(i) == [umap EXCEPT ![ipath[i]] = None]

\* polystore_inode_hashmap_rename: if the old hash has an entry, re-key it
\* under the new hash, replacing the entry there
HashmapRename(p, q) ==
    IF umap[p] = None THEN umap ELSE [umap EXCEPT ![p] = None, ![q] = umap[p]]

\* polystore_file_create and polystore_file_delete on the thread's descriptor
FileCreate(t, i) == [fd EXCEPT ![t] = i]
FileDelete(t) == [fd EXCEPT ![t] = None]

-----------------------------------------------------------------------------
(* A thread starts one of its calls.  A thread holds at most one           *)
(* descriptor: it opens only without one, and closes or writes only with   *)
(* one.                                                                    *)

FirstStep == [open |-> "open_search", close |-> "close_user", write |-> "write",
              unlink |-> "unlink_user", rename |-> "rename_kernel"]

Begin(t, c) ==
    /\ pc[t] = "idle"
    /\ nops[t] < MaxOps
    /\ IF c.op = "open" THEN fd[t] = None
       ELSE c.op \in {"close", "write"} => fd[t] # None
    /\ pc' = [pc EXCEPT ![t] = FirstStep[c.op]]
    /\ arg' = [arg EXCEPT ![t] = c]
    /\ nops' = [nops EXCEPT ![t] = @ + 1]
    /\ UNCHANGED <<kernelVars, inodeVars, umap, fd, cur>>

(* polystore_open -> polyos_open: look the path up in the kernel table.   *)
OpenSearch(t) ==
    LET i == KSearch(arg[t].p) IN
    /\ pc[t] = "open_search"
    /\ pc' = [pc EXCEPT ![t] = IF i = None THEN "open_insert" ELSE "open_finish"]
    /\ cur' = [cur EXCEPT ![t] = i]
    /\ UNCHANGED <<kernelVars, inodeVars, umap, fd, arg, nops>>

(* i_hashtable_search_and_insert: take an inode number and allocate an     *)
(* index and an inode, then, under the table's write lock, return the     *)
(* inode another opener inserted meanwhile or insert the new one.  When   *)
(* the number is past the maximum the open ioctl fails with -ENOENT and   *)
(* polystore_open returns the descriptor it got without a poly-file.       *)
InsertNoRecheck(t) ==
    LET p == arg[t].p
        ino == nextIno
    IN
    /\ pc[t] = "open_insert"
    /\ ino <= MaxIno
    /\ nextIno' = ino + 1
    /\ ktab' = [ktab EXCEPT ![p] = <<ino>> \o @]
    /\ AllocInode(ino, p)
    /\ cur' = [cur EXCEPT ![t] = ino]
    /\ pc' = [pc EXCEPT ![t] = "open_finish"]
    /\ UNCHANGED <<umap, fd, arg, nops>>

OpenInsert(t) ==
    LET p == arg[t].p
        ino == nextIno
    IN
    /\ pc[t] = "open_insert"
    /\ nextIno' = IF ino > MaxIno THEN ino ELSE ino + 1
    /\ \/ /\ ino > MaxIno
          /\ fd' = [fd EXCEPT ![t] = Orphan]
          /\ Return(t)
          /\ UNCHANGED <<ktab, ist, inodeVars>>
       \/ /\ ino <= MaxIno
          /\ ktab[p] # <<>>
          /\ cur' = [cur EXCEPT ![t] = Head(ktab[p])]
          /\ pc' = [pc EXCEPT ![t] = "open_finish"]
          /\ UNCHANGED <<ktab, ist, inodeVars, fd>>
       \/ /\ ino <= MaxIno
          /\ ktab[p] = <<>>
          /\ ktab' = [ktab EXCEPT ![p] = <<ino>> \o @]
          /\ AllocInode(ino, p)
          /\ cur' = [cur EXCEPT ![t] = ino]
          /\ pc' = [pc EXCEPT ![t] = "open_finish"]
          /\ UNCHANGED fd
    /\ UNCHANGED <<umap, arg, nops>>

(* The rest of polyos_open maps the inode and its index into the caller;  *)
(* the index of inode number MAX lies past the index region and the map   *)
(* fails with -EFAULT, leaving the inode in the table.  Back in            *)
(* polystore_open the library creates the poly-file and, under            *)
(* inode->spinlock, increments the reference count; the first opener adds *)
(* the inode to the library's map.                                         *)
OpenFirstOnly(t) ==
    LET i == cur[t] IN
    /\ pc[t] = "open_finish"
    /\ IF ~Mappable(i)
       THEN /\ fd' = [fd EXCEPT ![t] = Orphan]
            /\ UNCHANGED <<refcount, umap>>
       ELSE /\ fd' = FileCreate(t, i)
            /\ refcount' = [refcount EXCEPT ![i] = IF @ = 0 THEN 1 ELSE @]
            /\ umap' = IF refcount[i] = 0 THEN HashmapAdd(i) ELSE umap
    /\ Return(t)
    /\ UNCHANGED <<kernelVars, reclaim, ipath, ent, arg, nops>>

OpenFinish(t) ==
    LET i == cur[t] IN
    /\ pc[t] = "open_finish"
    /\ IF ~Mappable(i)
       THEN /\ fd' = [fd EXCEPT ![t] = Orphan]
            /\ UNCHANGED <<refcount, umap>>
       ELSE /\ fd' = FileCreate(t, i)
            /\ refcount' = [refcount EXCEPT ![i] = @ + 1]
            /\ umap' = IF refcount[i] = 0 THEN HashmapAdd(i) ELSE umap
    /\ Return(t)
    /\ UNCHANGED <<kernelVars, reclaim, ipath, ent, arg, nops>>
CloseUserKeepFile(t) ==
    LET i == fd[t] IN
    /\ pc[t] = "close_user"
    /\ IF i = Orphan
       THEN /\ fd' = [fd EXCEPT ![t] = None]
            /\ Return(t)
            /\ UNCHANGED <<ent, umap, arg>>
       ELSE LET last == refcount[i] = 1 /\ reclaim[i] IN
            /\ ent' = IF last THEN [ent EXCEPT ![i] = Drop(@)] ELSE ent
            /\ umap' = IF last THEN HashmapDelete(i) ELSE umap
            /\ cur' = [cur EXCEPT ![t] = i]
            /\ arg' = [arg EXCEPT ![t].p = ipath[i]]
            /\ pc' = [pc EXCEPT ![t] = "close_kernel"]
            /\ UNCHANGED fd
    /\ UNCHANGED <<kernelVars, refcount, reclaim, ipath, nops>>

(* polystore_close, library side: find the poly-file; if this looks like *)
(* the last close of an unlinked file (refcount and reclaim read without  *)
(* the spinlock), drop the cache and remove the inode from the library's  *)
(* map; copy inode->path_hash into the close command; delete the         *)
(* poly-file.  A descriptor without a poly-file fails     *)
(* with -ENOENT and its kernel files stay open.                            *)
CloseUser(t) ==
    LET i == fd[t] IN
    /\ pc[t] = "close_user"
    /\ fd' = FileDelete(t)
    /\ IF i = Orphan
       THEN /\ Return(t)
            /\ UNCHANGED <<ent, umap, arg>>
       ELSE LET last == refcount[i] = 1 /\ reclaim[i] IN
            /\ ent' = IF last THEN [ent EXCEPT ![i] = Drop(@)] ELSE ent
            /\ umap' = IF last THEN HashmapDelete(i) ELSE umap
            /\ cur' = [cur EXCEPT ![t] = i]
            /\ arg' = [arg EXCEPT ![t].p = ipath[i]]
            /\ pc' = [pc EXCEPT ![t] = "close_kernel"]
    /\ UNCHANGED <<kernelVars, refcount, reclaim, ipath, nops>>

(* polyos_close: look up the inode by the path hash in the command,       *)
(* close the two kernel files, and under the spinlock *)
(* decrement the count of the inode found; free it if it reaches zero and *)
(* the file was unlinked.                                                  *)
CloseKernel(t) ==
    LET h == arg[t].p
        j == KSearch(h)
    IN
    /\ pc[t] = "close_kernel"
    /\ IF j = None
       THEN UNCHANGED <<ktab, ist, refcount>>
       ELSE /\ refcount' = [refcount EXCEPT ![j] = @ - 1]
            /\ IF refcount[j] - 1 = 0 /\ reclaim[j]
               THEN ktab' = KDelete(h) /\ Free(j)
               ELSE UNCHANGED <<ktab, ist>>
    /\ Return(t)
    /\ UNCHANGED <<nextIno, reclaim, ipath, ent, umap, fd, arg, nops>>

(* polystore_pwrite through the cached engine on the descriptor's inode. *)
Write(t) ==
    LET i == fd[t] IN
    /\ pc[t] = "write"
    /\ ent' = IF i \in Inos THEN [ent EXCEPT ![i] = Touch(@)] ELSE ent
    /\ Return(t)
    /\ UNCHANGED <<kernelVars, refcount, reclaim, ipath, umap, fd, arg, nops>>

\* Mutant: the drop happens but the inode map entry is not deleted.
UnlinkUserKeepMap(t) ==
    LET j == umap[arg[t].p] IN
    /\ pc[t] = "unlink_user"
    /\ IF j # None /\ refcount[j] = 0
       THEN /\ ent' = [ent EXCEPT ![j] = Drop(@)]
            /\ UNCHANGED umap
       ELSE UNCHANGED <<ent, umap>>
    /\ pc' = [pc EXCEPT ![t] = "unlink_kernel"]
    /\ UNCHANGED <<kernelVars, refcount, reclaim, ipath, fd, arg, cur, nops>>

(* polystore_unlink, library side: if the library's map knows the path    *)
(* and nobody holds the inode, drop its cache and forget it.  The         *)
(* physical files are unlinked next (not modelled).                        *)
UnlinkUser(t) ==
    LET j == umap[arg[t].p] IN
    /\ pc[t] = "unlink_user"
    /\ IF j # None /\ refcount[j] = 0
       THEN /\ ent' = [ent EXCEPT ![j] = Drop(@)]
            /\ umap' = HashmapDelete(j)
       ELSE UNCHANGED <<ent, umap>>
    /\ pc' = [pc EXCEPT ![t] = "unlink_kernel"]
    /\ UNCHANGED <<kernelVars, refcount, reclaim, ipath, fd, arg, cur, nops>>

UnlinkKernelAlwaysFree(t) ==
    LET p == arg[t].p
        j == KSearch(p)
    IN
    /\ pc[t] = "unlink_kernel"
    /\ IF j = None
       THEN UNCHANGED <<ktab, ist>>
       ELSE ktab' = KDelete(p) /\ Free(j)
    /\ Return(t)
    /\ UNCHANGED <<nextIno, refcount, reclaim, ipath, ent, umap, fd, arg, nops>>

(* polyos_unlink: under the spinlock, free the inode if nobody holds it,  *)
(* else mark it for reclaim at its last close.                             *)
UnlinkKernel(t) ==
    LET p == arg[t].p
        j == KSearch(p)
    IN
    /\ pc[t] = "unlink_kernel"
    /\ IF j = None
       THEN UNCHANGED <<ktab, ist, reclaim>>
       ELSE IF refcount[j] = 0
       THEN ktab' = KDelete(p) /\ Free(j) /\ UNCHANGED reclaim
       ELSE reclaim' = [reclaim EXCEPT ![j] = TRUE] /\ UNCHANGED <<ktab, ist>>
    /\ Return(t)
    /\ UNCHANGED <<nextIno, refcount, ipath, ent, umap, fd, arg, nops>>

(* polystore_rename renames the physical files (not modelled), then       *)
(* polyos_rename -> i_hashtable_search_and_rename moves the first inode   *)
(* of the old hash to the head of the new hash's chain.                    *)
RenameKernel(t) ==
    LET p == arg[t].p
        q == arg[t].q
        j == KSearch(p)
    IN
    /\ pc[t] = "rename_kernel"
    /\ IF j = None
       THEN UNCHANGED <<ktab, ipath>>
       ELSE /\ ktab' = [ktab EXCEPT ![p] = Tail(@), ![q] = <<j>> \o @]
            /\ ipath' = [ipath EXCEPT ![j] = q]
    /\ pc' = [pc EXCEPT ![t] = "rename_user"]
    /\ UNCHANGED <<nextIno, ist, refcount, reclaim, ent, umap, fd, arg, cur, nops>>

(* polystore_inode_hashmap_rename, whatever the ioctl returned: re-key    *)
(* the library's entry, replacing one under the new hash.                  *)
RenameUser(t) ==
    /\ pc[t] = "rename_user"
    /\ umap' = HashmapRename(arg[t].p, arg[t].q)
    /\ Return(t)
    /\ UNCHANGED <<kernelVars, inodeVars, fd, arg, nops>>

(* The dispatcher and the flushing workers, for one linked interval: a    *)
(* removed interval is unlinked; any other is written back, loses its     *)
(* buffer and is unlinked.                                                 *)
Flush(i) ==
    /\ ent[i].links > 0
    /\ ent' = [ent EXCEPT ![i].links = @ - 1,
                          ![i].buf = IF ent[i].removed THEN @ ELSE FALSE]
    /\ UNCHANGED <<kernelVars, refcount, reclaim, ipath, umap, fd, threadVars>>

-----------------------------------------------------------------------------
Init ==
    /\ ktab = [p \in Paths |-> <<>>]
    /\ nextIno = 0
    /\ ist = [i \in Inos |-> "unused"]
    /\ refcount = [i \in Inos |-> 0]
    /\ reclaim = [i \in Inos |-> FALSE]
    /\ ipath = [i \in Inos |-> CHOOSE p \in Paths : TRUE]
    /\ ent = [i \in Inos |-> NoEntry]
    /\ umap = [p \in Paths |-> None]
    /\ fd = [t \in Threads |-> None]
    /\ pc = [t \in Threads |-> "idle"]
    /\ arg = [t \in Threads |-> CHOOSE c \in Calls[t] : TRUE]
    /\ cur = [t \in Threads |-> None]
    /\ nops = [t \in Threads |-> 0]

Step(t) ==
    \/ OpenSearch(t) \/ OpenInsert(t) \/ OpenFinish(t)
    \/ CloseUser(t) \/ CloseKernel(t) \/ Write(t)
    \/ UnlinkUser(t) \/ UnlinkKernel(t) \/ RenameKernel(t) \/ RenameUser(t)

Next ==
    \/ \E t \in Threads : \E c \in Calls[t] : Begin(t, c)
    \/ \E t \in Threads : Step(t)
    \/ \E i \in Inos : Flush(i)

\* Calls are the application's choice; a call in progress is run by its OS
\* thread, and the flushing pool keeps draining the lists.
Spec ==
    Init /\ [][Next]_vars
    /\ \A t \in Threads : WF_vars(Step(t))
    /\ \A i \in Inos : WF_vars(Flush(i))
-----------------------------------------------------------------------------
(* Properties *)

TypeOK ==
    /\ ktab \in [Paths -> Seq(Inos)]
    /\ nextIno \in 0 .. MaxIno + 1
    /\ ist \in [Inos -> {"unused", "live", "freed"}]
    /\ refcount \in [Inos -> Nat]
    /\ reclaim \in [Inos -> BOOLEAN]
    /\ ipath \in [Inos -> Paths]
    /\ ent \in [Inos -> Entry]
    /\ umap \in [Paths -> Inos \cup {None}]
    /\ fd \in [Threads -> Inos \cup {None, Orphan}]
    /\ cur \in [Threads -> Inos \cup {None}]
    /\ nops \in [Threads -> 0 .. MaxOps]

\* The kernel table holds at most one inode per path hash, so every open,
\* close and unlink of a path reaches the same inode: concurrent first
\* opens must agree through the re-check in i_hashtable_search_and_insert,
\* and rename must not add a second inode under an existing hash.
OnePathOneInode == \A p \in Paths : Len(ktab[p]) <= 1

\* Between calls, the library's inode map (polystore_inode_hashmap), which
\* polystore_unlink consults to drop the cache, names for every path the
\* inode the kernel finds for it: open, close, unlink and rename update the
\* two maps in separate steps, the library's only on some paths.
Quiescent == \A t \in Threads : pc[t] = "idle"
UserMapAgrees ==
    Quiescent => \A p \in Paths : umap[p] # None => KSearch(p) = umap[p]

\* The reference count of a live inode, incremented by polystore_open and
\* decremented by polyos_close, equals the number of poly-files on it plus
\* the closers that deleted their poly-file and have yet to decrement.
Holders(i) == {t \in Threads : fd[t] = i}
Closing(i) == {t \in Threads : pc[t] = "close_kernel" /\ cur[t] = i}
RefcountAccounting ==
    \A i \in Inos : ist[i] = "live" =>
        refcount[i] = Cardinality(Holders(i)) + Cardinality(Closing(i))

\* No descriptor the library hands out refers to an inode the kernel has
\* freed: polyos_unlink and polyos_close free an inode only when no
\* poly-file is left on it.
OpenFilesLive == \A t \in Threads : fd[t] \in Inos => ist[fd[t]] = "live"

\* When the kernel frees an inode, the library has dropped its cache first
\* (polystore_close and polystore_unlink call poly_cache_drop on what they
\* take for the last reference): no step frees an inode whose interval
\* still holds a cache buffer.  Two closes of an unlinked file both read
\* the count before either decrements it, so neither drops the cache.
FreedInodeCacheDropped ==
    [][\A i \in Inos : ist[i] = "live" /\ ist'[i] = "freed" => ~ent[i].buf]_vars

=============================================================================
