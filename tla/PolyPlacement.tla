---------------------------- MODULE PolyPlacement ----------------------------
(***************************************************************************)
(* Task contexts and the dynamic placement scheduler.                      *)
(*                                                                         *)
(*  - Every application thread registers a task context when it starts    *)
(*    (shim.c pthread_routine_wrapper): the PolyOS kernel allocates the    *)
(*    context and enters it in its task hashtable, the library gives it    *)
(*    an initial placement from the number of active tasks and links it    *)
(*    on task_ctx_list under the write lock.  On exit the thread unlinks   *)
(*    it, gives back its fast-device slot and asks the kernel to free it.  *)
(*  - I/O on the thread adds the bytes it moved to task_ctx->throughput.   *)
(*  - Every epoch the SIGPROF handler polystore_placement_dynamic walks    *)
(*    the list under the read lock; for each task it samples and resets    *)
(*    the throughput, promotes a slow task while the fast device has room  *)
(*    and demotes a fast task that has been idle too long.                 *)
(*                                                                         *)
(* The read-write lock is modelled by the scheduler's walk: list_add and   *)
(* list_del are single steps that wait while a walk is in progress.  A     *)
(* throughput is abstracted to whether it is non-zero.                     *)
(***************************************************************************)
EXTENDS Integers, Sequences, SequencesExt, FiniteSets

CONSTANTS
    Main,        \* the main thread, registered by polystore_init
    Threads,     \* the other threads (each start of a thread reuses one)
    SplitPoint,  \* sched_split_point
    LowThrput    \* POLYSTORE_EPOCH_LOW_THRPUT, scaled

ASSUME Main \notin Threads

Tasks == Threads \cup {Main}
Placements == {"unset", "fast", "slow"}
\* low_throughput_tic saturates: every value above LowThrput decides alike
TicCap == LowThrput + 1

VARIABLES
    \* kernel
    kTasks,      \* threads whose g_task_ctx is in task_ctx_hashtable
    \* struct g_task_ctx, shared by kernel, thread and scheduler
    placement, thr, lastThr, lowTic,
    \* library
    cnt,         \* task_ctx_active_cnt
    usage,       \* sched_fastdev_usage
    list,        \* task_ctx_list, in list order
    pc,          \* [Tasks -> step of the thread's life]
    fastPick,    \* [Tasks -> BOOLEAN] the test at context.c:52
    \* the scheduler's walk of the list
    sched        \* [at: {"idle", "sample", "decide"}, pos: Nat]

ctxVars == <<placement, thr, lastThr, lowTic>>
vars == <<kTasks, ctxVars, cnt, usage, list, pc, fastPick, sched>>

(***************************************************************************)
(* After polystore_init: the split point is read from the environment and *)
(* the main thread has registered its task context, taking the fast       *)
(* device when the split point is above zero.                              *)
(***************************************************************************)
Init ==
    /\ kTasks = {Main}
    /\ placement = [t \in Tasks |-> IF t # Main THEN "unset"
                                     ELSE IF 0 < SplitPoint THEN "fast" ELSE "slow"]
    /\ thr = [t \in Tasks |-> FALSE]
    /\ lastThr = [t \in Tasks |-> FALSE]
    /\ lowTic = [t \in Tasks |-> 0]
    /\ cnt = 1
    /\ usage = IF 0 < SplitPoint THEN 1 ELSE 0
    /\ list = <<Main>>
    /\ pc = [t \in Tasks |-> IF t = Main THEN "work" ELSE "idle"]
    /\ fastPick = [t \in Tasks |-> t = Main /\ 0 < SplitPoint]
    /\ sched = [at |-> "idle", pos |-> 0]

(* task_ctx_alloc: a fresh id and a zeroed context whose placement is 0 *)
TaskCtxAlloc(t) == placement' = [placement EXCEPT ![t] = "unset"]

TaskCtxHashtableInsert(t) == kTasks' = kTasks \cup {t}
TaskCtxHashtableSearch(t) == t \in kTasks
TaskCtxHashtableDelete(t) == kTasks' = kTasks \ {t}

(* the kernel side of POLYOS_TASK_CTX_REG_CMD and _DELETE_CMD; ids are     *)
(* never reused, so the search always finds the context                    *)
PolyosTaskCtxReg(t) == TaskCtxAlloc(t) /\ TaskCtxHashtableInsert(t)
PolyosTaskCtxDelete(t) == TaskCtxHashtableSearch(t) /\ TaskCtxHashtableDelete(t)

(***************************************************************************)
(* polystore_task_ctx_register, first the ioctl: the kernel allocates the  *)
(* context, the library zeroes its counters.                               *)
(***************************************************************************)
RegIoctl(t) ==
    /\ pc[t] = "idle"
    /\ PolyosTaskCtxReg(t)
    /\ thr' = [thr EXCEPT ![t] = FALSE]
    /\ lastThr' = [lastThr EXCEPT ![t] = FALSE]
    /\ lowTic' = [lowTic EXCEPT ![t] = 0]
    /\ pc' = [pc EXCEPT ![t] = "count"]
    /\ UNCHANGED <<cnt, usage, list, fastPick, sched>>

(* the fetch-and-add of the active count decides the initial placement *)
Count(t) ==
    /\ pc[t] = "count"
    /\ fastPick' = [fastPick EXCEPT ![t] = cnt < SplitPoint]
    /\ cnt' = cnt + 1
    /\ pc' = [pc EXCEPT ![t] = "place"]
    /\ UNCHANGED <<kTasks, ctxVars, usage, list, sched>>

Place(t) ==
    /\ pc[t] = "place"
    /\ placement' = [placement EXCEPT ![t] = IF fastPick[t] THEN "fast" ELSE "slow"]
    /\ usage' = IF fastPick[t] THEN usage + 1 ELSE usage
    /\ pc' = [pc EXCEPT ![t] = "link"]
    /\ UNCHANGED <<kTasks, thr, lastThr, lowTic, cnt, list, fastPick, sched>>

(* list_add_tail under the write lock, then the thread's routine runs *)
Link(t) ==
    /\ pc[t] = "link"
    /\ sched.at = "idle"
    /\ list' = Append(list, t)
    /\ pc' = [pc EXCEPT ![t] = "work"]
    /\ UNCHANGED <<kTasks, ctxVars, cnt, usage, fastPick, sched>>

(* task_ctx->throughput += copied, at the end of every read and write *)
Io(t) ==
    /\ pc[t] = "work"
    /\ thr' = [thr EXCEPT ![t] = TRUE]
    /\ UNCHANGED <<kTasks, placement, lastThr, lowTic, cnt, usage, list, pc,
                   fastPick, sched>>

(* the routine returns: polystore_task_ctx_delete, list_del under the lock; *)
(* the main thread's context lives until the process exits                 *)
Unlink(t) ==
    /\ pc[t] = "work"
    /\ t # Main
    /\ sched.at = "idle"
    /\ list' = Remove(list, t)
    /\ pc' = [pc EXCEPT ![t] = "unplace"]
    /\ UNCHANGED <<kTasks, ctxVars, cnt, usage, fastPick, sched>>

\* a deregistration that does not give back its fast-device slot
UnplaceNoDec(t) ==
    /\ pc[t] = "unplace"
    /\ pc' = [pc EXCEPT ![t] = "uncount"]
    /\ UNCHANGED <<kTasks, ctxVars, cnt, usage, list, fastPick, sched>>

Unplace(t) ==
    /\ pc[t] = "unplace"
    /\ usage' = IF placement[t] = "fast" THEN usage - 1 ELSE usage
    /\ pc' = [pc EXCEPT ![t] = "uncount"]
    /\ UNCHANGED <<kTasks, ctxVars, cnt, list, fastPick, sched>>

\* a deregistration that leaves the active count as it was
UncountKeepCnt(t) ==
    /\ pc[t] = "uncount"
    /\ PolyosTaskCtxDelete(t)
    /\ pc' = [pc EXCEPT ![t] = "idle"]
    /\ UNCHANGED <<ctxVars, cnt, usage, list, fastPick, sched>>

(* the active count drops, the kernel frees the context, the thread exits *)
Uncount(t) ==
    /\ pc[t] = "uncount"
    /\ cnt' = cnt - 1
    /\ PolyosTaskCtxDelete(t)
    /\ pc' = [pc EXCEPT ![t] = "idle"]
    /\ UNCHANGED <<ctxVars, usage, list, fastPick, sched>>

(***************************************************************************)
(* polystore_placement_dynamic.  The read lock is taken when the list is  *)
(* not empty (on an empty list the handler changes nothing modelled).  The *)
(* walk visits one task per pair of steps; the sample of the throughput    *)
(* and its reset are separate plain accesses of task_ctx->throughput, so  *)
(* a thread's += can fall between them.  The test of the usage and its     *)
(* increment are one step: the only other writers add or subtract one,    *)
(* which commutes with the increment.                                      *)
(***************************************************************************)
EpochBegin ==
    /\ sched.at = "idle"
    /\ list # <<>>
    /\ sched' = [at |-> "sample", pos |-> 1]
    /\ UNCHANGED <<kTasks, ctxVars, cnt, usage, list, pc, fastPick>>

Sample ==
    /\ sched.at = "sample"
    /\ LET u == list[sched.pos] IN
         lastThr' = [lastThr EXCEPT ![u] = thr[u]]
    /\ sched' = [sched EXCEPT !.at = "decide"]
    /\ UNCHANGED <<kTasks, placement, thr, lowTic, cnt, usage, list, pc,
                   fastPick>>

Promote(u) == placement[u] = "slow" /\ usage < SplitPoint

\* low_throughput_tic after this epoch, saturated at TicCap
NextTic(u) == IF lastThr[u] THEN 0 ELSE IF lowTic[u] < TicCap THEN lowTic[u] + 1 ELSE TicCap

Demote(u) ==
    /\ NextTic(u) > LowThrput
    /\ (placement[u] = "fast" \/ Promote(u))

Decide ==
    /\ sched.at = "decide"
    /\ LET u == list[sched.pos] IN
         /\ thr' = [thr EXCEPT ![u] = FALSE]
         /\ placement' = [placement EXCEPT ![u] =
                            IF Demote(u) THEN "slow"
                            ELSE IF Promote(u) THEN "fast" ELSE @]
         /\ usage' = usage + (IF Promote(u) THEN 1 ELSE 0)
                           - (IF Demote(u) THEN 1 ELSE 0)
         /\ lowTic' = [lowTic EXCEPT ![u] = NextTic(u)]
    /\ sched' = IF sched.pos = Len(list) THEN [at |-> "idle", pos |-> 0]
                 ELSE [at |-> "sample", pos |-> sched.pos + 1]
    /\ UNCHANGED <<kTasks, lastThr, cnt, list, pc, fastPick>>

(* pthread_routine_wrapper: register, run the routine, delete *)
Thread(t) ==
    \/ RegIoctl(t) \/ Count(t) \/ Place(t) \/ Link(t)
    \/ Io(t) \/ Unlink(t) \/ Unplace(t) \/ Uncount(t)

(* the SIGPROF timer of polystore_init starts an epoch at any time *)
Next == \/ \E t \in Threads : Thread(t)
        \/ Io(Main)
        \/ EpochBegin \/ Sample \/ Decide

Spec == Init /\ [][Next]_vars

-----------------------------------------------------------------------------
TypeOK ==
    /\ kTasks \subseteq Tasks
    /\ placement \in [Tasks -> Placements]
    /\ thr \in [Tasks -> BOOLEAN] /\ lastThr \in [Tasks -> BOOLEAN]
    /\ lowTic \in [Tasks -> 0 .. TicCap]
    /\ cnt \in 1 .. Cardinality(Tasks)
    /\ usage \in Nat
    /\ list \in Seq(Tasks)
    /\ pc \in [Tasks -> {"idle", "count", "place", "link", "work",
                           "unplace", "uncount"}]
    /\ sched \in [at : {"idle", "sample", "decide"}, pos : 0 .. Len(list)]

\* a thread holds a fast-device slot from Place until Unplace
HoldsSlot(t) == pc[t] \in {"link", "work", "unplace"} /\ placement[t] = "fast"

(***************************************************************************)
(* sched_fastdev_usage counts exactly the registered tasks placed on the   *)
(* fast device: registration, the scheduler's promotions and demotions and *)
(* deregistration, running concurrently, keep it in step with the          *)
(* placements.                                                             *)
(***************************************************************************)
UsageAccounting == usage = Cardinality({t \in Tasks : HoldsSlot(t)})

(***************************************************************************)
(* No more tasks use the fast device than the split point allows: neither *)
(* the initial placement at registration nor a promotion takes the fast   *)
(* device beyond sched_split_point.                                        *)
(***************************************************************************)
FastWithinSplit == usage <= SplitPoint
====
