------------------------------ MODULE PolyFile -------------------------------
(***************************************************************************)
(* What an I/O engine of PolyStore promises the callers of one file        *)
(* (spec.md, "IOEngine"): the file is a row of bytes and a size.  A call   *)
(* fixes its range when it enters the engine, an append at the current     *)
(* size.  It then moves its range front to back, a piece at a time, each   *)
(* piece atomic: a write or an append stores its own value in the bytes of *)
(* the piece, a read copies the bytes of the piece to their place in its   *)
(* buffer; a read that copies less than a piece (the filled end of an      *)
(* interval, read as end of file) stops there.  A call may return before   *)
(* its range is done (a short read or write); a write or append that       *)
(* returns leaves the size covering its whole range.  No other step       *)
(* changes a byte or the size.                                             *)
(***************************************************************************)
EXTENDS Integers

CONSTANTS
    Threads,    \* callers
    FileBytes,  \* the offsets of the file modelled
    MaxCnt,     \* the largest count of a call
    Vals,       \* byte values
    None        \* a byte of a read buffer not filled

Ops == {"read", "write", "append"}
BufIdx == 0 .. MaxCnt - 1

VARIABLES
    content,    \* [FileBytes -> Vals] the bytes of the file
    size,       \* the size of the file
    op,         \* [Threads -> Ops \cup {"idle"}] the call in progress
    lo,         \* [Threads -> Int] the first byte of the range not yet moved
    hi,         \* [Threads -> Int] the last byte of the range
    base,       \* [Threads -> Int] the first byte of the range
    got         \* [Threads -> [BufIdx -> Vals \cup {None}]] read buffers

vars == <<content, size, op, lo, hi, base, got>>

TypeOK ==
    /\ content \in [FileBytes -> Vals]
    /\ size \in Nat
    /\ op \in [Threads -> Ops \cup {"idle"}]
    /\ got \in [Threads -> [BufIdx -> Vals \cup {None}]]

Init ==
    /\ content \in [FileBytes -> Vals]
    /\ size \in Nat
    /\ op = [t \in Threads |-> "idle"]
    /\ lo = [t \in Threads |-> 0]
    /\ hi = [t \in Threads |-> 0]
    /\ base = [t \in Threads |-> 0]
    /\ got \in [Threads -> [BufIdx -> Vals \cup {None}]]

Call(t) ==
    /\ op[t] = "idle"
    /\ \E k \in Ops, s \in FileBytes, n \in 1 .. MaxCnt :
         /\ k = "append" => s = size
         /\ s + n - 1 \in FileBytes
         /\ op' = [op EXCEPT ![t] = k]
         /\ lo' = [lo EXCEPT ![t] = s]
         /\ hi' = [hi EXCEPT ![t] = s + n - 1]
         /\ base' = [base EXCEPT ![t] = s]
         /\ got' = [got EXCEPT ![t] = [i \in BufIdx |-> None]]
    /\ UNCHANGED <<content, size>>

\* the piece [lo, m] moves; a read copies [lo, k] of it, and when it
\* copies less than the piece (it met the filled end of an interval) it
\* stops there and moves nothing more
Move(t) ==
    /\ op[t] \in Ops
    /\ lo'[t] > lo[t]
    /\ \E m \in lo[t] .. hi[t], k \in lo[t] - 1 .. hi[t] :
         /\ k <= m
         /\ IF op[t] = "read"
            THEN /\ got' = [got EXCEPT ![t] =
                              [i \in BufIdx |-> IF lo[t] <= base[t] + i /\ base[t] + i <= k
                                                THEN content[base[t] + i] ELSE got[t][i]]]
                 /\ lo' = [lo EXCEPT ![t] = IF k < m THEN hi[t] + 1 ELSE m + 1]
                 /\ UNCHANGED content
            ELSE /\ k = m
                 /\ content' = [o \in FileBytes |-> IF lo[t] <= o /\ o <= m
                                                    THEN t ELSE content[o]]
                 /\ lo' = [lo EXCEPT ![t] = m + 1]
                 /\ UNCHANGED got
    /\ UNCHANGED <<size, op, hi, base>>

Return(t) ==
    /\ op[t] \in Ops
    /\ size' = IF op[t] = "read" THEN size
               ELSE IF hi[t] + 1 > size THEN hi[t] + 1 ELSE size
    /\ op' = [op EXCEPT ![t] = "idle"]
    /\ lo' = [lo EXCEPT ![t] = 0]
    /\ hi' = [hi EXCEPT ![t] = 0]
    /\ base' = [base EXCEPT ![t] = 0]
    /\ UNCHANGED <<content, got>>

Next == \E t \in Threads : Call(t) \/ Move(t) \/ Return(t)

Spec == Init /\ [][Next]_vars
=============================================================================
