--------------------------- MODULE MCPolyPlacement ---------------------------
(* Instances of PolyPlacement for TLC: threads are model values.           *)
EXTENDS PolyPlacement, TLC

CONSTANTS m, t1, t2

MCThreads == {t1, t2}
\* the threads started after init are interchangeable
MCThreadsSym == Permutations(MCThreads)
====
