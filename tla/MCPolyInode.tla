----------------------------- MODULE MCPolyInode -----------------------------
(* Instances of PolyInode for TLC: threads and paths are model values.     *)
EXTENDS PolyInode, TLC

CONSTANTS t1, t2, A, B

MCOne == {t1}
MCTwo == {t1, t2}

Op(o, p) == [op |-> o, p |-> p, q |-> p]
Ren(p, q) == [op |-> "rename", p |-> p, q |-> q]
FileOps == {Op("close", A), Op("write", A)}

\* one application thread opening, writing, closing, renaming and
\* unlinking; B is reached only by renaming A, and four calls leave no
\* room to re-create A and rename it onto B again
MCCallsSeq == [t \in {t1} |->
                 FileOps \cup {Op("open", A), Ren(A, B), Op("unlink", A),
                               Op("unlink", B)}]

\* two threads opening, writing and closing one path
MCCallsOpen == [t \in {t1, t2} |-> FileOps \cup {Op("open", A)}]

\* two threads sharing a path one of them unlinks
MCCallsUnlink == [t \in {t1, t2} |-> FileOps \cup {Op("open", A), Op("unlink", A)}]

\* one thread renaming onto a path that has an inode
MCCallsRename == [t \in {t1} |->
                    FileOps \cup {Op("open", A), Op("open", B), Ren(A, B)}]

MCThreadsSym == Permutations({t1, t2})
=============================================================================
