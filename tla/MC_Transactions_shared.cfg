\* Two transactions over the same two files, which may be there already or not, and one
\* write of a file by somebody else; two commits are dropped.
CONSTANTS
    t1 = t1  t2 = t2  p1 = p1  p2 = p2
    Txs = {t1, t2}
    Paths = {p1, p2}
    MaxOutside = 1
    MaxDrops = 2
SYMMETRY Symmetry
SPECIFICATION Spec
INVARIANT TypeOK
PROPERTY Atomic
CHECK_DEADLOCK FALSE
