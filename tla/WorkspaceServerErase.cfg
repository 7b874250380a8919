CONSTANTS
    Saver = {s1, s2}
    Reader = {r1, r2}
    Eraser = {d1}
    Mutation = {m1, m2}
    Content = {blank, x}
    Blank = blank
    Namespace = {n1, n2, n3}
    NoRow = NoRow
    NoInput = NoInput
SYMMETRY Symmetry
SPECIFICATION Spec
INVARIANTS ServerInv OneCommitPerRevision AcknowledgedWasCommitted
CHECK_DEADLOCK FALSE
