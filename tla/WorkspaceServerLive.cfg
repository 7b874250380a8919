CONSTANTS
    Saver = {s1, s2, s3}
    Reader = {r1, r2}
    Eraser = {}
    Mutation = {m1, m2, m3}
    Content = {blank, x, y}
    Blank = blank
    Namespace = {n1, n2}
    NoRow = NoRow
    NoInput = NoInput
SYMMETRY Symmetry
SPECIFICATION Spec
INVARIANTS RefusedNeverCommits ConflictMovesForward
PROPERTY ImplementsRegister
CHECK_DEADLOCK FALSE
