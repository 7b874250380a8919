CONSTANTS
    d1 = d1 d2 = d2 d3 = d3 b1 = b1 b2 = b2 b3 = b3 b4 = b4 b5 = b5 c1 = c1 c2 = c2 p1 = p1 p2 = p2 a1 = a1 a2 = a2
    Doc = {d1, d2, d3}
    Block = {b1, b2, b3, b4, b5}
    Connection = {c1, c2}
    Snapshot = {p1, p2}
    Annotation = {a1, a2}
    Base <- MCBase
    MaxEdits = 2
    Absent = Absent
    NoResult = NoResult
SPECIFICATION Spec
INVARIANTS WordsSurvive IndependentChangesCombine StructureSurvives
CHECK_DEADLOCK FALSE
